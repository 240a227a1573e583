------------------------------- MODULE Panel -------------------------------
(***************************************************************************)
(* The operator's side of the screener: the `.env` file and its backup,    *)
(* the control panel that rewrites it and runs the screening loop, the     *)
(* HTTP service and the one-click script that read it.  Each process has   *)
(* its own cached Settings, and the exchange client of a loop keeps the    *)
(* settings it was built from.  A write of the file is visible half done.  *)
(***************************************************************************)
EXTENDS Integers, Sequences, FiniteSets, SequencesExt

CONSTANTS Process,    \* the processes in use, of "panel", "api" and "cli"
          ApiKey,     \* exchange keys that may be filled in
          Form,       \* the forms an operator may submit
          Edit,       \* the lines an operator may write into the file
          MaxSaves, MaxEdits, MaxDeaths,
          MaxUp,      \* processes that run at a time
          MaxPressed  \* cycles outside a scheduler that run at a time

Field == {"RUN_MODE", "OKX_TRADE_API_KEY", "OKX_SIMULATED", "POSITION_USD"}
Blank == ""
Stored == "***"       \* the placeholder the form shows for a stored secret
Value == {Blank, Stored, "ALERT_ONLY", "LIVE", "true", "false", "25"} \cup ApiKey
LineType == [key : Field \cup {"KILL_SWITCH"}, value : Value]

ASSUME PanelAssumption ==
    /\ Process \subseteq {"panel", "api", "cli"}
    /\ Form \subseteq [Field -> Value]
    /\ \A form \in Form : form["OKX_SIMULATED"] \in {"true", "false"}   \* a CHOICE_FIELD
    /\ Edit \subseteq LineType

VARIABLES file,       \* {} or {the lines of .env}
          bak,        \* {} or {the lines of .env.bak}
          whole,      \* {} or {the last version of .env that was completely written}
          wanted,     \* {} or {what the last save or edit meant to leave}
          writing,    \* {} or {the save whose write is under way}
          note,       \* what the panel last told the operator of the mode
          up,         \* the running processes
          cache,      \* {} or {the cached Settings} of each process
          services,   \* {} or {the Settings its clients were built from}
          loop,       \* the processes whose scheduler runs
          cycle,      \* {} or {the cycle} of each process and starter
          consent,    \* how the one-click script passed confirm_live_mode
          saves, edits, deaths

disk == <<file, bak, whole, wanted, writing>>
procs == <<up, cache, services, loop, cycle, consent>>
counts == <<saves, edits, deaths>>
vars == <<disk, procs, counts, note>>

----------------------------------------------------------------------------
(* The file and what it means.                                             *)

SECRET_KEYS == {"OKX_TRADE_API_KEY"}
NEVER_BLANK == {"RUN_MODE", "OKX_SIMULATED"}

Line(k, v) == [key |-> k, value |-> v]

env_example_reordered ==
    << Line("RUN_MODE", "ALERT_ONLY"), Line("OKX_TRADE_API_KEY", Blank),
       Line("OKX_SIMULATED", "true"), Line("POSITION_USD", "25"),
       Line("KILL_SWITCH", "false") >>
env_example == << Line("RUN_MODE", "ALERT_ONLY"), Line("KILL_SWITCH", "false"),
                  Line("OKX_TRADE_API_KEY", Blank), Line("OKX_SIMULATED", "true"),
                  Line("POSITION_USD", "25") >>

Keys(lines) == {lines[i].key : i \in DOMAIN lines}
Values(lines, k) == {l.value : l \in {m \in ToSet(lines) : m.key = k}}
Lookup(lines, k, default) ==
    IF Values(lines, k) = {} THEN default ELSE CHOOSE v \in Values(lines, k) : TRUE

read_env(f) == IF f = {} THEN <<>> ELSE CHOOSE lines \in f : TRUE

\* A blank mode, flag or number fails validation; a blank key is no key.
Loadable(lines) == \A k \in Keys(lines) \ SECRET_KEYS : Lookup(lines, k, Blank) # Blank

Settings(lines) == [ run_mode |-> Lookup(lines, "RUN_MODE", "ALERT_ONLY"),
                     kill_switch |-> Lookup(lines, "KILL_SWITCH", "false") = "true",
                     api_key |-> Lookup(lines, "OKX_TRADE_API_KEY", Blank),
                     simulated |-> Lookup(lines, "OKX_SIMULATED", "true") = "true" ]

\* The value of Settings() here and now: {} stands for a ValidationError.
Parse(f) == IF Loadable(read_env(f)) THEN {Settings(read_env(f))} ELSE {}

get_settings_uncached(p) == Parse(file)
\* lru_cache keeps no exception: an empty cache reads the file at every call.
get_settings(p) == IF cache[p] # {} THEN cache[p] ELSE Parse(file)

\* What a cycle under settings c may do through clients built from b.
CanSpend(c, b) == /\ c.run_mode = "LIVE" /\ ~c.kill_switch
                  /\ b.api_key # Blank /\ ~b.simulated

----------------------------------------------------------------------------
(* Saving the form.                                                        *)

Refused_if_blank(k, v) == v = Blank /\ k \in SECRET_KEYS \cup NEVER_BLANK
Refused_if_masked(k, v) == \/ k \in SECRET_KEYS /\ v = Stored
                           \/ k \in NEVER_BLANK /\ v = Blank
Refused(k, v) == \/ k \in SECRET_KEYS /\ v \in {Blank, Stored}
                 \/ k \in NEVER_BLANK /\ v = Blank

\* The fields a submission changes.
merge_form(lines, form) ==
    {k \in Field : ~Refused(k, form[k]) /\ Lookup(lines, k, Blank) # form[k]}

\* Present keys are rewritten where they stand, new ones appended in the
\* order of SETUP_FIELDS.
rewritten(lines, form, updates) ==
    [i \in DOMAIN lines |-> IF lines[i].key \in updates
                            THEN Line(lines[i].key, form[lines[i].key])
                            ELSE lines[i]]
appended(k, form, new) == IF k \in new THEN <<Line(k, form[k])>> ELSE <<>>
write_env(lines, form, updates) ==
    LET new == updates \ Keys(lines)
    IN rewritten(lines, form, updates)
         \o appended("OKX_TRADE_API_KEY", form, new) \o appended("OKX_SIMULATED", form, new)
         \o appended("RUN_MODE", form, new) \o appended("POSITION_USD", form, new)

\* What a reader can find while the file is rewritten: some first lines, the
\* last of them possibly without its value.
Torn(lines) ==
    LET first(n) == SubSeq(lines, 1, n)
    IN {first(n) : n \in 0..(Len(lines) - 1)}
         \cup {Append(first(n), Line(lines[n + 1].key, Blank)) : n \in 0..(Len(lines) - 1)}

\* The form as the panel shows it: stored secrets masked, and what the file
\* does not say taken from the settings in force.
load_setup_values(lines, c) ==
    [k \in Field |->
        LET v == Lookup(lines, k, Blank)
        IN CASE k \in SECRET_KEYS -> IF v = Blank THEN Blank ELSE Stored
             [] k = "RUN_MODE" -> IF v = Blank THEN c.run_mode ELSE v
             [] k = "OKX_SIMULATED" -> IF v # Blank THEN v
                                       ELSE IF c.simulated THEN "true" ELSE "false"
             [] OTHER -> IF v = Blank THEN "25" ELSE v]

\* The banner is made from the form, not from the file.
banner_by_digit(form) == IF form["RUN_MODE"] # "LIVE" THEN "plain"
                         ELSE IF form["OKX_SIMULATED"] \in {"0", "no"} THEN "real" ELSE "demo"
banner(form) == IF form["RUN_MODE"] # "LIVE" THEN "plain"
                ELSE IF form["OKX_SIMULATED"] = "false" THEN "real" ELSE "demo"

\* shutil.copyfile comes before write_text.
backup_late(base, text) == {text}
backup(base, text) == {base}

\* A missing file is first copied from the example; the backup is taken
\* before the file is opened for writing, and of whatever the file holds.
BeginSave(form) ==
    LET base == IF file = {} THEN env_example ELSE read_env(file)
        updates == merge_form(read_env(file), form)
    IN /\ "panel" \in up /\ writing = {} /\ saves < MaxSaves + deaths
       /\ saves' = saves + 1
       /\ IF updates = {}
          THEN /\ note' = "none"
               /\ UNCHANGED disk
          ELSE LET text == write_env(base, form, updates)
               IN /\ bak' = backup(base, text)
                  /\ whole' = IF file = {} THEN {base} ELSE whole
                  /\ wanted' = {text}
                  /\ writing' = {[text |-> text, form |-> form]}
                  /\ \E seen \in Torn(text) : file' = {seen}
                  /\ note' = "none"
       /\ UNCHANGED <<procs, edits, deaths>>

\* The write is done: settings are reloaded, and a file that does not parse
\* leaves the panel with none.
EndSave ==
    \E w \in writing :
        /\ file' = {w.text}
        /\ whole' = {w.text}
        /\ writing' = {}
        /\ cache' = [cache EXCEPT !["panel"] = Parse({w.text})]
        /\ note' = IF Loadable(w.text) THEN banner(w.form) ELSE "error"
        /\ UNCHANGED <<bak, wanted, up, services, loop, cycle, consent, counts>>

\* write_text raises OSError (a full disk): the file stays as far as it got
\* and the settings in memory are not reloaded.
SaveFails ==
    /\ writing # {} /\ deaths < MaxDeaths
    /\ deaths' = deaths + 1
    /\ writing' = {}
    /\ note' = "error"
    /\ UNCHANGED <<file, bak, whole, wanted, procs, saves, edits>>

\* The operator edits a line of the file that is there: what a write has cut
\* short is not made whole by it.
HandEdit(k, v) ==
    /\ edits < MaxEdits /\ writing = {} /\ file # {}
    /\ \E lines \in file :
          /\ k \in Keys(lines) /\ Lookup(lines, k, Blank) # v
          /\ file' = {[i \in DOMAIN lines |-> IF lines[i].key = k THEN Line(k, v) ELSE lines[i]]}
    /\ whole' = IF file = whole THEN file' ELSE whole
    /\ wanted' = file'
    /\ edits' = edits + 1
    /\ note' = "none"
    /\ UNCHANGED <<bak, writing, procs, saves, deaths>>

----------------------------------------------------------------------------
(* Processes, loops and cycles.                                            *)

Starter == {"job", "button"}
NoCycle(p) == [cycle EXCEPT ![<<p, "job">>] = {}, ![<<p, "button">>] = {}]

\* The panel's main loads the settings or dies with them; no clients yet.
StartPanel ==
    /\ "panel" \in Process \ up
    /\ Cardinality(up) < MaxUp
    /\ Parse(file) # {}
    /\ up' = up \cup {"panel"}
    /\ cache' = [cache EXCEPT !["panel"] = Parse(file)]
    /\ UNCHANGED <<disk, services, loop, cycle, consent, counts, note>>

\* The service builds its clients and starts its loop as it comes up.
StartApi ==
    /\ "api" \in Process \ up
    /\ Cardinality(up) < MaxUp
    /\ Parse(file) # {}
    /\ up' = up \cup {"api"}
    /\ cache' = [cache EXCEPT !["api"] = Parse(file)]
    /\ services' = [services EXCEPT !["api"] = Parse(file)]
    /\ loop' = loop \cup {"api"}
    /\ UNCHANGED <<disk, cycle, consent, counts, note>>

\* confirm_live_mode: only an armed, unhalted, real-money mode asks, and only
\* the typed answer goes on.  halted is a switch outside .env: the sentinel file
\* or the row, which others make and clear at any time.
confirm_live_mode(c, halted) ==
    IF c.run_mode # "LIVE" THEN "alert"
    ELSE IF c.kill_switch \/ halted THEN "killed"
    ELSE IF c.simulated THEN "demo" ELSE "typed"

\* one_click: ensure_env, the settings, the confirmation.
StartCli ==
    /\ "cli" \in Process \ up
    /\ Cardinality(up) < MaxUp
    /\ file' = IF file = {} THEN {env_example} ELSE file
    /\ whole' = IF file = {} THEN {env_example} ELSE whole
    /\ \E c \in Parse(file'), halted \in BOOLEAN :
          /\ cache' = [cache EXCEPT !["cli"] = {c}]
          /\ consent' = confirm_live_mode(c, halted)
    /\ up' = up \cup {"cli"}
    /\ UNCHANGED <<bak, wanted, writing, services, loop, cycle, counts, note>>

StartScheduler_unbuilt ==
    /\ "panel" \in up \ loop
    /\ cache' = [cache EXCEPT !["panel"] = get_settings("panel")]
    /\ loop' = loop \cup {"panel"}
    /\ UNCHANGED <<disk, up, services, cycle, consent, counts, note>>

\* runtime.start: the clients are built from the settings in force now.
StartScheduler ==
    /\ "panel" \in up \ loop
    /\ \E c \in get_settings("panel") :
          /\ cache' = [cache EXCEPT !["panel"] = {c}]
          /\ services' = [services EXCEPT !["panel"] = {c}]
    /\ loop' = loop \cup {"panel"}
    /\ UNCHANGED <<disk, up, cycle, consent, counts, note>>

\* runtime.stop: shutdown cancels the job at its next await; the clients stay.
StopScheduler ==
    /\ "panel" \in loop
    /\ loop' = loop \ {"panel"}
    /\ cycle' = [cycle EXCEPT ![<<"panel", "job">>] = {}]
    /\ UNCHANGED <<disk, up, cache, services, consent, counts, note>>

run_cycle_frozen(p, s, clients) ==
    /\ cycle[<<p, s>>] = {}
    /\ \E b \in clients : cycle' = [cycle EXCEPT ![<<p, s>>] = {[settings |-> b, clients |-> b]}]
    /\ UNCHANGED <<disk, up, cache, services, loop, consent, counts, note>>

\* run_cycle reads the settings anew and uses the clients it is given.
run_cycle(p, s, clients) ==
    /\ cycle[<<p, s>>] = {}
    /\ \E c \in get_settings(p), b \in clients :
          /\ cache' = [cache EXCEPT ![p] = {c}]
          /\ cycle' = [cycle EXCEPT ![<<p, s>>] = {[settings |-> c, clients |-> b]}]
    /\ UNCHANGED <<disk, up, services, loop, consent, counts, note>>

\* The scheduler's job: one instance at a time.
StartCycle(p) == p \in loop /\ run_cycle(p, "job", services[p])

\* The panel's button builds clients for the cycle; POST /run-cycle takes the
\* service's; the script builds its own and runs one.
PressRun(p) ==
    /\ p \in up
    /\ Cardinality({q \in Process : cycle[<<q, "button">>] # {}}) < MaxPressed
    /\ run_cycle(p, "button", IF p = "api" THEN services[p] ELSE get_settings(p))

\* The script's process ends with its cycle.
EndCycle(p, s) ==
    /\ cycle[<<p, s>>] # {}
    /\ cycle' = [cycle EXCEPT ![<<p, s>>] = {}]
    /\ up' = up \ (IF p = "cli" THEN {p} ELSE {})
    /\ cache' = [cache EXCEPT !["cli"] = IF p = "cli" THEN {} ELSE @]
    /\ consent' = IF p = "cli" THEN "none" ELSE consent
    /\ UNCHANGED <<disk, services, loop, counts, note>>

\* A process is closed or dies at any moment, in the middle of a write too.
Die(p) ==
    /\ p \in up /\ deaths < MaxDeaths
    /\ deaths' = deaths + 1
    /\ up' = up \ {p}
    /\ loop' = loop \ {p}
    /\ cache' = [cache EXCEPT ![p] = {}]
    /\ services' = [services EXCEPT ![p] = {}]
    /\ cycle' = NoCycle(p)
    /\ consent' = IF p = "cli" THEN "none" ELSE consent
    /\ note' = IF p = "panel" THEN "none" ELSE note
    /\ writing' = IF p = "panel" THEN {} ELSE writing
    /\ UNCHANGED <<file, bak, whole, wanted, saves, edits>>

----------------------------------------------------------------------------
Init == /\ file = {} /\ bak = {} /\ whole = {} /\ wanted = {} /\ writing = {}
        /\ note = "none"
        /\ up = {} /\ loop = {}
        /\ cache = [p \in Process |-> {}]
        /\ services = [p \in Process |-> {}]
        /\ cycle = [x \in Process \X Starter |-> {}]
        /\ consent = "none"
        /\ saves = 0 /\ edits = 0 /\ deaths = 0

Next == \/ \E form \in Form : BeginSave(form)
        \/ EndSave \/ SaveFails
        \/ \E l \in Edit : HandEdit(l.key, l.value)
        \/ StartPanel \/ StartApi \/ StartCli
        \/ StartScheduler \/ StopScheduler
        \/ \E p \in Process : StartCycle(p) \/ PressRun(p) \/ Die(p)
        \/ \E p \in Process, s \in Starter : EndCycle(p, s)

Spec == Init /\ [][Next]_vars

\* The timer fires and a cycle ends: run_cycle bounds its requests in time.
FairSpec == Spec /\ WF_vars(StartCycle("panel"))
                 /\ WF_vars(EndCycle("panel", "job"))
----------------------------------------------------------------------------
(* Properties.                                                             *)

Allows(lines) == LET c == Settings(lines) IN CanSpend(c, c)
Text == {file, bak, whole, wanted}
Confirmed == {"none", "alert", "killed", "demo", "typed"}

(* Types, and the two halves of a save: a write under way belongs to a     *)
(* running panel and has a backup.                                         *)
TypeOK ==
    /\ \A f \in Text : \A lines \in f : \A i \in DOMAIN lines : lines[i] \in LineType
    /\ note \in {"none", "plain", "demo", "real", "error"}
    /\ up \subseteq Process /\ loop \subseteq up
    /\ writing # {} => "panel" \in up /\ bak # {}
    /\ \A p \in Process : /\ \A c, d \in cache[p] : c = d
                          /\ cache[p] # {} => p \in up
                          /\ p \in loop => services[p] # {}
                          /\ \A s \in Starter : cycle[<<p, s>>] # {} => p \in up
    /\ consent \in Confirmed /\ (consent # "none" => "cli" \in up)

(* Whoever loads `.env`, while it is being rewritten or after a write that *)
(* died, gets a permission to spend only if the version it stands for      *)
(* gives it: of a file cut short the switch is read before the keys.       *)
TornReadIsSafe ==
    [][\A p \in Process : \A c \in cache'[p] \ cache[p] :
          CanSpend(c, c) =>
             \E lines \in (IF file = whole THEN whole' ELSE wanted) : Allows(lines)]_vars

\* `.env` or `.env.bak` is the last version that was completely written.
Recoverable == file = whole \/ bak = whole

(* The last complete version survives every write that dies, every edit    *)
(* and every save over it: it is lost only by a save that begins over what *)
(* a dead write has left (docs/WINDOWS.md:133 knows no such exception).    *)
LostOnlyOverTorn ==
    [][Recoverable /\ ~Recoverable' => writing = {} /\ writing' # {} /\ file # whole]_vars

(* Opening the form and saving it untouched changes no setting that is in  *)
(* force, also over a file that a crash cut short or that is not there:    *)
(* masked secrets are kept and missing fields filled with what they meant. *)
ReopenIsHarmless ==
    "panel" \in up /\ writing = {} /\ cache["panel"] = Parse(file) =>
        \A c \in cache["panel"] :
            LET lines == read_env(file)
                form == load_setup_values(lines, c)
                base == IF file = {} THEN env_example ELSE lines
            IN Settings(write_env(base, form, merge_form(lines, form))) = c

(* What the panel says of the mode after a save is so in the file, for a   *)
(* field that the save did not have to change as well.                     *)
NoteIsTrue ==
    /\ note = "real" => \E lines \in whole : LET c == Settings(lines)
                                            IN c.run_mode = "LIVE" /\ ~c.simulated
    /\ note = "demo" => \E lines \in whole : LET c == Settings(lines)
                                            IN c.run_mode = "LIVE" /\ c.simulated

(* A finished save leaves alone what the form did not state, as it stood   *)
(* in the file it began from: the switch, and every secret left blank or   *)
(* masked.                                                                 *)
RestIsKept ==
    [][\A w \in writing : whole' = {w.text} =>
          \A k \in {"KILL_SWITCH"} \cup {f \in SECRET_KEYS : w.form[f] \in {Blank, Stored}} :
             Lookup(w.text, k, Blank) = Lookup(read_env(bak), k, Blank)]_vars

(* The one-click script spends real money only when the operator typed     *)
(* LIVE, or had a kill switch engaged when it would have asked.  Whatever  *)
(* the panel saves meanwhile, the cycle runs on the settings confirmed.    *)
ConfirmedOrHalted ==
    "cli" \in Process =>
        \A x \in cycle[<<"cli", "button">>] :
            CanSpend(x.settings, x.clients) => consent \in {"typed", "killed"}

(* A saved setting reaches the running loop: a cycle of it works with the  *)
(* settings in force, unless the operator stops it or the file is broken.  *)
SettingsReachCycles ==
    "panel" \in loop ~> \/ "panel" \notin loop \/ cache["panel"] = {}
                       \/ \E x \in cycle[<<"panel", "job">>] : cache["panel"] = {x.settings}

(* The panel says of a save "Mode LIVE pada OKX demo - tidak ada uang      *)
(* sungguhan" (no real money): no cycle it starts while it says so can     *)
(* spend real money.  The loop's clients are older than the save.          *)
DemoIsDemo ==
    [][\A s \in Starter : \A x \in cycle'[<<"panel", s>>] \ cycle[<<"panel", s>>] :
          note = "demo" => ~CanSpend(x.settings, x.clients)]_vars
=============================================================================
