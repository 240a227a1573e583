----------------------------- MODULE PanelProofs -----------------------------
(***************************************************************************)
(* Safety of the operator's side for any forms, hand edits, deaths and any *)
(* number of saves: the backup, the confirmation of the one-click script,  *)
(* what a save leaves alone and what the panel says of it.                 *)
(***************************************************************************)
EXTENDS Panel, SequenceTheorems, TLAPS

(***************************************************************************)
(* The backup.                                                             *)
(***************************************************************************)
\* The file has one text, if any.
OneText == \A s, u \in file : s = u

LEMMA OneTextStep == ASSUME OneText, [Next]_vars PROVE OneText'
  <1> USE DEF OneText
  <1>1. ASSUME NEW form \in Form, BeginSave(form) PROVE OneText'
    BY <1>1 DEF BeginSave, disk
  <1>2. CASE EndSave \/ SaveFails
    BY <1>2 DEF EndSave, SaveFails
  <1>3. ASSUME NEW l \in Edit, HandEdit(l.key, l.value) PROVE OneText'
    BY <1>3 DEF HandEdit
  <1>4. CASE StartCli
    BY <1>4 DEF StartCli
  <1>5. ASSUME UNCHANGED file PROVE OneText'
    BY <1>5
  <1>6. CASE StartPanel \/ StartApi \/ StartScheduler \/ StopScheduler
    BY <1>5, <1>6 DEF StartPanel, StartApi, StartScheduler, StopScheduler, disk
  <1>7. ASSUME NEW p \in Process,
               StartCycle(p) \/ PressRun(p) \/ Die(p) \/ \E s \in Starter : EndCycle(p, s)
        PROVE  OneText'
    BY <1>5, <1>7 DEF StartCycle, PressRun, Die, EndCycle, run_cycle, disk
  <1>8. CASE UNCHANGED vars
    BY <1>5, <1>8 DEF vars, disk
  <1> QED BY <1>1, <1>2, <1>3, <1>4, <1>6, <1>7, <1>8 DEF Next

\* A save of a file that is whole, or not there, has the whole version in its
\* backup before it opens the file.
LEMMA SaveBacksUp ==
    ASSUME OneText, file = whole, NEW form \in Form, BeginSave(form)
    PROVE  Recoverable'
  <1> DEFINE base == IF file = {} THEN env_example ELSE read_env(file)
             updates == merge_form(read_env(file), form)
  <1>1. CASE updates = {}
    BY <1>1 DEF BeginSave, disk, Recoverable
  <1>2. CASE updates # {}
    <2>1. bak' = {base} /\ whole' = IF file = {} THEN {base} ELSE whole
      BY <1>2 DEF BeginSave, backup
    <2>2. file # {} => file = {base}
      BY DEF OneText, read_env
    <2> QED BY <2>1, <2>2 DEF Recoverable
  <1> QED BY <1>1, <1>2

OverTorn == writing = {} /\ writing' # {} /\ file # whole
Lost == Recoverable /\ ~Recoverable'

LEMMA LossStep == ASSUME OneText, [Next]_vars, Lost PROVE OverTorn
  <1> USE DEF Lost
  <1>1. ASSUME NEW form \in Form, BeginSave(form) PROVE OverTorn
    <2>1. file # whole
      BY <1>1, SaveBacksUp
    <2>2. merge_form(read_env(file), form) # {}
      BY <1>1 DEF BeginSave, disk, Recoverable
    <2>3. writing = {} /\ writing' # {}
      BY <1>1, <2>2 DEF BeginSave
    <2> QED BY <2>1, <2>3 DEF OverTorn
  <1>2. CASE EndSave
    BY <1>2 DEF EndSave, Recoverable
  <1>3. CASE SaveFails
    BY <1>3 DEF SaveFails, Recoverable
  <1>4. ASSUME NEW l \in Edit, HandEdit(l.key, l.value) PROVE OverTorn
    BY <1>4 DEF HandEdit, Recoverable
  <1>5. CASE StartCli
    BY <1>5 DEF StartCli, Recoverable
  <1>6. ASSUME NEW p \in Process, Die(p) PROVE OverTorn
    BY <1>6 DEF Die, Recoverable
  <1>7. ASSUME UNCHANGED disk PROVE OverTorn
    BY <1>7 DEF disk, Recoverable
  <1>8. CASE StartPanel \/ StartApi \/ StartScheduler \/ StopScheduler
    BY <1>7, <1>8 DEF StartPanel, StartApi, StartScheduler, StopScheduler
  <1>9. ASSUME NEW p \in Process, StartCycle(p) \/ PressRun(p) \/ \E s \in Starter : EndCycle(p, s)
        PROVE  OverTorn
    BY <1>7, <1>9 DEF StartCycle, PressRun, EndCycle, run_cycle
  <1>10. CASE UNCHANGED vars
    BY <1>7, <1>10 DEF vars
  <1> QED BY <1>1, <1>2, <1>3, <1>4, <1>5, <1>6, <1>8, <1>9, <1>10 DEF Next

(* For any forms, edits, deaths and any number of saves: while `.env` or   *)
(* `.env.bak` is the last version that was completely written, only a save *)
(* that begins over what a dead write has left takes both away.  The code  *)
(* has no guard against that one (envfile.py:61, docs/WINDOWS.md:133).     *)
THEOREM LossNeedsTornFile == Spec => LostOnlyOverTorn
  <1>1. Init => OneText
    BY DEF Init, OneText
  <1>2. OneText /\ [Next]_vars => [Lost => OverTorn]_vars
    BY LossStep
  <1>3. [Lost => OverTorn]_vars
          => [Recoverable /\ ~Recoverable' => writing = {} /\ writing' # {} /\ file # whole]_vars
    BY DEF Lost, OverTorn
  <1>4. OneText /\ [Next]_vars
          => [Recoverable /\ ~Recoverable' => writing = {} /\ writing' # {} /\ file # whole]_vars
    BY <1>2, <1>3
  <1> QED BY <1>1, <1>4, OneTextStep, PTL DEF Spec, LostOnlyOverTorn

(***************************************************************************)
(* The one-click script.                                                   *)
(***************************************************************************)
\* The script has no scheduler; while it runs it holds one set of settings,
\* the one it confirmed, and its cycle works with no other.
Confirmation ==
    /\ DOMAIN cache = Process /\ DOMAIN cycle = Process \X Starter
    /\ "cli" \notin loop
    /\ "cli" \in up => \E c : /\ cache["cli"] = {c}
                              /\ CanSpend(c, c) => consent \in {"typed", "killed"}
    /\ "cli" \in Process => \A x \in cycle[<<"cli", "button">>] :
           "cli" \in up /\ x.settings \in cache["cli"] /\ x.clients \in cache["cli"]
    /\ "cli" \in Process => cycle[<<"cli", "job">>] = {}
    /\ up \subseteq Process

LEMMA Asks == \A c, halted : CanSpend(c, c) => confirm_live_mode(c, halted) \in {"typed", "killed"}
  BY DEF CanSpend, confirm_live_mode

LEMMA ConfirmationStep == ASSUME Confirmation, [Next]_vars PROVE Confirmation'
  <1> USE DEF Confirmation
  <1>1. ASSUME NEW form \in Form, BeginSave(form) PROVE Confirmation'
    BY <1>1 DEF BeginSave, procs
  <1>2. CASE EndSave
    BY <1>2 DEF EndSave
  <1>3. CASE SaveFails
    BY <1>3 DEF SaveFails, procs
  <1>4. ASSUME NEW l \in Edit, HandEdit(l.key, l.value) PROVE Confirmation'
    BY <1>4 DEF HandEdit, procs
  <1>5. CASE StartCli
    <2>1. PICK c \in Parse(file'), halted \in BOOLEAN : /\ cache' = [cache EXCEPT !["cli"] = {c}]
                                    /\ consent' = confirm_live_mode(c, halted)
      BY <1>5 DEF StartCli
    <2>2. up' = up \cup {"cli"} /\ "cli" \in Process \ up /\ UNCHANGED <<loop, cycle>>
      BY <1>5 DEF StartCli
    <2>3. cache'["cli"] = {c}
      BY <2>1, <2>2
    <2>4. cycle'[<<"cli", "button">>] = {} /\ cycle'[<<"cli", "job">>] = {}
      BY <2>2
    <2> QED BY <2>1, <2>2, <2>3, <2>4, Asks
  <1>6. CASE StartPanel
    BY <1>6 DEF StartPanel
  <1>7. CASE StartApi
    BY <1>7 DEF StartApi
  <1>8. CASE StartScheduler
    BY <1>8 DEF StartScheduler
  <1>9. CASE StopScheduler
    <2>1. "cli" \in Process => /\ cycle'[<<"cli", "button">>] = cycle[<<"cli", "button">>]
                               /\ cycle'[<<"cli", "job">>] = cycle[<<"cli", "job">>]
      BY <1>9 DEF StopScheduler, Starter
    <2> QED BY <1>9, <2>1 DEF StopScheduler
  <1>10. ASSUME NEW p \in Process, NEW s \in Starter, NEW clients, run_cycle(p, s, clients),
                p = "cli" => "cli" \in up /\ s = "button" /\ clients = cache["cli"]
         PROVE  Confirmation'
    <2>1. PICK c \in get_settings(p), b \in clients :
             /\ cache' = [cache EXCEPT ![p] = {c}]
             /\ cycle' = [cycle EXCEPT ![<<p, s>>] = {[settings |-> c, clients |-> b]}]
      BY <1>10 DEF run_cycle
    <2>2. UNCHANGED <<up, loop, consent>>
      BY <1>10 DEF run_cycle
    <2>3. CASE p # "cli"
      <3>1. "cli" \in Process => /\ cycle'[<<"cli", "button">>] = cycle[<<"cli", "button">>]
                                 /\ cycle'[<<"cli", "job">>] = cycle[<<"cli", "job">>]
                                 /\ cache'["cli"] = cache["cli"]
        BY <2>1, <2>3 DEF Starter
      <3> QED BY <2>1, <2>2, <3>1
    <2>4. CASE p = "cli"
      <3>1. PICK d : cache["cli"] = {d} /\ (CanSpend(d, d) => consent \in {"typed", "killed"})
        BY <1>10, <2>4
      <3>2. c = d /\ b = d
        BY <1>10, <2>1, <2>4, <3>1 DEF get_settings
      <3>3. /\ cache'["cli"] = {d} /\ cycle'[<<"cli", "button">>] = {[settings |-> d, clients |-> d]}
            /\ cycle'[<<"cli", "job">>] = {}
        BY <1>10, <2>1, <2>4, <3>2 DEF Starter
      <3> QED BY <1>10, <2>1, <2>2, <2>4, <3>1, <3>3
    <2> QED BY <2>3, <2>4
  <1>11. ASSUME NEW p \in Process, StartCycle(p) PROVE Confirmation'
    BY <1>10, <1>11 DEF StartCycle, Starter
  <1>12. ASSUME NEW p \in Process, PressRun(p) PROVE Confirmation'
    <2>1. CASE p = "cli"
      <3>1. get_settings(p) = cache["cli"]
        BY <1>12, <2>1 DEF PressRun, get_settings
      <3> QED BY <1>10, <1>12, <2>1, <3>1 DEF PressRun, Starter
    <2>2. CASE p # "cli"
      BY <1>10, <1>12, <2>2 DEF PressRun, Starter
    <2> QED BY <2>1, <2>2
  <1>13. ASSUME NEW p \in Process, NEW s \in Starter, EndCycle(p, s) PROVE Confirmation'
    <2>1. CASE p = "cli"
      <3>1. "cli" \notin up' /\ "cli" \notin loop' /\ up' \subseteq Process
        BY <1>13, <2>1 DEF EndCycle
      <3>2. cycle'[<<"cli", "button">>] = {} /\ cycle'[<<"cli", "job">>] = {}
        BY <1>13, <2>1 DEF EndCycle, Starter
      <3> QED BY <1>13, <2>1, <3>1, <3>2 DEF EndCycle
    <2>2. CASE p # "cli"
      <3>1. "cli" \in Process => /\ cycle'[<<"cli", "button">>] = cycle[<<"cli", "button">>]
                                 /\ cycle'[<<"cli", "job">>] = cycle[<<"cli", "job">>]
                                 /\ cache'["cli"] = cache["cli"]
        BY <1>13, <2>2 DEF EndCycle, Starter
      <3> QED BY <1>13, <2>2, <3>1 DEF EndCycle
    <2> QED BY <2>1, <2>2
  <1>14. ASSUME NEW p \in Process, Die(p) PROVE Confirmation'
    <2>1. CASE p = "cli"
      BY <1>14, <2>1 DEF Die, NoCycle, Starter
    <2>2. CASE p # "cli"
      <3>1. "cli" \in Process => /\ cycle'[<<"cli", "button">>] = cycle[<<"cli", "button">>]
                                 /\ cycle'[<<"cli", "job">>] = cycle[<<"cli", "job">>]
                                 /\ cache'["cli"] = cache["cli"]
        BY <1>14, <2>2 DEF Die, NoCycle, Starter
      <3> QED BY <1>14, <2>2, <3>1 DEF Die, NoCycle
    <2> QED BY <2>1, <2>2
  <1>15. CASE UNCHANGED vars
    BY <1>15 DEF vars, procs
  <1> QED BY <1>1, <1>2, <1>3, <1>4, <1>5, <1>6, <1>7, <1>8, <1>9, <1>11, <1>12,
             <1>13, <1>14, <1>15 DEF Next

(* For any process, any save and any hand edit beside it: the script's     *)
(* cycle spends real money only after LIVE was typed or while the switch   *)
(* had stood in for the question.                                          *)
THEOREM SpendingIsConfirmed == Spec => []ConfirmedOrHalted
  <1>1. Init => Confirmation
    BY DEF Init, Confirmation, Starter
  <1>2. Confirmation => ConfirmedOrHalted
    <2> SUFFICES ASSUME Confirmation, "cli" \in Process,
                        NEW x \in cycle[<<"cli", "button">>], CanSpend(x.settings, x.clients)
                 PROVE  consent \in {"typed", "killed"}
      BY DEF ConfirmedOrHalted
    <2>1. x.settings = x.clients /\ (CanSpend(x.settings, x.settings) => consent \in {"typed", "killed"})
      BY DEF Confirmation
    <2> QED BY <2>1
  <1> QED BY <1>1, <1>2, ConfirmationStep, PTL DEF Spec

(***************************************************************************)
(* The text of a save.                                                     *)
(***************************************************************************)
Lines == Seq(LineType)

LEMMA ConcatSet ==
    ASSUME NEW s \in Lines, NEW t \in Lines
    PROVE  s \o t \in Lines /\ ToSet(s \o t) = ToSet(s) \cup ToSet(t)
  <1>1. s \o t \in Lines
    BY ConcatProperties DEF Lines
  <1>2. DOMAIN s = 1..Len(s) /\ DOMAIN t = 1..Len(t) /\ DOMAIN (s \o t) = 1..(Len(s) + Len(t))
    BY DEF Lines
  <1>3. ToSet(s \o t) \subseteq ToSet(s) \cup ToSet(t)
    <2> SUFFICES ASSUME NEW i \in 1..(Len(s) + Len(t))
                 PROVE  (s \o t)[i] \in ToSet(s) \cup ToSet(t)
      BY <1>2 DEF ToSet
    <2>1. CASE i <= Len(s)
      BY <1>2, <2>1, ConcatProperties DEF Lines, ToSet
    <2>2. CASE i > Len(s)
      <3>1. i - Len(s) \in DOMAIN t /\ (s \o t)[i] = t[i - Len(s)]
        BY <1>2, <2>2, ConcatProperties DEF Lines
      <3> QED BY <3>1 DEF ToSet
    <2> QED BY <2>1, <2>2, <1>2 DEF Lines
  <1>4. ToSet(s) \subseteq ToSet(s \o t)
    <2> SUFFICES ASSUME NEW i \in 1..Len(s) PROVE s[i] \in ToSet(s \o t)
      BY <1>2 DEF ToSet
    <2>1. i \in 1..(Len(s) + Len(t)) /\ (s \o t)[i] = s[i]
      BY ConcatProperties DEF Lines
    <2> QED BY <1>2, <2>1 DEF ToSet
  <1>5. ToSet(t) \subseteq ToSet(s \o t)
    <2> SUFFICES ASSUME NEW i \in 1..Len(t) PROVE t[i] \in ToSet(s \o t)
      BY <1>2 DEF ToSet
    <2>1. i + Len(s) \in 1..(Len(s) + Len(t)) /\ (s \o t)[i + Len(s)] = t[i]
      BY ConcatProperties DEF Lines
    <2> QED BY <1>2, <2>1 DEF ToSet
  <1> QED BY <1>1, <1>3, <1>4, <1>5

LEMMA AppendedSet ==
    ASSUME NEW k \in Field, NEW form \in [Field -> Value], NEW new
    PROVE  /\ appended(k, form, new) \in Lines
           /\ ToSet(appended(k, form, new)) = IF k \in new THEN {Line(k, form[k])} ELSE {}
  <1>1. Line(k, form[k]) \in LineType
    BY DEF Line, LineType
  <1>2. CASE k \in new
    <2>1. appended(k, form, new) = <<Line(k, form[k])>>
      BY <1>2 DEF appended
    <2>2. \A x \in LineType : <<x>> \in Seq(LineType) /\ DOMAIN <<x>> = {1} /\ <<x>>[1] = x
      OBVIOUS
    <2> QED BY <1>1, <1>2, <2>1, <2>2 DEF Lines, ToSet
  <1>3. CASE k \notin new
    <2>1. appended(k, form, new) = <<>>
      BY <1>3 DEF appended
    <2>2. <<>> \in Lines /\ DOMAIN <<>> = {}
      BY DEF Lines
    <2> QED BY <1>3, <2>1, <2>2 DEF ToSet
  <1> QED BY <1>2, <1>3

LEMMA RewrittenSet ==
    ASSUME NEW lines \in Lines, NEW form \in [Field -> Value], NEW updates \in SUBSET Field
    PROVE  /\ rewritten(lines, form, updates) \in Lines
           /\ ToSet(rewritten(lines, form, updates)) =
                 {IF l.key \in updates THEN Line(l.key, form[l.key]) ELSE l : l \in ToSet(lines)}
  <1>1. \A i \in 1..Len(lines) : lines[i] \in LineType
    BY DEF Lines
  <1>2. \A l \in LineType : l.key \in updates => Line(l.key, form[l.key]) \in LineType
    BY DEF Line, LineType
  <1>3. rewritten(lines, form, updates) \in [1..Len(lines) -> LineType]
    BY <1>1, <1>2 DEF rewritten, Lines
  <1>4. rewritten(lines, form, updates) \in Lines
    BY <1>3, IsASeq DEF Lines
  <1> QED BY <1>4 DEF rewritten, ToSet

\* A save rewrites the values of the fields it updates and adds those that
\* are missing.
LEMMA WriteSet ==
    ASSUME NEW lines \in Lines, NEW form \in [Field -> Value], NEW updates \in SUBSET Field
    PROVE  /\ write_env(lines, form, updates) \in Lines
           /\ ToSet(write_env(lines, form, updates)) =
                 {IF l.key \in updates THEN Line(l.key, form[l.key]) ELSE l : l \in ToSet(lines)}
                   \cup {Line(k, form[k]) : k \in updates \ Keys(lines)}
  <1> DEFINE new == updates \ Keys(lines)
             t0 == rewritten(lines, form, updates)
             a1 == appended("OKX_TRADE_API_KEY", form, new)
             a2 == appended("OKX_SIMULATED", form, new)
             a3 == appended("RUN_MODE", form, new)
             a4 == appended("POSITION_USD", form, new)
  <1>0. {"OKX_TRADE_API_KEY", "OKX_SIMULATED", "RUN_MODE", "POSITION_USD"} = Field
    BY DEF Field
  <1>1. t0 \in Lines /\ a1 \in Lines /\ a2 \in Lines /\ a3 \in Lines /\ a4 \in Lines
    BY <1>0, RewrittenSet, AppendedSet
  <1> HIDE DEF t0, a1, a2, a3, a4
  <1>2. t0 \o a1 \in Lines /\ ToSet(t0 \o a1) = ToSet(t0) \cup ToSet(a1)
    BY <1>1, ConcatSet
  <1>3. t0 \o a1 \o a2 \in Lines /\ ToSet(t0 \o a1 \o a2) = ToSet(t0) \cup ToSet(a1) \cup ToSet(a2)
    BY <1>1, <1>2, ConcatSet
  <1>4. /\ t0 \o a1 \o a2 \o a3 \in Lines
        /\ ToSet(t0 \o a1 \o a2 \o a3) = ToSet(t0) \cup ToSet(a1) \cup ToSet(a2) \cup ToSet(a3)
    BY <1>1, <1>3, ConcatSet
  <1>5. /\ t0 \o a1 \o a2 \o a3 \o a4 \in Lines
        /\ ToSet(t0 \o a1 \o a2 \o a3 \o a4) =
             ToSet(t0) \cup ToSet(a1) \cup ToSet(a2) \cup ToSet(a3) \cup ToSet(a4)
    BY <1>1, <1>4, ConcatSet
  <1>6. write_env(lines, form, updates) = t0 \o a1 \o a2 \o a3 \o a4
    BY DEF write_env, t0, a1, a2, a3, a4
  <1>7. ToSet(a1) \cup ToSet(a2) \cup ToSet(a3) \cup ToSet(a4) = {Line(k, form[k]) : k \in new}
    <2>1. \A k \in Field : ToSet(appended(k, form, new)) = IF k \in new THEN {Line(k, form[k])} ELSE {}
      BY AppendedSet
    <2>2. new \subseteq {"OKX_TRADE_API_KEY", "OKX_SIMULATED", "RUN_MODE", "POSITION_USD"}
      BY <1>0
    <2>3. /\ ToSet(a1) = IF "OKX_TRADE_API_KEY" \in new
                         THEN {Line("OKX_TRADE_API_KEY", form["OKX_TRADE_API_KEY"])} ELSE {}
          /\ ToSet(a2) = IF "OKX_SIMULATED" \in new
                         THEN {Line("OKX_SIMULATED", form["OKX_SIMULATED"])} ELSE {}
          /\ ToSet(a3) = IF "RUN_MODE" \in new THEN {Line("RUN_MODE", form["RUN_MODE"])} ELSE {}
          /\ ToSet(a4) = IF "POSITION_USD" \in new
                         THEN {Line("POSITION_USD", form["POSITION_USD"])} ELSE {}
      BY <1>0, <2>1 DEF a1, a2, a3, a4
    <2> HIDE DEF new
    <2> QED BY <2>2, <2>3
  <1>8. ToSet(t0) = {IF l.key \in updates THEN Line(l.key, form[l.key]) ELSE l : l \in ToSet(lines)}
    BY RewrittenSet DEF t0
  <1> QED BY <1>5, <1>6, <1>7, <1>8

LEMMA WriteValues ==
    ASSUME NEW lines \in Lines, NEW form \in [Field -> Value], NEW updates \in SUBSET Field, NEW k
    PROVE  Values(write_env(lines, form, updates), k) =
              IF k \in updates THEN {form[k]} ELSE Values(lines, k)
  <1> DEFINE text == write_env(lines, form, updates)
             Fresh(l) == IF l.key \in updates THEN Line(l.key, form[l.key]) ELSE l
  <1>1. ToSet(text) = {Fresh(l) : l \in ToSet(lines)} \cup {Line(n, form[n]) : n \in updates \ Keys(lines)}
    BY WriteSet
  <1>2. \A n \in Field : Line(n, form[n]).key = n /\ Line(n, form[n]).value = form[n]
    BY DEF Line
  <1>3. \A l \in ToSet(lines) : l \in LineType
    BY DEF ToSet, Lines
  <1>4. \A l \in ToSet(lines) : Fresh(l).key = l.key
    BY <1>2, <1>3
  <1>5. CASE k \in updates
    <2>1. \A l \in ToSet(text) : l.key = k => l.value = form[k]
      BY <1>1, <1>2, <1>4, <1>5
    <2>2. \E l \in ToSet(text) : l.key = k
      <3>1. CASE k \in Keys(lines)
        <4>1. PICK l \in ToSet(lines) : l.key = k
          BY <3>1 DEF Keys, ToSet
        <4>2. Fresh(l) \in ToSet(text)
          BY <1>1, <4>1
        <4> QED BY <1>4, <4>1, <4>2
      <3>2. CASE k \notin Keys(lines)
        BY <1>1, <1>2, <1>5, <3>2
      <3> QED BY <3>1, <3>2
    <2> QED BY <1>5, <2>1, <2>2 DEF Values
  <1>6. CASE k \notin updates
    <2>1. \A l : l \in ToSet(text) /\ l.key = k <=> l \in ToSet(lines) /\ l.key = k
      BY <1>1, <1>2, <1>4, <1>6
    <2>2. {m \in ToSet(text) : m.key = k} = {m \in ToSet(lines) : m.key = k}
      BY <2>1
    <2> QED BY <1>6, <2>2 DEF Values
  <1> QED BY <1>5, <1>6

LEMMA WrittenLookup ==
    ASSUME NEW lines \in Lines, NEW form \in [Field -> Value], NEW updates \in SUBSET Field,
           NEW k, NEW d
    PROVE  Lookup(write_env(lines, form, updates), k, d) =
              IF k \in updates THEN form[k] ELSE Lookup(lines, k, d)
  <1> DEFINE text == write_env(lines, form, updates)
  <1>1. Values(text, k) = IF k \in updates THEN {form[k]} ELSE Values(lines, k)
    BY WriteValues
  <1>2. CASE k \in updates
    <2>1. Values(text, k) = {form[k]}
      BY <1>1, <1>2
    <2>2. \A x : (CHOOSE v \in {x} : TRUE) = x
      OBVIOUS
    <2> QED BY <1>2, <2>1, <2>2 DEF Lookup
  <1>3. CASE k \notin updates
    <2>1. Values(text, k) = Values(lines, k)
      BY <1>1, <1>3
    <2> QED BY <1>3, <2>1 DEF Lookup
  <1> QED BY <1>2, <1>3

(***************************************************************************)
(* Saves, and what is said of them.                                        *)
(***************************************************************************)
\* The text that a write will leave holds what the form states and what the
\* version it started from says of the rest.
Faithful(w, old) ==
    /\ w.text \in Lines
    /\ w.form \in Form
    /\ \A k \in Field \ SECRET_KEYS : \A d :
          w.form[k] # Blank => Lookup(w.text, k, d) = w.form[k]
    /\ \A k \in {"KILL_SWITCH"} \cup {f \in SECRET_KEYS : w.form[f] \in {Blank, Stored}} :
          Lookup(w.text, k, Blank) = Lookup(read_env(old), k, Blank)

Noted ==
    /\ file \subseteq Lines /\ bak \subseteq Lines /\ whole \subseteq Lines /\ wanted \subseteq Lines
    /\ \A w \in writing : Faithful(w, bak)
    /\ note \in {"none", "plain", "demo", "real", "error"}
    /\ writing # {} => note = "none" /\ bak # {} /\ file # {} /\ "panel" \in up
    /\ note # "none" => file # {}
    /\ NoteIsTrue

LEMMA ExampleTyped == env_example \in Lines
  <1>1. \A k \in Field \cup {"KILL_SWITCH"}, v \in Value : Line(k, v) \in LineType
    BY DEF Line, LineType
  <1>2. /\ Line("RUN_MODE", "ALERT_ONLY") \in LineType /\ Line("KILL_SWITCH", "false") \in LineType
        /\ Line("OKX_TRADE_API_KEY", Blank) \in LineType /\ Line("OKX_SIMULATED", "true") \in LineType
        /\ Line("POSITION_USD", "25") \in LineType
    BY <1>1 DEF Field, Value
  <1>3. \A a, b, c, d, e \in LineType : <<a, b, c, d, e>> \in Seq(LineType)
    OBVIOUS
  <1> QED BY <1>2, <1>3 DEF env_example, Lines

LEMMA TornTyped == ASSUME NEW lines \in Lines PROVE Torn(lines) \subseteq Lines
  <1>1. \A n \in 0..(Len(lines) - 1) : SubSeq(lines, 1, n) \in Lines
    BY SubSeqProperties, LenProperties DEF Lines
  <1>2. \A n \in 0..(Len(lines) - 1) : Line(lines[n + 1].key, Blank) \in LineType
    <2> SUFFICES ASSUME NEW n \in 0..(Len(lines) - 1)
                 PROVE  Line(lines[n + 1].key, Blank) \in LineType
      OBVIOUS
    <2>1. n + 1 \in 1..Len(lines) /\ lines[n + 1] \in LineType
      BY DEF Lines
    <2> QED BY <2>1 DEF Line, LineType, Value
  <1>3. \A s \in Lines, l \in LineType : Append(s, l) \in Lines
    BY DEF Lines
  <1> QED BY <1>1, <1>2, <1>3 DEF Torn

LEMMA SaveIsFaithful ==
    ASSUME Noted, NEW form \in Form,
           NEW base, base = (IF file = {} THEN env_example ELSE read_env(file))
    PROVE  LET text == write_env(base, form, merge_form(read_env(file), form))
           IN Faithful([text |-> text, form |-> form], {base})
  <1> DEFINE updates == merge_form(read_env(file), form)
             text == write_env(base, form, updates)
  <1>1. updates \in SUBSET Field
    BY DEF merge_form
  <1>2. base \in Lines /\ form \in [Field -> Value]
    BY ExampleTyped, PanelAssumption DEF Noted, read_env
  <1>3. text \in Lines
    BY <1>1, <1>2, WriteSet
  <1>4. \A k, d : Lookup(text, k, d) = IF k \in updates THEN form[k] ELSE Lookup(base, k, d)
    BY <1>1, <1>2, WrittenLookup
  <1>5. ASSUME NEW k \in Field \ SECRET_KEYS, NEW d, form[k] # Blank
        PROVE  Lookup(text, k, d) = form[k]
    <2>1. CASE k \in updates
      BY <1>4, <2>1
    <2>2. CASE k \notin updates
      <3>1. Lookup(read_env(file), k, Blank) = form[k]
        BY <1>5, <2>2 DEF merge_form, Refused
      <3>2. Lookup(<<>>, k, Blank) = Blank
        BY DEF Lookup, Values, ToSet
      <3>3. base = read_env(file)
        BY <1>5, <3>1, <3>2 DEF read_env
      <3>4. Lookup(base, k, d) = form[k]
        BY <1>5, <3>1, <3>3 DEF Lookup
      <3> QED BY <1>4, <2>2, <3>4
    <2> QED BY <2>1, <2>2
  <1>6. read_env({base}) = base
    BY DEF read_env
  <1>7. ASSUME NEW k \in {"KILL_SWITCH"} \cup {f \in SECRET_KEYS : form[f] \in {Blank, Stored}}
        PROVE  Lookup(text, k, Blank) = Lookup(base, k, Blank)
    <2>1. k \notin updates
      BY <1>7 DEF merge_form, Refused, Field
    <2> QED BY <1>4, <2>1
  <1> HIDE DEF text
  <1>8. Faithful([text |-> text, form |-> form], {base})
    BY <1>3, <1>5, <1>6, <1>7 DEF Faithful
  <1> QED BY <1>8 DEF text

LEMMA NotedStep == ASSUME Noted, [Next]_vars PROVE Noted'
  <1>1. ASSUME NEW form \in Form, BeginSave(form) PROVE Noted'
    <2> DEFINE base == IF file = {} THEN env_example ELSE read_env(file)
               updates == merge_form(read_env(file), form)
               text == write_env(base, form, updates)
    <2>1. CASE updates = {}
      <3>1. UNCHANGED disk /\ note' = "none" /\ up' = up /\ writing = {}
        BY <1>1, <2>1 DEF BeginSave, procs
      <3> QED BY <3>1 DEF Noted, disk, NoteIsTrue
    <2>2. CASE updates # {}
      <3>1. /\ bak' = {base} /\ whole' \subseteq {base} \cup whole /\ wanted' = {text}
            /\ writing' = {[text |-> text, form |-> form]}
            /\ \E seen \in Torn(text) : file' = {seen}
            /\ note' = "none" /\ up' = up /\ "panel" \in up
        BY <1>1, <2>2 DEF BeginSave, backup, procs
      <3>2. base \in Lines
        BY ExampleTyped DEF Noted, read_env
      <3>3. Faithful([text |-> text, form |-> form], {base})
        BY SaveIsFaithful
      <3>4. text \in Lines
        <4>1. updates \in SUBSET Field
          BY DEF merge_form
        <4> QED BY <3>2, <4>1, WriteSet, PanelAssumption
      <3> HIDE DEF base, text
      <3>5. file' \subseteq Lines /\ file' # {}
        BY <3>1, <3>4, TornTyped
      <3>6. \A w \in writing' : Faithful(w, bak')
        BY <3>1, <3>3
      <3> QED BY <3>1, <3>2, <3>4, <3>5, <3>6 DEF Noted, NoteIsTrue
    <2> QED BY <2>1, <2>2
  <1>2. CASE EndSave
    <2>1. PICK w \in writing : /\ file' = {w.text} /\ whole' = {w.text} /\ writing' = {}
                               /\ note' = IF Loadable(w.text) THEN banner(w.form) ELSE "error"
                               /\ UNCHANGED <<bak, wanted, up>>
      BY <1>2 DEF EndSave
    <2>2. Faithful(w, bak)
      BY DEF Noted
    <2>3. NoteIsTrue'
      <3>1. ASSUME w.form["RUN_MODE"] = "LIVE" PROVE Settings(w.text).run_mode = "LIVE"
        BY <2>2, <3>1 DEF Faithful, Field, SECRET_KEYS, Blank, Settings
      <3>2. Settings(w.text).simulated = (w.form["OKX_SIMULATED"] = "true")
        BY <2>2, PanelAssumption DEF Faithful, Field, SECRET_KEYS, Blank, Settings
      <3>3. w.form["OKX_SIMULATED"] \in {"true", "false"}
        BY <2>2, PanelAssumption DEF Faithful
      <3> QED BY <2>1, <3>1, <3>2, <3>3 DEF NoteIsTrue, banner
    <2> QED BY <2>1, <2>2, <2>3 DEF Noted, Faithful, banner
  <1>3. CASE SaveFails
    BY <1>3 DEF SaveFails, procs, Noted, NoteIsTrue
  <1>4. ASSUME NEW l \in Edit, HandEdit(l.key, l.value) PROVE Noted'
    <2>1. PICK lines \in file :
             file' = {[i \in DOMAIN lines |-> IF lines[i].key = l.key THEN Line(l.key, l.value) ELSE lines[i]]}
      BY <1>4 DEF HandEdit
    <2>2. lines \in Lines /\ l \in LineType
      BY PanelAssumption DEF Noted
    <2> DEFINE new == [i \in DOMAIN lines |-> IF lines[i].key = l.key THEN Line(l.key, l.value) ELSE lines[i]]
    <2>3. new \in [1..Len(lines) -> LineType]
      <3>1. Line(l.key, l.value) \in LineType
        BY <2>2 DEF Line, LineType
      <3>2. DOMAIN lines = 1..Len(lines) /\ \A i \in 1..Len(lines) : lines[i] \in LineType
        BY <2>2 DEF Lines
      <3> QED BY <3>1, <3>2
    <2>4. new \in Lines
      BY <2>2, <2>3, IsASeq DEF Lines
    <2> QED BY <1>4, <2>1, <2>4 DEF HandEdit, procs, Noted, NoteIsTrue
  <1>5. CASE StartCli
    <2>1. CASE file = {}
      BY <1>5, <2>1, ExampleTyped DEF StartCli, Noted, NoteIsTrue
    <2>2. CASE file # {}
      BY <1>5, <2>2 DEF StartCli, Noted, NoteIsTrue, Faithful
    <2> QED BY <2>1, <2>2
  <1>6. ASSUME NEW p \in Process, Die(p) PROVE Noted'
    BY <1>6 DEF Die, Noted, NoteIsTrue, Faithful
  <1>7. ASSUME UNCHANGED <<disk, note>>, up \ {"cli"} \subseteq up' PROVE Noted'
    BY <1>7 DEF disk, Noted, NoteIsTrue, Faithful
  <1>8. CASE StartPanel \/ StartApi \/ StartScheduler \/ StopScheduler
    BY <1>7, <1>8 DEF StartPanel, StartApi, StartScheduler, StopScheduler, procs
  <1>9. ASSUME NEW p \in Process, StartCycle(p) \/ PressRun(p) \/ \E s \in Starter : EndCycle(p, s)
        PROVE  Noted'
    BY <1>7, <1>9 DEF StartCycle, PressRun, EndCycle, run_cycle
  <1>10. CASE UNCHANGED vars
    BY <1>7, <1>10 DEF vars, procs
  <1> QED BY <1>1, <1>2, <1>3, <1>4, <1>5, <1>6, <1>8, <1>9, <1>10 DEF Next

LEMMA NotedInit == Init => Noted
  BY DEF Init, Noted, NoteIsTrue

(* For any form: the banner after a save says what the file says, whether  *)
(* the save changed the field it speaks of or found it so.                 *)
THEOREM BannerIsTrue == Spec => []NoteIsTrue
  <1>1. Noted => NoteIsTrue
    BY DEF Noted
  <1> QED BY <1>1, NotedInit, NotedStep, PTL DEF Spec

(* For any form and any file: no finished save touches the kill switch of  *)
(* `.env`, nor a secret that the form leaves blank or masked.              *)
THEOREM SavesKeepTheRest == Spec => RestIsKept
  <1>1. Noted /\ [Next]_vars =>
          [\A w \in writing : whole' = {w.text} =>
              \A k \in {"KILL_SWITCH"} \cup {f \in SECRET_KEYS : w.form[f] \in {Blank, Stored}} :
                 Lookup(w.text, k, Blank) = Lookup(read_env(bak), k, Blank)]_vars
    BY DEF Noted, Faithful
  <1> QED BY <1>1, NotedInit, NotedStep, PTL DEF Spec, RestIsKept

(***************************************************************************)
(* The form opened and saved untouched.                                    *)
(***************************************************************************)
\* A key that is there has one value for every default, one that is not has
\* the default.
LEMMA LookupCases ==
    ASSUME NEW lines \in Lines, NEW k
    PROVE  \/ k \notin Keys(lines) /\ \A d : Lookup(lines, k, d) = d
           \/ k \in Keys(lines) /\ \E v \in Value : \A d : Lookup(lines, k, d) = v
  <1> DEFINE vs == Values(lines, k)
  <1>1. DOMAIN lines = 1..Len(lines) /\ \A i \in DOMAIN lines : lines[i] \in LineType
    BY DEF Lines
  <1>2. vs = {l.value : l \in {m \in ToSet(lines) : m.key = k}}
    BY DEF Values
  <1>3. ToSet(lines) = {lines[i] : i \in DOMAIN lines}
    BY DEF ToSet
  <1>4. vs \subseteq Value
    BY <1>1, <1>2, <1>3 DEF LineType
  <1>5. k \in Keys(lines) <=> vs # {}
    BY <1>2, <1>3 DEF Keys
  <1>6. \A d : Lookup(lines, k, d) = IF vs = {} THEN d ELSE CHOOSE v \in vs : TRUE
    BY DEF Lookup
  <1>7. vs # {} => (CHOOSE v \in vs : TRUE) \in vs
    OBVIOUS
  <1> HIDE DEF vs
  <1> QED BY <1>4, <1>5, <1>6, <1>7

LEMMA ExampleLookup ==
    /\ \A d : Lookup(env_example, "KILL_SWITCH", d) = "false"
    /\ \A d : Lookup(env_example, "OKX_TRADE_API_KEY", d) = Blank
  <1> DEFINE a == Line("RUN_MODE", "ALERT_ONLY")
             b == Line("KILL_SWITCH", "false")
             c == Line("OKX_TRADE_API_KEY", Blank)
             d == Line("OKX_SIMULATED", "true")
             e == Line("POSITION_USD", "25")
  <1>1. ToSet(env_example) = {a, b, c, d, e}
    <2>1. env_example = <<a, b, c, d, e>>
      BY DEF env_example
    <2> HIDE DEF a, b, c, d, e
    <2>2. DOMAIN <<a, b, c, d, e>> = 1..5
      OBVIOUS
    <2> QED BY <2>1, <2>2 DEF ToSet
  <1>2. /\ a.key = "RUN_MODE" /\ b.key = "KILL_SWITCH" /\ b.value = "false"
        /\ c.key = "OKX_TRADE_API_KEY" /\ c.value = Blank /\ d.key = "OKX_SIMULATED"
        /\ e.key = "POSITION_USD"
    BY DEF Line
  <1> HIDE DEF a, b, c, d, e
  <1>3. Values(env_example, "KILL_SWITCH") = {"false"}
    BY <1>1, <1>2 DEF Values
  <1>4. Values(env_example, "OKX_TRADE_API_KEY") = {Blank}
    BY <1>1, <1>2 DEF Values
  <1>5. \A x : (CHOOSE v \in {x} : TRUE) = x
    OBVIOUS
  <1> QED BY <1>3, <1>4, <1>5 DEF Lookup

\* The form that the panel shows is a form: blanks are masked or filled in.
LEMMA ShownForm ==
    ASSUME NEW lines \in Lines
    PROVE  load_setup_values(lines, Settings(lines)) \in [Field -> Value]
  <1> DEFINE form == load_setup_values(lines, Settings(lines))
  <1>1. \A k : Lookup(lines, k, Blank) \in Value
    BY LookupCases DEF Value
  <1>2. Settings(lines).run_mode \in Value
    BY LookupCases DEF Settings, Value
  <1>3. \A k \in Field : form[k] \in Value
    BY <1>1, <1>2 DEF load_setup_values, Value, SECRET_KEYS, Field
  <1> QED BY <1>3 DEF load_setup_values

LEMMA ReopenKeeps ==
    ASSUME NEW lines \in Lines, NEW base \in Lines, Loadable(lines),
           base = lines \/ (lines = <<>> /\ base = env_example)
    PROVE  LET form == load_setup_values(lines, Settings(lines))
           IN  Settings(write_env(base, form, merge_form(lines, form))) = Settings(lines)
  <1> DEFINE c == Settings(lines)
             form == load_setup_values(lines, c)
             updates == merge_form(lines, form)
             text == write_env(base, form, updates)
  <1>1. form \in [Field -> Value] /\ updates \in SUBSET Field
    BY ShownForm DEF merge_form
  <1>2. \A k, d : Lookup(text, k, d) = IF k \in updates THEN form[k] ELSE Lookup(base, k, d)
    BY <1>1, WrittenLookup
  <1>3. \A k \in Field : k \in updates <=> ~Refused(k, form[k]) /\ Lookup(lines, k, Blank) # form[k]
    BY DEF merge_form
  <1>4. \A k : k \in Keys(lines) => base = lines
    BY DEF Keys
  <1>5. c.run_mode = Lookup(lines, "RUN_MODE", "ALERT_ONLY")
        /\ c.simulated = (Lookup(lines, "OKX_SIMULATED", "true") = "true")
    BY DEF Settings
  <1>6. Lookup(text, "RUN_MODE", "ALERT_ONLY") = Lookup(lines, "RUN_MODE", "ALERT_ONLY")
    <2> DEFINE v == Lookup(lines, "RUN_MODE", Blank)
    <2>1. form["RUN_MODE"] = IF v = Blank THEN c.run_mode ELSE v
      BY DEF load_setup_values, Field, SECRET_KEYS
    <2>2. CASE "RUN_MODE" \notin Keys(lines)
      <3>1. v = Blank /\ c.run_mode = "ALERT_ONLY" /\ form["RUN_MODE"] = "ALERT_ONLY"
        BY <1>5, <2>1, <2>2, LookupCases
      <3>2. "RUN_MODE" \in updates
        BY <1>3, <3>1 DEF Refused, Blank, SECRET_KEYS, Field
      <3> QED BY <1>2, <1>5, <3>1, <3>2
    <2>3. CASE "RUN_MODE" \in Keys(lines)
      <3>1. v # Blank
        BY <2>3 DEF Loadable, SECRET_KEYS
      <3>2. "RUN_MODE" \notin updates
        BY <1>3, <2>1, <3>1 DEF Field
      <3> QED BY <1>2, <1>4, <2>3, <3>2
    <2> QED BY <2>2, <2>3
  <1>7. (Lookup(text, "OKX_SIMULATED", "true") = "true") = (Lookup(lines, "OKX_SIMULATED", "true") = "true")
    <2> DEFINE v == Lookup(lines, "OKX_SIMULATED", Blank)
    <2>1. form["OKX_SIMULATED"] = IF v # Blank THEN v ELSE IF c.simulated THEN "true" ELSE "false"
      BY DEF load_setup_values, Field, SECRET_KEYS
    <2>2. CASE "OKX_SIMULATED" \notin Keys(lines)
      <3>1. v = Blank /\ Lookup(lines, "OKX_SIMULATED", "true") = "true" /\ form["OKX_SIMULATED"] = "true"
        BY <1>5, <2>1, <2>2, LookupCases
      <3>2. "OKX_SIMULATED" \in updates
        BY <1>3, <3>1 DEF Refused, Blank, SECRET_KEYS, Field
      <3> QED BY <1>2, <3>1, <3>2
    <2>3. CASE "OKX_SIMULATED" \in Keys(lines)
      <3>1. v # Blank
        BY <2>3 DEF Loadable, SECRET_KEYS
      <3>2. "OKX_SIMULATED" \notin updates
        BY <1>3, <2>1, <3>1 DEF Field
      <3> QED BY <1>2, <1>4, <2>3, <3>2
    <2> QED BY <2>2, <2>3
  <1>8. Lookup(text, "KILL_SWITCH", "false") = Lookup(lines, "KILL_SWITCH", "false")
    <2>1. "KILL_SWITCH" \notin updates
      BY <1>1 DEF Field
    <2>2. "KILL_SWITCH" \notin Keys(lines) => Lookup(lines, "KILL_SWITCH", "false") = "false"
      BY LookupCases
    <2> QED BY <1>2, <1>4, <2>1, <2>2, ExampleLookup
  <1>9. Lookup(text, "OKX_TRADE_API_KEY", Blank) = Lookup(lines, "OKX_TRADE_API_KEY", Blank)
    <2>1. form["OKX_TRADE_API_KEY"] \in {Blank, Stored}
      BY DEF load_setup_values, Field, SECRET_KEYS
    <2>2. "OKX_TRADE_API_KEY" \notin updates
      BY <1>3, <2>1 DEF Refused, SECRET_KEYS, Field
    <2>3. "OKX_TRADE_API_KEY" \notin Keys(lines) => Lookup(lines, "OKX_TRADE_API_KEY", Blank) = Blank
      BY LookupCases
    <2> QED BY <1>2, <1>4, <2>2, <2>3, ExampleLookup
  <1> HIDE DEF text
  <1>10. Settings(text) = Settings(lines)
    BY <1>6, <1>7, <1>8, <1>9 DEF Settings
  <1> QED BY <1>10 DEF text

(* For any file that loads, also one cut short by a crash and one edited   *)
(* by hand, and for none: opening the form and saving it untouched changes *)
(* no setting in force.  (load_setup_values, merge_form, write_env)        *)
THEOREM ReopeningChangesNothing == Spec => []ReopenIsHarmless
  <1>1. Noted => ReopenIsHarmless
    <2> SUFFICES ASSUME Noted, cache["panel"] = Parse(file), NEW c \in cache["panel"]
                 PROVE  LET lines == read_env(file)
                            form == load_setup_values(lines, c)
                            base == IF file = {} THEN env_example ELSE lines
                        IN  Settings(write_env(base, form, merge_form(lines, form))) = c
      BY DEF ReopenIsHarmless
    <2> DEFINE lines == read_env(file)
               base == IF file = {} THEN env_example ELSE lines
    <2>1. Loadable(lines) /\ c = Settings(lines)
      BY DEF Parse
    <2>2. lines \in Lines /\ (file = {} => lines = <<>>)
      BY DEF Noted, read_env, Lines
    <2>3. base \in Lines
      BY <2>2, ExampleTyped
    <2>4. base = lines \/ (lines = <<>> /\ base = env_example)
      BY <2>2
    <2> HIDE DEF lines
    <2> QED BY <2>1, <2>2, <2>3, <2>4, ReopenKeeps DEF lines
  <1> QED BY <1>1, NotedInit, NotedStep, PTL DEF Spec

(***************************************************************************)
(* Types.                                                                  *)
(***************************************************************************)
Alone(p) == /\ \A c, d \in cache[p] : c = d
            /\ cache[p] # {} => p \in up
            /\ p \in loop => services[p] # {}
            /\ \A s \in Starter : cycle[<<p, s>>] # {} => p \in up

ProcShape ==
    /\ DOMAIN cache = Process /\ DOMAIN services = Process /\ DOMAIN cycle = Process \X Starter
    /\ up \subseteq Process /\ loop \subseteq up /\ "cli" \notin loop
    /\ \A p \in Process : Alone(p)
    /\ "cli" \in Process => cycle[<<"cli", "job">>] = {}
    /\ consent \in Confirmed /\ (consent # "none" => "cli" \in up)

LEMMA ParseSingle == \A f : \A c, d \in Parse(f) : c = d
  BY DEF Parse

LEMMA ProcStep == ASSUME ProcShape, Noted, [Next]_vars PROVE ProcShape'
  <1> USE DEF ProcShape
  <1>1. ASSUME NEW form \in Form, BeginSave(form) PROVE ProcShape'
    BY <1>1 DEF BeginSave, procs, Alone
  <1>2. CASE EndSave
    <2>1. PICK w \in writing : /\ cache' = [cache EXCEPT !["panel"] = Parse({w.text})]
                               /\ UNCHANGED <<up, services, loop, cycle, consent>>
      BY <1>2 DEF EndSave
    <2>2. "panel" \in up
      BY DEF Noted
    <2>3. \A p \in Process : Alone(p)'
      BY <2>1, <2>2, ParseSingle DEF Alone
    <2> QED BY <2>1, <2>3
  <1>3. CASE SaveFails
    BY <1>3 DEF SaveFails, procs, Alone
  <1>4. ASSUME NEW l \in Edit, HandEdit(l.key, l.value) PROVE ProcShape'
    BY <1>4 DEF HandEdit, procs, Alone
  <1>5. CASE StartCli
    <2>1. PICK c, halted :
                   /\ cache' = [cache EXCEPT !["cli"] = {c}] /\ consent' = confirm_live_mode(c, halted)
                   /\ up' = up \cup {"cli"} /\ "cli" \in Process \ up
                   /\ UNCHANGED <<services, loop, cycle>>
      BY <1>5 DEF StartCli
    <2>2. \A p \in Process : Alone(p)'
      BY <2>1 DEF Alone
    <2>3. consent' \in Confirmed
      BY <2>1 DEF confirm_live_mode, Confirmed
    <2> QED BY <2>1, <2>2, <2>3
  <1>6. CASE StartPanel
    <2>1. \A p \in Process : Alone(p)'
      BY <1>6, ParseSingle DEF StartPanel, Alone
    <2> QED BY <1>6, <2>1 DEF StartPanel
  <1>7. CASE StartApi
    <2>1. \A p \in Process : Alone(p)'
      BY <1>7, ParseSingle DEF StartApi, Alone
    <2> QED BY <1>7, <2>1 DEF StartApi
  <1>8. CASE StartScheduler
    <2>1. PICK c : /\ cache' = [cache EXCEPT !["panel"] = {c}]
                   /\ services' = [services EXCEPT !["panel"] = {c}]
                   /\ loop' = loop \cup {"panel"} /\ "panel" \in up
                   /\ UNCHANGED <<up, cycle, consent>>
      BY <1>8 DEF StartScheduler
    <2>2. \A p \in Process : Alone(p)'
      BY <2>1 DEF Alone
    <2> QED BY <2>1, <2>2
  <1>9. CASE StopScheduler
    <2>1. \A p \in Process : Alone(p)'
      BY <1>9 DEF StopScheduler, Alone
    <2>2. "cli" \in Process => cycle'[<<"cli", "job">>] = {}
      BY <1>9 DEF StopScheduler, Starter
    <2> QED BY <1>9, <2>1, <2>2 DEF StopScheduler
  <1>10. ASSUME NEW q \in Process, NEW s \in Starter, NEW clients, run_cycle(q, s, clients),
                q \in up, q = "cli" => s = "button"
         PROVE  ProcShape'
    <2>1. PICK c, b : /\ cache' = [cache EXCEPT ![q] = {c}]
                      /\ cycle' = [cycle EXCEPT ![<<q, s>>] = {[settings |-> c, clients |-> b]}]
                      /\ UNCHANGED <<up, services, loop, consent>>
      BY <1>10 DEF run_cycle
    <2>2. \A p \in Process : Alone(p)'
      BY <1>10, <2>1 DEF Alone
    <2>3. "cli" \in Process => cycle'[<<"cli", "job">>] = {}
      BY <1>10, <2>1 DEF Starter
    <2> QED BY <2>1, <2>2, <2>3
  <1>11. ASSUME NEW p \in Process, StartCycle(p) \/ PressRun(p) PROVE ProcShape'
    BY <1>10, <1>11 DEF StartCycle, PressRun, Starter
  <1>12. ASSUME NEW q \in Process, NEW s \in Starter, EndCycle(q, s) PROVE ProcShape'
    <2>1. /\ cycle' = [cycle EXCEPT ![<<q, s>>] = {}]
          /\ up' = up \ (IF q = "cli" THEN {q} ELSE {})
          /\ q = "cli" => s = "button"
          /\ cache' = [cache EXCEPT !["cli"] = IF q = "cli" THEN {} ELSE @]
          /\ consent' = IF q = "cli" THEN "none" ELSE consent
          /\ UNCHANGED <<services, loop>>
      BY <1>12 DEF EndCycle, Starter
    <2>2. \A p \in Process : Alone(p)'
      BY <1>12, <2>1 DEF Alone, Starter
    <2>3. "cli" \in Process => cycle'[<<"cli", "job">>] = {}
      BY <2>1 DEF Starter
    <2> QED BY <2>1, <2>2, <2>3 DEF Confirmed
  <1>13. ASSUME NEW q \in Process, Die(q) PROVE ProcShape'
    <2>1. \A p \in Process : Alone(p)'
      BY <1>13 DEF Die, NoCycle, Alone, Starter
    <2>2. "cli" \in Process => cycle'[<<"cli", "job">>] = {}
      BY <1>13 DEF Die, NoCycle, Starter
    <2> QED BY <1>13, <2>1, <2>2 DEF Die, NoCycle, Confirmed
  <1>14. CASE UNCHANGED vars
    BY <1>14 DEF vars, procs, Alone
  <1> QED BY <1>1, <1>2, <1>3, <1>4, <1>5, <1>6, <1>7, <1>8, <1>9, <1>11, <1>12,
             <1>13, <1>14 DEF Next

(* Type correctness of the operator's side for any processes and forms: a  *)
(* loop has clients, and no cycle or cache outlives its process.           *)
THEOREM TypeCorrect == Spec => []TypeOK
  <1>1. Init => ProcShape
    BY DEF Init, ProcShape, Alone, Confirmed, Starter
  <1>2. ProcShape /\ Noted => TypeOK
    <2> SUFFICES ASSUME ProcShape, Noted PROVE TypeOK
      OBVIOUS
    <2>1. \A f \in Text : \A lines \in f : \A i \in DOMAIN lines : lines[i] \in LineType
      BY DEF Noted, Text, Lines
    <2> QED BY <2>1 DEF ProcShape, Noted, TypeOK, Alone
  <1> QED BY <1>1, <1>2, NotedInit, NotedStep, ProcStep, PTL DEF Spec

(***************************************************************************)
(* The file as it is found half written.                                   *)
(***************************************************************************)
\* No key twice, and the switch before the exchange key.
Ordered(lines) ==
    /\ \A i, j \in DOMAIN lines : lines[i].key = lines[j].key => i = j
    /\ \A i, j \in DOMAIN lines :
          lines[i].key = "KILL_SWITCH" /\ lines[j].key = "OKX_TRADE_API_KEY" => i < j

\* s is t cut short, some of its values lost.
Cut(s, t) == /\ Len(s) <= Len(t)
             /\ \A i \in 1..Len(s) : s[i].key = t[i].key /\ s[i].value \in {Blank, t[i].value}

\* Every version is in order, and the file is a version or a cut of the one
\* that was being saved.
Orderly ==
    /\ \A lines \in file \cup whole \cup wanted : Ordered(lines)
    /\ \A w \in writing : wanted = {w.text}
    /\ file = whole \/ \E t \in wanted : \E s : file = {s} /\ Cut(s, t)

\* The order is that of the keys, whatever the values.
LEMMA CutOrdered ==
    ASSUME NEW s \in Lines, NEW t \in Lines, Ordered(t), Len(s) <= Len(t),
           \A i \in 1..Len(s) : s[i].key = t[i].key
    PROVE  Ordered(s)
  <1>1. DOMAIN s = 1..Len(s) /\ DOMAIN t = 1..Len(t) /\ Len(s) \in Nat /\ Len(t) \in Nat
    BY DEF Lines
  <1>2. \A i \in DOMAIN s : i \in DOMAIN t /\ s[i].key = t[i].key
    BY <1>1
  <1> QED BY <1>2 DEF Ordered

LEMMA TornIsCut ==
    ASSUME NEW t \in Lines, NEW s \in Torn(t)
    PROVE  s \in Lines /\ Cut(s, t)
  <1>1. s \in Lines
    BY TornTyped
  <1>2. Len(t) \in Nat
    BY DEF Lines
  <1>3. ASSUME NEW n \in 0..(Len(t) - 1)
        PROVE  LET p == SubSeq(t, 1, n)
               IN  p \in Lines /\ Len(p) = n /\ \A i \in 1..n : p[i] = t[i]
    BY <1>2, SubSeqProperties, LenProperties DEF Lines
  <1>4. PICK n \in 0..(Len(t) - 1) : \/ s = SubSeq(t, 1, n)
                                     \/ s = Append(SubSeq(t, 1, n), Line(t[n + 1].key, Blank))
    BY DEF Torn
  <1> DEFINE p == SubSeq(t, 1, n)
  <1>5. p \in Lines /\ Len(p) = n /\ \A i \in 1..n : p[i] = t[i]
    BY <1>3
  <1> HIDE DEF p
  <1>6. CASE s = p
    BY <1>1, <1>2, <1>5, <1>6 DEF Cut
  <1>7. CASE s = Append(p, Line(t[n + 1].key, Blank))
    <2> DEFINE l == Line(t[n + 1].key, Blank)
    <2>1. l.key = t[n + 1].key /\ l.value = Blank
      BY DEF Line
    <2> HIDE DEF l
    <2>2. Len(s) = n + 1 /\ s[n + 1] = l /\ \A i \in 1..n : s[i] = p[i]
      BY <1>5, <1>7, AppendProperties DEF Lines, l
    <2>3. \A i \in 1..(n + 1) : i \in 1..n \/ i = n + 1
      BY <1>4
    <2> QED BY <1>1, <1>2, <1>5, <2>1, <2>2, <2>3 DEF Cut
  <1> QED BY <1>1, <1>4, <1>6, <1>7 DEF p

\* The value of a key in a version in order.
LEMMA OrderedLookup ==
    ASSUME NEW t \in Lines, Ordered(t), NEW i \in 1..Len(t), NEW d
    PROVE  Lookup(t, t[i].key, d) = t[i].value
  <1>1. DOMAIN t = 1..Len(t)
    BY DEF Lines
  <1>2. {m \in ToSet(t) : m.key = t[i].key} = {t[i]}
    BY <1>1 DEF ToSet, Ordered
  <1>3. Values(t, t[i].key) = {t[i].value}
    BY <1>2 DEF Values
  <1>4. \A x : (CHOOSE v \in {x} : TRUE) = x
    OBVIOUS
  <1> QED BY <1>3, <1>4 DEF Lookup

\* What a cut says, if it says anything, is what the version says.
LEMMA CutLookup ==
    ASSUME NEW s \in Lines, NEW t \in Lines, Ordered(s), Ordered(t), Cut(s, t),
           NEW k \in Keys(s), NEW d, Lookup(s, k, d) # Blank
    PROVE  Lookup(t, k, d) = Lookup(s, k, d)
  <1>1. DOMAIN s = 1..Len(s) /\ Len(s) \in Nat /\ Len(t) \in Nat
    BY DEF Lines
  <1>2. PICK i \in 1..Len(s) : s[i].key = k
    BY <1>1 DEF Keys
  <1>3. i \in 1..Len(t) /\ t[i].key = k /\ s[i].value \in {Blank, t[i].value}
    BY <1>1, <1>2 DEF Cut
  <1>4. Lookup(s, k, d) = s[i].value
    BY <1>2, OrderedLookup
  <1>5. Lookup(t, k, d) = t[i].value
    BY <1>3, OrderedLookup
  <1> QED BY <1>3, <1>4, <1>5

\* A cut that loads and lets a cycle spend still has the switch of its
\* version, because it has the exchange key.
LEMMA CutIsSafe ==
    ASSUME NEW s \in Lines, NEW t \in Lines, Ordered(s), Ordered(t), Cut(s, t),
           Loadable(s), Allows(s)
    PROVE  Allows(t)
  <1>1. /\ Lookup(s, "RUN_MODE", "ALERT_ONLY") = "LIVE"
        /\ Lookup(s, "KILL_SWITCH", "false") # "true"
        /\ Lookup(s, "OKX_TRADE_API_KEY", Blank) # Blank
        /\ Lookup(s, "OKX_SIMULATED", "true") # "true"
    BY DEF Allows, CanSpend, Settings
  <1>2. {"RUN_MODE", "OKX_TRADE_API_KEY", "OKX_SIMULATED"} \subseteq Keys(s)
    BY <1>1, LookupCases
  <1>3. ASSUME NEW k \in Keys(s) \ SECRET_KEYS, NEW d
        PROVE  Lookup(s, k, d) # Blank
    BY LookupCases DEF Loadable
  <1>4. /\ Lookup(t, "RUN_MODE", "ALERT_ONLY") = "LIVE"
        /\ Lookup(t, "OKX_TRADE_API_KEY", Blank) # Blank
        /\ Lookup(t, "OKX_SIMULATED", "true") # "true"
    <2>1. ASSUME NEW k \in Keys(s), NEW d, Lookup(s, k, d) # Blank
          PROVE  Lookup(t, k, d) = Lookup(s, k, d)
      BY <2>1, CutLookup
    <2>2. "LIVE" # Blank
      BY DEF Blank
    <2>3. Lookup(s, "OKX_SIMULATED", "true") # Blank
      BY <1>2, <1>3 DEF SECRET_KEYS
    <2> QED BY <1>1, <1>2, <2>1, <2>2, <2>3
  <1>5. Lookup(t, "KILL_SWITCH", "false") # "true"
    <2>1. CASE "KILL_SWITCH" \notin Keys(t)
      BY <2>1, LookupCases
    <2>2. CASE "KILL_SWITCH" \in Keys(t)
      <3>1. DOMAIN s = 1..Len(s) /\ DOMAIN t = 1..Len(t) /\ Len(s) \in Nat /\ Len(t) \in Nat
        BY DEF Lines
      <3>2. PICK j \in 1..Len(t) : t[j].key = "KILL_SWITCH"
        BY <2>2, <3>1 DEF Keys
      <3>3. PICK i \in 1..Len(s) : s[i].key = "OKX_TRADE_API_KEY"
        BY <1>2, <3>1 DEF Keys
      <3>4. i \in 1..Len(t) /\ t[i].key = "OKX_TRADE_API_KEY"
        BY <3>1, <3>3 DEF Cut
      <3>5. j < i
        BY <3>1, <3>2, <3>4 DEF Ordered
      <3>6. j \in 1..Len(s) /\ s[j].key = "KILL_SWITCH"
        BY <3>1, <3>2, <3>5 DEF Cut
      <3>7. "KILL_SWITCH" \in Keys(s)
        BY <3>1, <3>6 DEF Keys
      <3> QED BY <1>1, <1>3, <3>7, CutLookup DEF SECRET_KEYS
    <2> QED BY <2>1, <2>2
  <1> QED BY <1>4, <1>5 DEF Allows, CanSpend, Settings

LEMMA ExampleOrdered == Ordered(env_example)
  <1> DEFINE a == Line("RUN_MODE", "ALERT_ONLY")
             b == Line("KILL_SWITCH", "false")
             c == Line("OKX_TRADE_API_KEY", Blank)
             d == Line("OKX_SIMULATED", "true")
             e == Line("POSITION_USD", "25")
             t == <<a, b, c, d, e>>
  <1>1. env_example = t
    BY DEF env_example
  <1>2. /\ a.key = "RUN_MODE" /\ b.key = "KILL_SWITCH" /\ c.key = "OKX_TRADE_API_KEY"
        /\ d.key = "OKX_SIMULATED" /\ e.key = "POSITION_USD"
    BY DEF Line
  <1> HIDE DEF a, b, c, d, e
  <1>3. DOMAIN t = 1..5 /\ t[1] = a /\ t[2] = b /\ t[3] = c /\ t[4] = d /\ t[5] = e
    OBVIOUS
  <1> HIDE DEF t
  <1>4. \A i \in 1..5 : i = 1 \/ i = 2 \/ i = 3 \/ i = 4 \/ i = 5
    OBVIOUS
  <1>5. \A i, j \in 1..5 : t[i].key = t[j].key => i = j
    BY <1>2, <1>3, <1>4
  <1>6. \A i, j \in 1..5 : t[i].key = "KILL_SWITCH" /\ t[j].key = "OKX_TRADE_API_KEY" => i < j
    BY <1>2, <1>3, <1>4
  <1> QED BY <1>1, <1>3, <1>5, <1>6 DEF Ordered

\* A field that was missing comes last.
LEMMA AppendOrdered ==
    ASSUME NEW s \in Lines, Ordered(s), NEW form \in [Field -> Value], NEW k \in Field, NEW new,
           k \in new => k \notin Keys(s)
    PROVE  LET t == s \o appended(k, form, new)
           IN  /\ t \in Lines /\ Ordered(t)
               /\ Keys(t) = Keys(s) \cup ({k} \cap new)
  <1> DEFINE a == appended(k, form, new)
             t == s \o a
  <1>1. a \in Lines /\ t \in Lines
    BY AppendedSet, ConcatSet
  <1>2. DOMAIN s = 1..Len(s) /\ Len(s) \in Nat
    BY DEF Lines
  <1>3. CASE k \notin new
    <2>1. a = <<>>
      BY <1>3 DEF appended
    <2>2. t = s
      BY <2>1, ConcatEmptySeq DEF Lines
    <2> HIDE DEF t, a
    <2> QED BY <1>1, <1>3, <2>2 DEF t, a
  <1>4. CASE k \in new
    <2> DEFINE l == Line(k, form[k])
    <2>1. a = <<l>> /\ l.key = k /\ l \in LineType
      BY <1>4 DEF appended, Line, LineType
    <2> HIDE DEF l
    <2>2. \A x \in LineType : <<x>> \in Seq(LineType) /\ Len(<<x>>) = 1 /\ <<x>>[1] = x
      OBVIOUS
    <2>3. a \in Seq(LineType) /\ Len(a) = 1 /\ a[1] = l
      BY <2>1, <2>2
    <2> HIDE DEF a
    <2>4. /\ Len(t) = Len(s) + 1 /\ t[Len(s) + 1] = l
          /\ \A i \in 1..Len(s) : t[i] = s[i]
      BY <1>2, <2>3, ConcatProperties DEF Lines
    <2> HIDE DEF t
    <2>5. DOMAIN t = 1..(Len(s) + 1)
      BY <1>1, <2>4 DEF Lines
    <2>6. \A i \in 1..Len(s) : s[i].key # k
      BY <1>2, <1>4 DEF Keys
    <2>7. k # "KILL_SWITCH"
      BY DEF Field
    <2>8. \A i \in DOMAIN t : \/ i \in 1..Len(s) /\ t[i].key = s[i].key
                              \/ i = Len(s) + 1 /\ t[i].key = k
      BY <1>2, <2>1, <2>4, <2>5
    <2>9. Ordered(t)
      <3>1. \A i, j \in DOMAIN t : t[i].key = t[j].key => i = j
        BY <1>2, <2>6, <2>8 DEF Ordered
      <3>2. \A i, j \in DOMAIN t :
               t[i].key = "KILL_SWITCH" /\ t[j].key = "OKX_TRADE_API_KEY" => i < j
        BY <1>2, <2>7, <2>8 DEF Ordered
      <3> QED BY <3>1, <3>2 DEF Ordered
    <2>10. Keys(t) = Keys(s) \cup {k}
      <3>1. \A i \in 1..Len(s) : i \in DOMAIN t /\ t[i].key = s[i].key
        BY <1>2, <2>4, <2>5
      <3>2. Len(s) + 1 \in DOMAIN t /\ t[Len(s) + 1].key = k
        BY <1>2, <2>1, <2>4, <2>5
      <3> QED BY <1>2, <2>8, <3>1, <3>2 DEF Keys
    <2> QED BY <1>1, <1>4, <2>9, <2>10 DEF t, a
  <1> QED BY <1>3, <1>4

\* A save keeps the lines where they stand and adds no line twice.
LEMMA WrittenOrdered ==
    ASSUME NEW lines \in Lines, Ordered(lines), NEW form \in [Field -> Value],
           NEW updates \in SUBSET Field
    PROVE  Ordered(write_env(lines, form, updates))
  <1> DEFINE new == updates \ Keys(lines)
             t0 == rewritten(lines, form, updates)
             t1 == t0 \o appended("OKX_TRADE_API_KEY", form, new)
             t2 == t1 \o appended("OKX_SIMULATED", form, new)
             t3 == t2 \o appended("RUN_MODE", form, new)
             t4 == t3 \o appended("POSITION_USD", form, new)
  <1>1. /\ "OKX_TRADE_API_KEY" \in Field /\ "OKX_SIMULATED" \in Field
        /\ "RUN_MODE" \in Field /\ "POSITION_USD" \in Field
    BY DEF Field
  <1>2. t0 \in Lines /\ Ordered(t0) /\ Keys(t0) = Keys(lines)
    <2>1. t0 \in Lines
      BY RewrittenSet
    <2>2. DOMAIN t0 = DOMAIN lines /\ \A i \in DOMAIN lines : t0[i].key = lines[i].key
      BY DEF rewritten, Line
    <2> HIDE DEF t0
    <2> QED BY <2>1, <2>2 DEF Ordered, Keys
  <1> HIDE DEF t0
  <1>3. new \cap Keys(t0) = {}
    BY <1>2
  <1>4. write_env(lines, form, updates) = t4
    BY DEF write_env, t0
  <1> HIDE DEF new
  <1>5. t1 \in Lines /\ Ordered(t1) /\ Keys(t1) = Keys(t0) \cup ({"OKX_TRADE_API_KEY"} \cap new)
    BY <1>1, <1>2, <1>3, AppendOrdered
  <1> HIDE DEF t1
  <1>6. t2 \in Lines /\ Ordered(t2) /\ Keys(t2) = Keys(t1) \cup ({"OKX_SIMULATED"} \cap new)
    <2>1. "OKX_SIMULATED" \in new => "OKX_SIMULATED" \notin Keys(t1)
      BY <1>3, <1>5
    <2> QED BY <1>1, <1>5, <2>1, AppendOrdered
  <1> HIDE DEF t2
  <1>7. t3 \in Lines /\ Ordered(t3) /\ Keys(t3) = Keys(t2) \cup ({"RUN_MODE"} \cap new)
    <2>1. "RUN_MODE" \in new => "RUN_MODE" \notin Keys(t2)
      BY <1>3, <1>5, <1>6
    <2> QED BY <1>1, <1>6, <2>1, AppendOrdered
  <1> HIDE DEF t3
  <1>8. Ordered(t4)
    <2>1. "POSITION_USD" \in new => "POSITION_USD" \notin Keys(t3)
      BY <1>3, <1>5, <1>6, <1>7
    <2> QED BY <1>1, <1>7, <2>1, AppendOrdered
  <1> QED BY <1>4, <1>8

LEMMA OrderlyStep == ASSUME Orderly, Noted, [Next]_vars PROVE Orderly'
  <1>1. ASSUME NEW form \in Form, BeginSave(form) PROVE Orderly'
    <2> DEFINE base == IF file = {} THEN env_example ELSE read_env(file)
               updates == merge_form(read_env(file), form)
               text == write_env(base, form, updates)
    <2>1. CASE updates = {}
      BY <1>1, <2>1 DEF BeginSave, disk, Orderly
    <2>2. CASE updates # {}
      <3>1. /\ whole' \subseteq {base} \cup whole /\ wanted' = {text} /\ writing' = {[text |-> text, form |-> form]}
            /\ \E seen \in Torn(text) : file' = {seen}
        BY <1>1, <2>2 DEF BeginSave
      <3>2. base \in Lines /\ Ordered(base)
        BY ExampleTyped, ExampleOrdered DEF Noted, Orderly, read_env
      <3>3. updates \in SUBSET Field /\ form \in [Field -> Value]
        BY PanelAssumption DEF merge_form
      <3>4. text \in Lines /\ Ordered(text)
        BY <3>2, <3>3, WriteSet, WrittenOrdered
      <3> HIDE DEF base, text
      <3>5. PICK seen \in Torn(text) : file' = {seen}
        BY <3>1
      <3>6. seen \in Lines /\ Cut(seen, text)
        BY <3>4, TornIsCut
      <3>7. Ordered(seen)
        BY <3>4, <3>6, CutOrdered DEF Cut
      <3> QED BY <3>1, <3>2, <3>4, <3>5, <3>6, <3>7 DEF Orderly
    <2> QED BY <2>1, <2>2
  <1>2. CASE EndSave
    BY <1>2 DEF EndSave, Orderly
  <1>3. CASE SaveFails
    BY <1>3 DEF SaveFails, Orderly
  <1>4. ASSUME NEW l \in Edit, HandEdit(l.key, l.value) PROVE Orderly'
    <2>1. PICK lines \in file :
             file' = {[i \in DOMAIN lines |-> IF lines[i].key = l.key THEN Line(l.key, l.value) ELSE lines[i]]}
      BY <1>4 DEF HandEdit
    <2> DEFINE new == [i \in DOMAIN lines |-> IF lines[i].key = l.key THEN Line(l.key, l.value) ELSE lines[i]]
    <2>2. DOMAIN new = DOMAIN lines /\ \A i \in DOMAIN lines : new[i].key = lines[i].key
      BY DEF Line
    <2>3. /\ file' = {new} /\ wanted' = {new} /\ writing' = writing /\ writing = {}
          /\ whole' = IF file = whole THEN file' ELSE whole
      BY <1>4, <2>1 DEF HandEdit
    <2>4. Ordered(lines)
      BY DEF Orderly
    <2> HIDE DEF new
    <2>5. Ordered(new)
      BY <2>2, <2>4 DEF Ordered
    <2>6. new \in Lines
      BY <2>3, NotedStep DEF Noted
    <2>7. Cut(new, new)
      BY <2>6 DEF Cut, Lines
    <2> QED BY <2>3, <2>5, <2>7 DEF Orderly
  <1>5. CASE StartCli
    <2>1. CASE file = {}
      BY <1>5, <2>1, ExampleOrdered DEF StartCli, Orderly
    <2>2. CASE file # {}
      BY <1>5, <2>2 DEF StartCli, Orderly
    <2> QED BY <2>1, <2>2
  <1>6. ASSUME NEW p \in Process, Die(p) PROVE Orderly'
    BY <1>6 DEF Die, Orderly
  <1>7. ASSUME UNCHANGED disk PROVE Orderly'
    BY <1>7 DEF disk, Orderly
  <1>8. CASE StartPanel \/ StartApi \/ StartScheduler \/ StopScheduler
    BY <1>7, <1>8 DEF StartPanel, StartApi, StartScheduler, StopScheduler
  <1>9. ASSUME NEW p \in Process, StartCycle(p) \/ PressRun(p) \/ \E s \in Starter : EndCycle(p, s)
        PROVE  Orderly'
    BY <1>7, <1>9 DEF StartCycle, PressRun, EndCycle, run_cycle
  <1>10. CASE UNCHANGED vars
    BY <1>7, <1>10 DEF vars
  <1> QED BY <1>1, <1>2, <1>3, <1>4, <1>5, <1>6, <1>8, <1>9, <1>10 DEF Next

\* Who reads the file here and now may spend only if a version says so.
LEMMA ReadIsSafe ==
    ASSUME Orderly, Noted, NEW c \in Parse(file), CanSpend(c, c)
    PROVE  \E lines \in (IF file = whole THEN whole ELSE wanted) : Allows(lines)
  <1>1. Loadable(read_env(file)) /\ c = Settings(read_env(file))
    BY DEF Parse
  <1>2. Allows(read_env(file))
    BY <1>1 DEF Allows
  <1>3. CASE file = {}
    <2>1. Keys(<<>>) = {} /\ <<>> \in Lines
      BY DEF Keys, Lines
    <2>2. Lookup(<<>>, "RUN_MODE", "ALERT_ONLY") = "ALERT_ONLY"
      BY <2>1, LookupCases
    <2> QED BY <1>2, <1>3, <2>2 DEF read_env, Allows, CanSpend, Settings
  <1>4. CASE file # {} /\ file = whole
    <2>1. read_env(file) \in whole
      BY <1>4 DEF read_env
    <2> QED BY <1>2, <1>4, <2>1
  <1>5. ASSUME file # whole, NEW t \in wanted, NEW s, file = {s}, Cut(s, t)
        PROVE  Allows(t)
    <2>1. read_env(file) = s
      BY <1>5 DEF read_env
    <2>2. s \in Lines /\ t \in Lines /\ Ordered(s) /\ Ordered(t)
      BY <1>5 DEF Noted, Orderly
    <2> QED BY <1>1, <1>2, <1>5, <2>1, <2>2, CutIsSafe
  <1> QED BY <1>3, <1>4, <1>5 DEF Orderly

\* Settings that are new in a cache were read from the file, or from the
\* version that the step completed.
LEMMA CachedFromFile ==
    ASSUME ProcShape, Orderly, [Next]_vars, NEW p \in Process, NEW c \in cache'[p] \ cache[p]
    PROVE  \/ c \in Parse(file) /\ whole' = whole
           \/ \E lines \in (IF file = whole THEN whole' ELSE wanted) : c = Settings(lines)
  <1> USE DEF ProcShape
  <1>0. ASSUME UNCHANGED cache PROVE FALSE
    BY <1>0
  <1>1. ASSUME NEW form \in Form, BeginSave(form) PROVE FALSE
    BY <1>0, <1>1 DEF BeginSave, procs
  <1>2. CASE EndSave
    <2>1. PICK w \in writing : /\ whole' = {w.text}
                               /\ cache' = [cache EXCEPT !["panel"] = Parse({w.text})]
      BY <1>2 DEF EndSave
    <2>2. c \in Parse({w.text})
      BY <2>1
    <2>3. read_env({w.text}) = w.text
      BY DEF read_env
    <2>4. c = Settings(w.text)
      BY <2>2, <2>3 DEF Parse
    <2>5. wanted = {w.text}
      BY DEF Orderly
    <2> QED BY <2>1, <2>4, <2>5
  <1>3. CASE SaveFails
    BY <1>0, <1>3 DEF SaveFails, procs
  <1>4. ASSUME NEW l \in Edit, HandEdit(l.key, l.value) PROVE FALSE
    BY <1>0, <1>4 DEF HandEdit, procs
  <1>5. CASE StartPanel \/ StartApi
    BY <1>5 DEF StartPanel, StartApi, disk
  <1>6. CASE StartCli
    <2>1. c \in Parse(file')
      BY <1>6 DEF StartCli
    <2>2. CASE file # {}
      BY <1>6, <2>1, <2>2 DEF StartCli
    <2>3. CASE file = {}
      <3>1. file' = {env_example} /\ whole' = {env_example}
        BY <1>6, <2>3 DEF StartCli
      <3>2. read_env(file') = env_example
        BY <3>1 DEF read_env
      <3>3. c = Settings(env_example)
        BY <2>1, <3>2 DEF Parse
      <3>4. file = whole
        BY <2>3 DEF Orderly
      <3> QED BY <3>1, <3>3, <3>4
    <2> QED BY <2>2, <2>3
  <1>7. CASE StartScheduler
    BY <1>7 DEF StartScheduler, get_settings, disk
  <1>8. CASE StopScheduler
    BY <1>0, <1>8 DEF StopScheduler, procs
  <1>9. ASSUME NEW q \in Process, NEW s \in Starter, NEW clients, run_cycle(q, s, clients)
        PROVE  c \in Parse(file) /\ whole' = whole
    BY <1>9 DEF run_cycle, get_settings, disk
  <1>10. ASSUME NEW q \in Process, StartCycle(q) \/ PressRun(q)
         PROVE  c \in Parse(file) /\ whole' = whole
    BY <1>9, <1>10 DEF StartCycle, PressRun, Starter
  <1>11. ASSUME NEW q \in Process, Die(q) \/ \E s \in Starter : EndCycle(q, s) PROVE FALSE
    BY <1>11 DEF Die, EndCycle
  <1>12. CASE UNCHANGED vars
    BY <1>0, <1>12 DEF vars, procs
  <1> QED BY <1>1, <1>2, <1>3, <1>4, <1>5, <1>6, <1>7, <1>8, <1>10, <1>11, <1>12 DEF Next

(* For any forms, hand edits and deaths, and however many saves are cut    *)
(* short: whoever loads a whole `.env` may spend only if that version says *)
(* so, and whoever loads it half written only if the version being saved   *)
(* does.  (write_env, env_example)                                         *)
THEOREM TornReadsAreSafe == Spec => TornReadIsSafe
  <1>1. Init => ProcShape /\ Orderly
    BY DEF Init, ProcShape, Alone, Confirmed, Starter, Orderly
  <1>2. ASSUME ProcShape, Noted, Orderly, [Next]_vars,
               NEW p \in Process, NEW c \in cache'[p] \ cache[p], CanSpend(c, c)
        PROVE  \E lines \in (IF file = whole THEN whole' ELSE wanted) : Allows(lines)
    <2>1. CASE c \in Parse(file) /\ whole' = whole
      BY <1>2, <2>1, ReadIsSafe
    <2>2. CASE \E lines \in (IF file = whole THEN whole' ELSE wanted) : c = Settings(lines)
      BY <1>2, <2>2 DEF Allows
    <2> QED BY <1>2, <2>1, <2>2, CachedFromFile
  <1>3. ProcShape /\ Noted /\ Orderly /\ [Next]_vars =>
          [\A p \in Process : \A c \in cache'[p] \ cache[p] :
              CanSpend(c, c) =>
                 \E lines \in (IF file = whole THEN whole' ELSE wanted) : Allows(lines)]_vars
    BY <1>2
  <1> QED BY <1>1, <1>3, NotedInit, NotedStep, ProcStep, OrderlyStep, PTL DEF Spec, TornReadIsSafe

(***************************************************************************)
(* What the demo banner is worth.                                          *)
(***************************************************************************)
\* While the panel speaks of a mode, nothing has touched the file since the
\* save that made it speak, and the settings in force are the file's.
Current ==
    note \in {"plain", "demo", "real"} =>
        /\ "panel" \in up /\ file = whole /\ cache["panel"] = Parse(file)
        /\ \E t \in Lines : file = {t} /\ Loadable(t)

LEMMA CurrentStep == ASSUME Current, ProcShape, Noted, [Next]_vars PROVE Current'
  <1> USE DEF Current, ProcShape
  <1>0. ASSUME UNCHANGED <<note, up, file, whole>>,
               "panel" \in Process => cache'["panel"] = cache["panel"]
        PROVE  Current'
    BY <1>0 DEF Parse, read_env
  <1>1. ASSUME NEW form \in Form, BeginSave(form) PROVE Current'
    BY <1>1 DEF BeginSave
  <1>2. CASE EndSave
    <2>1. PICK w \in writing :
             /\ file' = {w.text} /\ whole' = {w.text} /\ up' = up
             /\ cache' = [cache EXCEPT !["panel"] = Parse({w.text})]
             /\ note' = IF Loadable(w.text) THEN banner(w.form) ELSE "error"
      BY <1>2 DEF EndSave
    <2>2. "panel" \in up /\ w.text \in Lines
      BY DEF Noted, Faithful
    <2>3. CASE Loadable(w.text)
      BY <2>1, <2>2, <2>3 DEF Parse, read_env
    <2>4. CASE ~Loadable(w.text)
      BY <2>1, <2>4
    <2> QED BY <2>3, <2>4
  <1>3. CASE SaveFails
    BY <1>3 DEF SaveFails
  <1>4. ASSUME NEW l \in Edit, HandEdit(l.key, l.value) PROVE Current'
    BY <1>4 DEF HandEdit
  <1>5. CASE StartPanel
    BY <1>5 DEF StartPanel, disk
  <1>6. CASE StartApi
    BY <1>0, <1>6 DEF StartApi, disk
  <1>7. CASE StartCli
    BY <1>7 DEF StartCli, Parse, read_env
  <1>8. CASE StartScheduler
    <2>1. CASE note \in {"plain", "demo", "real"}
      <3>1. PICK t \in Lines : file = {t} /\ Loadable(t)
        BY <2>1
      <3>2. cache["panel"] = {Settings(t)}
        BY <2>1, <3>1 DEF Parse, read_env
      <3>3. cache'["panel"] = cache["panel"]
        BY <1>8, <3>2 DEF StartScheduler, get_settings
      <3> QED BY <1>0, <1>8, <3>3 DEF StartScheduler, disk
    <2>2. CASE note \notin {"plain", "demo", "real"}
      BY <1>8, <2>2 DEF StartScheduler
    <2> QED BY <2>1, <2>2
  <1>9. CASE StopScheduler
    BY <1>0, <1>9 DEF StopScheduler, disk, procs
  <1>10. ASSUME NEW p \in Process, NEW s \in Starter, NEW clients, run_cycle(p, s, clients)
         PROVE  Current'
    <2>1. CASE note \in {"plain", "demo", "real"}
      <3>1. PICK t \in Lines : file = {t} /\ Loadable(t)
        BY <2>1
      <3>2. cache["panel"] = {Settings(t)}
        BY <2>1, <3>1 DEF Parse, read_env
      <3>3. PICK c \in get_settings(p) : cache' = [cache EXCEPT ![p] = {c}]
        BY <1>10 DEF run_cycle
      <3>4. p = "panel" => c = Settings(t)
        BY <3>2, <3>3 DEF get_settings
      <3>5. "panel" \in Process => cache'["panel"] = cache["panel"]
        BY <3>2, <3>3, <3>4
      <3> QED BY <1>0, <1>10, <3>5 DEF run_cycle, disk
    <2>2. CASE note \notin {"plain", "demo", "real"}
      BY <1>10, <2>2 DEF run_cycle
    <2> QED BY <2>1, <2>2
  <1>11. ASSUME NEW p \in Process, StartCycle(p) \/ PressRun(p) PROVE Current'
    BY <1>10, <1>11 DEF StartCycle, PressRun, Starter
  <1>12. ASSUME NEW p \in Process, NEW s \in Starter, EndCycle(p, s) PROVE Current'
    BY <1>12 DEF EndCycle, disk, Parse, read_env
  <1>13. ASSUME NEW p \in Process, Die(p) PROVE Current'
    <2>1. CASE p = "panel"
      BY <1>13, <2>1 DEF Die
    <2>2. CASE p # "panel"
      BY <1>13, <2>2 DEF Die, Parse, read_env
    <2> QED BY <2>1, <2>2
  <1>14. CASE UNCHANGED vars
    BY <1>0, <1>14 DEF vars, disk, procs
  <1> QED BY <1>1, <1>2, <1>3, <1>4, <1>5, <1>6, <1>7, <1>8, <1>9, <1>11, <1>12, <1>13,
             <1>14 DEF Next

\* Cycles come from the scheduler's job or the button, and from nothing else.
LEMMA CycleFromStart ==
    ASSUME ProcShape, [Next]_vars, "panel" \in Process, NEW s \in Starter,
           NEW x \in cycle'[<<"panel", s>>] \ cycle[<<"panel", s>>]
    PROVE  /\ x.settings \in get_settings("panel")
           /\ x.clients \in IF s = "job" THEN services["panel"] ELSE get_settings("panel")
  <1> USE DEF ProcShape
  <1>0. ASSUME UNCHANGED cycle PROVE FALSE
    BY <1>0
  <1>1. CASE (\E form \in Form : BeginSave(form)) \/ EndSave \/ SaveFails
    BY <1>0, <1>1 DEF BeginSave, EndSave, SaveFails, procs
  <1>2. CASE \E l \in Edit : HandEdit(l.key, l.value)
    BY <1>0, <1>2 DEF HandEdit, procs
  <1>3. CASE StartPanel \/ StartApi \/ StartCli \/ StartScheduler \/ UNCHANGED vars
    BY <1>0, <1>3 DEF StartPanel, StartApi, StartCli, StartScheduler, vars, procs
  <1>4. CASE StopScheduler
    BY <1>4 DEF StopScheduler
  <1>5. ASSUME NEW p \in Process, NEW r \in Starter, NEW clients, run_cycle(p, r, clients)
        PROVE  p = "panel" /\ r = s /\ x.settings \in get_settings(p) /\ x.clients \in clients
    <2>1. PICK c \in get_settings(p), b \in clients :
             cycle' = [cycle EXCEPT ![<<p, r>>] = {[settings |-> c, clients |-> b]}]
      BY <1>5 DEF run_cycle
    <2>2. p = "panel" /\ r = s
      BY <2>1
    <2> QED BY <2>1, <2>2
  <1>6. ASSUME NEW p \in Process, StartCycle(p)
        PROVE  p = "panel" /\ s = "job" /\ x.settings \in get_settings(p) /\ x.clients \in services[p]
    <2>1. run_cycle(p, "job", services[p]) /\ "job" \in Starter
      BY <1>6 DEF StartCycle, Starter
    <2> QED BY <1>5, <2>1
  <1>7. ASSUME NEW p \in Process, PressRun(p)
        PROVE  p = "panel" /\ s = "button" /\ x.settings \in get_settings(p)
                 /\ x.clients \in get_settings(p)
    <2>1. /\ run_cycle(p, "button", IF p = "api" THEN services[p] ELSE get_settings(p))
          /\ "button" \in Starter
      BY <1>7 DEF PressRun, Starter
    <2> QED BY <1>5, <2>1
  <1>8. ASSUME NEW p \in Process, Die(p) \/ \E r \in Starter : EndCycle(p, r) PROVE FALSE
    BY <1>8 DEF Die, NoCycle, EndCycle
  <1> QED BY <1>1, <1>2, <1>3, <1>4, <1>6, <1>7, <1>8 DEF Next

\* The clients of the panel's loop were built from the settings in force, or
\* are not the ones the cycle uses.
Rebuilt(s) == s = "button" \/ services["panel"] = cache["panel"]

DemoIfRebuilt ==
    "panel" \in Process =>
        \A s \in Starter : \A x \in cycle'[<<"panel", s>>] \ cycle[<<"panel", s>>] :
            note = "demo" /\ Rebuilt(s) => ~CanSpend(x.settings, x.clients)

(* "No real money" is true of every cycle started from the button, and of  *)
(* the loop's as soon as it has been started again after the save: clients *)
(* older than the save are the only way a demo spends.  (runtime.start)    *)
THEOREM DemoIsDemoWhenRebuilt == Spec => [][DemoIfRebuilt]_vars
  <1>1. Init => ProcShape /\ Current
    BY DEF Init, ProcShape, Alone, Confirmed, Starter, Current
  <1>2. ASSUME ProcShape, Noted, Current, [Next]_vars PROVE DemoIfRebuilt
    <2> SUFFICES ASSUME "panel" \in Process, NEW s \in Starter,
                        NEW x \in cycle'[<<"panel", s>>] \ cycle[<<"panel", s>>],
                        note = "demo", Rebuilt(s)
                 PROVE  ~CanSpend(x.settings, x.clients)
      BY DEF DemoIfRebuilt
    <2>1. PICK t \in Lines : file = {t} /\ Loadable(t)
      BY <1>2 DEF Current
    <2>2. cache["panel"] = {Settings(t)} /\ whole = {t}
      BY <1>2, <2>1 DEF Current, Parse, read_env
    <2>3. Settings(t).simulated
      BY <1>2, <2>2 DEF Noted, NoteIsTrue
    <2>4. get_settings("panel") = {Settings(t)}
      BY <2>2 DEF get_settings
    <2>5. x.clients = Settings(t)
      BY <1>2, <2>2, <2>4, CycleFromStart DEF Rebuilt, Starter
    <2> QED BY <2>3, <2>5 DEF CanSpend
  <1>3. ProcShape /\ Noted /\ Current /\ [Next]_vars => [DemoIfRebuilt]_vars
    BY <1>2
  <1> QED BY <1>1, <1>3, NotedInit, NotedStep, ProcStep, CurrentStep, PTL DEF Spec
=============================================================================
