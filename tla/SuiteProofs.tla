---------------------------- MODULE SuiteProofs -----------------------------
(***************************************************************************)
(* Proofs about components of Suite, for every value of their constants.   *)
(***************************************************************************)
EXTENDS Suite, FiniteSetsExt, FiniteSetTheorems, WellFoundedInduction, TLAPS

-----------------------------------------------------------------------------
(* Imports of products (ChannelImports).                                   *)

(* An import of the channel itself that runs, and one that has not come to *)
(* its end.                                                                *)
Running(i) == i \notin retried /\ phase[i] \in {"queued", "listed"}
Open(i) == i \notin retried /\ phase[i] \in {"queued", "listed", "unlisted", "unended"}

(* An import with no other beside it has raised the flag, and no other is  *)
(* under way; the last job of an import is not the channel's when it has   *)
(* ended.  An import that was retried from the log has listed at once.     *)
ImportTypes ==
    /\ active \in BOOLEAN /\ syncing \in BOOLEAN
    /\ phase \in [Peers -> Import!Phases]
    /\ waits \in [Peers -> Nat]

ImportInv ==
    /\ ImportTypes
    /\ syncing => \E i \in Peers : Open(i)
    /\ \A i \in Peers \ beside : Open(i) =>
            syncing /\ \A k \in Peers : Running(k) => k = i
    /\ doneJob # None => doneJob \in Peers /\ phase[doneJob] \in {"listed", "unended"}
    /\ latest # None => latest \in Peers \ retried /\ phase[latest] # "none"
    /\ \A i \in retried : phase[i] \in {"listed", "unended", "over"}
    /\ \A i \in Peers : waits[i] # 0 => phase[i] \in {"listed", "unended"}

LEMMA ImportSets ==
    /\ \A i : i \in Import!UnderWay <=> i \in Peers /\ Running(i)
    /\ \A i : i \in Import!UnderWay \cup Import!Stuck <=> i \in Peers /\ Open(i)
    /\ \A i : i \in Import!Stuck => i \in Peers /\ Open(i) /\ ~Running(i)
BY DEF Import!UnderWay, Import!Stuck, Running, Open

(* Those that are said to be beside others when i begins.                  *)
LEMMA ImportWith ==
    ASSUME NEW i \in Peers
    PROVE  /\ \A k \in Peers \ {i} : Open(k) => k \in Import!With(i)
           /\ \A k \in Peers \ {i} : Running(k) => i \in Import!With(i)
<1>1. ASSUME NEW k \in Peers \ {i}, Open(k) PROVE k \in Import!With(i)
  <2>1. k \in Import!UnderWay \/ k \in Import!Stuck
    BY <1>1, ImportSets
  <2> QED BY <1>1, <2>1 DEF Import!With
<1>2. ASSUME NEW k \in Peers \ {i}, Running(k) PROVE i \in Import!With(i)
  <2>1. k \in Import!UnderWay
    BY <1>2, ImportSets
  <2> QED BY <2>1 DEF Import!With
<1> QED BY <1>1, <1>2

LEMMA ImportInit == Import!Init => ImportInv
<1> SUFFICES ASSUME Import!Init PROVE ImportInv
  OBVIOUS
<1>1. ImportTypes
  BY DEF Import!Init, ImportTypes, Import!Phases
<1>2. \A i \in Peers : ~Open(i) /\ waits[i] = 0
  BY DEF Import!Init, Open
<1> QED BY <1>1, <1>2 DEF Import!Init, ImportInv

LEMMA ImportNext == ImportInv /\ Import!Next => ImportInv'
<1> SUFFICES ASSUME ImportInv, Import!Next PROVE ImportInv'
  OBVIOUS
<1> USE DEF ImportInv, ImportTypes, Import!Phases, Running, Open
<1>0. ASSUME syncing' = FALSE, active' = active, phase' \in [Peers -> Import!Phases],
             waits' \in [Peers -> Nat], \A k \in Peers \ beside' : ~Open(k)',
             doneJob' # None => doneJob' \in Peers /\ phase'[doneJob'] \in {"listed", "unended"},
             latest' # None => latest' \in Peers \ retried' /\ phase'[latest'] # "none",
             \A k \in retried' : phase'[k] \in {"listed", "unended", "over"},
             \A k \in Peers : waits'[k] # 0 => phase'[k] \in {"listed", "unended"}
      PROVE  ImportInv'
  <2>1. syncing' \in BOOLEAN /\ ~syncing'
    BY <1>0
  <2>2. ImportTypes'
    BY <1>0, <2>1
  <2> QED BY <1>0, <2>1, <2>2
<1>1. ASSUME NEW i \in Peers, Import!Request(i) PROVE ImportInv'
  <2>1. /\ \A k \in Peers \ {i} : Open(k) => k \in Import!With(i)
        /\ \A k \in Peers \ {i} : Running(k) => i \in Import!With(i)
    BY ImportWith
  <2> QED BY <1>1, <2>1 DEF Import!Request
<1>2. ASSUME NEW i \in Peers, Import!FindNothing(i) PROVE ImportInv'
  <2>1. Running(i)
    BY <1>2 DEF Import!FindNothing
  <2>2. \A k \in Peers \ beside : Open(k) => k = i
    BY <2>1
  <2>3. \A k \in Peers \ beside' : ~Open(k)'
    BY <1>2, <2>2 DEF Import!FindNothing
  <2>4. syncing' = FALSE /\ active' = active
    BY <1>2 DEF Import!FindNothing
  <2>5. phase' \in [Peers -> Import!Phases] /\ waits' \in [Peers -> Nat]
    BY <1>2 DEF Import!FindNothing
  <2>6. doneJob' # None => doneJob' \in Peers /\ phase'[doneJob'] \in {"listed", "unended"}
    BY <1>2 DEF Import!FindNothing
  <2>7. latest' # None => latest' \in Peers \ retried' /\ phase'[latest'] # "none"
    BY <1>2 DEF Import!FindNothing
  <2>8. \A k \in retried' : phase'[k] \in {"listed", "unended", "over"}
    BY <1>2 DEF Import!FindNothing
  <2>9. \A k \in Peers : waits'[k] # 0 => phase'[k] \in {"listed", "unended"}
    BY <1>2 DEF Import!FindNothing
  <2> QED BY ONLY <1>0, <2>3, <2>4, <2>5, <2>6, <2>7, <2>8, <2>9
<1>3. ASSUME NEW i \in Peers, Import!FailToList(i) PROVE ImportInv'
  BY <1>3 DEF Import!FailToList
<1>4. ASSUME NEW i \in Peers, Import!EndJob(i) PROVE ImportInv'
  BY <1>4 DEF Import!EndJob
<1>5. ASSUME NEW i \in Peers, Import!DoneSynching(i) PROVE ImportInv'
  <2>1. Running(i)
    BY <1>5 DEF Import!DoneSynching
  <2>2. \A k \in Peers \ beside : Open(k) => k = i
    BY <2>1
  <2>3. \A k \in Peers \ beside' : ~Open(k)'
    BY <1>5, <2>2 DEF Import!DoneSynching
  <2>4. syncing' = FALSE /\ active' = active
    BY <1>5 DEF Import!DoneSynching
  <2>5. phase' \in [Peers -> Import!Phases] /\ waits' \in [Peers -> Nat]
    BY <1>5 DEF Import!DoneSynching
  <2>6. doneJob' # None => doneJob' \in Peers /\ phase'[doneJob'] \in {"listed", "unended"}
    BY <1>5 DEF Import!DoneSynching
  <2>7. latest' # None => latest' \in Peers \ retried' /\ phase'[latest'] # "none"
    BY <1>5 DEF Import!DoneSynching
  <2>8. \A k \in retried' : phase'[k] \in {"listed", "unended", "over"}
    BY <1>5 DEF Import!DoneSynching
  <2>9. \A k \in Peers : waits'[k] # 0 => phase'[k] \in {"listed", "unended"}
    BY <1>5 DEF Import!DoneSynching
  <2> QED BY ONLY <1>0, <2>3, <2>4, <2>5, <2>6, <2>7, <2>8, <2>9
<1>6. ASSUME NEW i \in Peers, Import!FailToEnd(i) PROVE ImportInv'
  BY <1>6 DEF Import!FailToEnd
<1>7. ASSUME NEW i \in Peers, Import!Requeue(i) PROVE ImportInv'
  <2>1. /\ \A k \in Peers \ {i} : Open(k) => k \in Import!With(i)
        /\ \A k \in Peers \ {i} : Running(k) => i \in Import!With(i)
    BY ImportWith
  <2> QED BY <1>7, <2>1 DEF Import!Requeue
<1>8. ASSUME NEW i \in Peers, NEW n \in 1..MaxJobs, Import!List(i, n) PROVE ImportInv'
  BY <1>8 DEF Import!List
<1>9. ASSUME Import!Disconnect \/ Import!Reconnect PROVE ImportInv'
  <2>1. /\ active' \in BOOLEAN
        /\ UNCHANGED <<syncing, doneJob, phase, waits, retried, beside, latest>>
    BY <1>9 DEF Import!Disconnect, Import!Reconnect
  <2> QED BY <2>1
<1>10. ASSUME NEW i \in Peers, NEW n \in 1..MaxJobs, Import!Retry(i, n) PROVE ImportInv'
  BY <1>10 DEF Import!Retry
<1>11. ASSUME NEW i \in Peers, Import!RetryInVain(i) PROVE ImportInv'
  <2>1. \A k \in Peers : Open(k) => k \in Import!UnderWay \cup Import!Stuck
    BY ImportSets
  <2>2. \A k \in Peers \ beside' : ~Open(k)
    BY <1>11, <2>1 DEF Import!RetryInVain
  <2>3. \A k \in Peers \ beside' : ~Open(k)'
    BY <1>11, <2>2 DEF Import!RetryInVain
  <2>4. syncing' = FALSE /\ active' = active
    BY <1>11 DEF Import!RetryInVain
  <2>5. phase' \in [Peers -> Import!Phases] /\ waits' \in [Peers -> Nat]
    BY <1>11 DEF Import!RetryInVain
  <2>6. doneJob' # None => doneJob' \in Peers /\ phase'[doneJob'] \in {"listed", "unended"}
    BY <1>11 DEF Import!RetryInVain
  <2>7. latest' # None => latest' \in Peers \ retried' /\ phase'[latest'] # "none"
    BY <1>11 DEF Import!RetryInVain
  <2>8. \A k \in retried' : phase'[k] \in {"listed", "unended", "over"}
    BY <1>11 DEF Import!RetryInVain
  <2>9. \A k \in Peers : waits'[k] # 0 => phase'[k] \in {"listed", "unended"}
    BY <1>11 DEF Import!RetryInVain
  <2> QED BY ONLY <1>0, <2>3, <2>4, <2>5, <2>6, <2>7, <2>8, <2>9
<1>12. ASSUME NEW i \in Peers, Import!RequeueJob(i) PROVE ImportInv'
  BY <1>12 DEF Import!RequeueJob
<1> QED BY <1>1, <1>2, <1>3, <1>4, <1>5, <1>6, <1>7, <1>8, <1>9, <1>10,
           <1>11, <1>12 DEF Import!Next

LEMMA ImportTold == ImportInv => Import!FlagTellsImport /\ Import!SuccessTold
<1> SUFFICES ASSUME ImportInv PROVE Import!FlagTellsImport /\ Import!SuccessTold
  OBVIOUS
<1>1. Import!FlagTellsImport
  <2>1. \A i : Running(i) => Open(i)
    BY DEF Running, Open
  <2> QED BY <2>1, ImportSets DEF ImportInv, Import!FlagTellsImport
<1>2. Import!SuccessTold
  BY DEF ImportInv, ImportTypes, Import!Phases, Open, Import!SuccessTold, Import!Told
<1> QED BY <1>1, <1>2

LEMMA ImportSteps ==
    [Next]_vars /\ part' = "imports" =>
        part = "imports" /\ (Import!Next \/ UNCHANGED OfImports)
BY DEF Next, vars

(* A channel tells of the imports that are under way, and of the success   *)
(* of the last one (is_in_syncing, is_importing_done).                     *)
THEOREM ImportsAreTold == Spec => []ImportsTold
<1> DEFINE I == part = "imports" => ImportInv
<1>1. Init => I
  BY ImportInit DEF Init
<1>2. I /\ [Next]_vars => I'
  <2> SUFFICES ASSUME I, [Next]_vars, part' = "imports" PROVE ImportInv'
    OBVIOUS
  <2>1. ImportInv /\ (Import!Next \/ UNCHANGED OfImports)
    BY ImportSteps
  <2>2. CASE Import!Next
    BY <2>1, <2>2, ImportNext
  <2>3. CASE UNCHANGED OfImports
    BY <2>1, <2>3 DEF OfImports, ImportInv, ImportTypes, Running, Open
  <2> QED BY <2>1, <2>2, <2>3
<1>3. I => ImportsTold
  BY ImportTold DEF ImportsTold
<1> QED BY <1>1, <1>2, <1>3, PTL DEF Spec

-----------------------------------------------------------------------------
(* The log of a job (Logs).                                                *)

Outcomes == {"done", "failed"}

LogTypes ==
    /\ job \in [Log!Parts -> {"none", "pending", "started", "done", "failed"}]
    /\ log \in Log!LogRecords \cup {None}
    /\ hooks \subseteq [n : Nat, status : Outcomes]
    /\ outcomes \in Nat /\ written \in Nat /\ requeues \in Nat /\ accidents \in Nat
    /\ record \in BOOLEAN /\ byHand \in BOOLEAN /\ wasDone \in BOOLEAN /\ lost \in BOOLEAN

(* The outcome n of the jobs, when none was requeued: first the main one's. *)
OutcomeIs(n, status) ==
    \/ n = 1 /\ job["main"] = status
    \/ n = 2 /\ job["sub"] = status

(* Which outcomes there were follows from the states of the jobs.          *)
InTurn ==
    \/ outcomes = 0 /\ job["main"] \in {"pending", "started"} /\ job["sub"] = "none"
    \/ outcomes = 1 /\ job["main"] = "failed" /\ job["sub"] = "none"
    \/ outcomes = 1 /\ job["main"] = "done" /\ job["sub"] \in {"none", "pending", "started"}
    \/ outcomes = 2 /\ job["main"] = "done" /\ job["sub"] \in Outcomes

(* What a log tells of success, and that it is resolved, has its reasons.  *)
LogReasons ==
    /\ log # None /\ log.status = "done" =>
          wasDone /\ (log.linked \/ accidents > 0) /\ (log.resolved \/ byHand)
    /\ log # None /\ log.resolved => byHand \/ wasDone
    /\ log = None => wasDone

(* Without a lost hook all outcomes are written, or will be, and the log   *)
(* tells the last that was.                                                *)
LogTells ==
    /\ InTurn
    /\ \A h \in hooks : OutcomeIs(h.n, h.status)
    /\ written =< outcomes
    /\ ~lost => \A n \in 1..outcomes : n =< written \/ \E h \in hooks : h.n = n
    /\ log # None => \/ written = 0 /\ log.status = "draft"
                    \/ OutcomeIs(written, log.status)

LogInv == LogTypes /\ LogReasons /\ (requeues = 0 => LogTells)

(* What a log may say is a log.                                            *)
LEMMA LogRecordsFine ==
    /\ \A r \in Log!LogRecords :
          /\ r # None /\ r.status \in {"draft", "done", "failed"}
          /\ r.resolved \in BOOLEAN /\ r.linked \in BOOLEAN
    /\ \A s \in {"draft", "done", "failed"}, r, l \in BOOLEAN :
          [status |-> s, resolved |-> r, linked |-> l] \in Log!LogRecords
<1>1. \A r \in Log!LogRecords : r # None
  BY LogsGiven DEF Log!LogsAssumption
<1>2. \A r \in Log!LogRecords :
          /\ r.status \in {"draft", "done", "failed"}
          /\ r.resolved \in BOOLEAN /\ r.linked \in BOOLEAN
  BY DEF Log!LogRecords
<1>3. \A s \in {"draft", "done", "failed"}, r, l \in BOOLEAN :
          [status |-> s, resolved |-> r, linked |-> l] \in Log!LogRecords
  BY DEF Log!LogRecords
<1> QED BY <1>1, <1>2, <1>3

LEMMA LogInit == Log!Init => LogInv
<1> SUFFICES ASSUME Log!Init PROVE LogInv
  OBVIOUS
<1> USE DEF Log!Init, Log!Parts, Outcomes
<1>1. log \in Log!LogRecords /\ log.status = "draft" /\ log.resolved = FALSE
  BY LogRecordsFine
<1>2. log # None
  BY <1>1, LogRecordsFine
<1>3. LogTypes
  BY <1>1 DEF LogTypes
<1>4. LogReasons
  BY <1>1, <1>2 DEF LogReasons
<1>5. LogTells
  BY <1>1 DEF LogTells, InTurn, OutcomeIs
<1> QED BY <1>3, <1>4, <1>5 DEF LogInv

(* A job ends, and its hook will tell.                                     *)
LEMMA LogOutcome ==
    ASSUME LogInv, NEW p \in Log!Parts, Log!Succeed(p) \/ Log!Fail(p)
    PROVE  LogInv'
<1> USE DEF Log!Parts, Outcomes
<1> PICK status \in Outcomes :
      /\ job[p] = "started"
      /\ \/ job' = [job EXCEPT ![p] = status]
         \/ /\ p = "main" /\ status = "done" /\ job["sub"] = "none"
            /\ job' = [job EXCEPT !["main"] = "done", !["sub"] = "pending"]
      /\ outcomes' = outcomes + 1
      /\ hooks' = hooks \cup {[n |-> outcomes + 1, status |-> status]}
      /\ record' \in {record, TRUE}
      /\ UNCHANGED <<log, written, requeues, accidents, byHand, wasDone, lost>>
  BY DEF Log!Succeed, Log!Fail, Log!Outcome, Log!history
<1>t. LogTypes
  BY DEF LogInv
<1>h. \A h \in hooks : h.n \in Nat /\ h.status \in Outcomes
  BY <1>t DEF LogTypes
<1> PICK hook : hook = [n |-> outcomes + 1, status |-> status]
  OBVIOUS
<1>k. hook.n = outcomes + 1 /\ hook.status = status /\ hook \in [n : Nat, status : Outcomes]
  BY <1>t DEF LogTypes
<1>l. hooks' = hooks \cup {hook}
  OBVIOUS
<1>j. /\ job'["main"] = IF p = "main" THEN status ELSE job["main"]
      /\ \/ job'["sub"] = IF p = "sub" THEN status ELSE job["sub"]
         \/ p = "main" /\ status = "done" /\ job["sub"] = "none" /\ job'["sub"] = "pending"
  BY <1>t DEF LogTypes
<1>1. LogTypes'
  <2>1. job' \in [Log!Parts -> {"none", "pending", "started", "done", "failed"}]
    BY <1>t DEF LogTypes
  <2>2. hooks' \subseteq [n : Nat, status : Outcomes]
    BY <1>t, <1>k, <1>l DEF LogTypes
  <2> QED BY <1>t, <2>1, <2>2 DEF LogTypes
<1>2. LogReasons'
  BY DEF LogInv, LogReasons
<1>3. ASSUME requeues = 0 PROVE LogTells'
  <2>1. LogTells
    BY <1>3 DEF LogInv
  <2>2. InTurn'
    BY <1>j, <2>1 DEF LogTells, InTurn
  <2>3. \A n, x : OutcomeIs(n, x) /\ x \in Outcomes => OutcomeIs(n, x)'
    BY <1>j DEF OutcomeIs
  <2>4. \A h \in hooks' : OutcomeIs(h.n, h.status)'
    <3>1. \A h \in hooks : OutcomeIs(h.n, h.status)'
      BY <1>h, <2>1, <2>3 DEF LogTells
    <3>2. OutcomeIs(hook.n, hook.status)'
      <4>1. \/ outcomes' = 1 /\ job'["main"] = status
            \/ outcomes' = 2 /\ job'["sub"] = status
        <5>1. CASE p = "main"
          <6>1. outcomes = 0
            BY <5>1, <2>1 DEF LogTells, InTurn
          <6> QED BY <5>1, <6>1, <1>j
        <5>2. CASE p = "sub"
          <6>1. outcomes = 1
            BY <5>2, <2>1 DEF LogTells, InTurn
          <6> QED BY <5>2, <6>1, <1>j
        <5> QED BY <5>1, <5>2
      <4> QED BY <4>1, <1>k DEF OutcomeIs
    <3> QED BY <3>1, <3>2, <1>l
  <2>5. ~lost => \A n \in 1..(outcomes + 1) : n =< written \/ \E h \in hooks' : h.n = n
    <3>1. \A n \in 1..(outcomes + 1) : n \in 1..outcomes \/ n = outcomes + 1
      BY <1>t DEF LogTypes
    <3> QED BY <3>1, <1>k, <1>l, <2>1 DEF LogTells
  <2>6. log # None => \/ written = 0 /\ log.status = "draft"
                     \/ OutcomeIs(written, log.status)'
    BY <2>1, <1>j DEF LogTells, OutcomeIs, InTurn
  <2>7. written =< outcomes + 1
    BY <2>1, <1>t DEF LogTells, LogTypes
  <2> QED BY <2>2, <2>4, <2>5, <2>6, <2>7 DEF LogTells
<1> QED BY <1>1, <1>2, <1>3 DEF LogInv

(* A hook writes the log.                                                  *)
LEMMA LogWritten ==
    ASSUME LogInv, NEW h \in hooks, Log!WriteLog(h)
    PROVE  LogInv'
<1> USE DEF Log!WriteLog, Outcomes
<1>t. LogTypes /\ h.n \in Nat /\ h.status \in Outcomes
  BY DEF LogInv, LogTypes
<1>r. ASSUME requeues = 0
      PROVE  /\ InTurn'
             /\ \A g \in hooks' : OutcomeIs(g.n, g.status)'
             /\ written' =< outcomes' /\ OutcomeIs(written, h.status)'
             /\ ~lost' => \A n \in 1..outcomes' : n =< written' \/ \E g \in hooks' : g.n = n
  <2>1. LogTells
    BY <1>r DEF LogInv
  <2>2. InTurn' /\ \A n, s : OutcomeIs(n, s) <=> OutcomeIs(n, s)'
    BY <2>1 DEF LogTells, InTurn, OutcomeIs
  <2>3. OutcomeIs(h.n, h.status)
    BY <2>1 DEF LogTells
  <2>4. OutcomeIs(written, h.status)'
    BY <2>3 DEF OutcomeIs
  <2>5. h.n =< outcomes
    BY <2>1, <2>3, <1>t DEF LogTells, InTurn, OutcomeIs
  <2>6. \A g \in hooks : g.n \in Nat
    BY <1>t DEF LogTypes
  <2>7. ASSUME ~lost', NEW n \in 1..outcomes
        PROVE  n =< h.n \/ \E g \in hooks' : g.n = n
    <3>0. ~(lost \/ h.n < written)
      BY <2>7, Zenon
    <3>1. ~lost /\ written =< h.n
      BY <1>t, <3>0 DEF LogTypes
    <3>2. n =< written \/ \E g \in hooks : g.n = n
      BY <3>1, <2>1 DEF LogTells
    <3> QED BY <3>1, <3>2, <1>t DEF LogTypes
  <2>8. \A g \in hooks' : OutcomeIs(g.n, g.status)'
    BY <2>1, <2>2 DEF LogTells
  <2> QED BY <2>2, <2>4, <2>5, <2>7, <2>8
<1>w. CASE log = None \/ Log!Deletes(h.status)
  <2>1. LogTypes'
    BY <1>w, <1>t DEF LogTypes
  <2>2. LogReasons'
    BY <1>w, <1>t DEF LogInv, LogReasons, Log!Deletes
  <2>3. ASSUME requeues = 0 PROVE LogTells'
    BY <1>w, <1>r, <2>3 DEF LogTells
  <2> QED BY <2>1, <2>2, <2>3 DEF LogInv
<1>u. CASE ~(log = None \/ Log!Deletes(h.status))
  <2>1. log' = [status |-> h.status, linked |-> record, resolved |-> log.resolved \/ h.status = "done"]
    BY <1>u DEF Log!Updated
  <2>2. log.resolved \in BOOLEAN /\ log # None
    BY <1>u, <1>t, LogRecordsFine DEF LogTypes
  <2>3. log' \in Log!LogRecords
    <3> DEFINE res == log.resolved \/ h.status = "done"
    <3>1. res \in BOOLEAN /\ record \in BOOLEAN /\ h.status \in {"draft", "done", "failed"}
      BY <1>t DEF LogTypes
    <3>2. log' = [status |-> h.status, resolved |-> res, linked |-> record]
      BY <2>1
    <3> HIDE DEF res
    <3> QED BY <3>1, <3>2, LogRecordsFine
  <2>4. LogTypes'
    BY <1>t, <2>3 DEF LogTypes
  <2>5. h.status = "done" => record
    BY <1>u DEF Log!Deletes
  <2>6. /\ log'.status = h.status /\ log'.linked = record
        /\ log'.resolved = (log.resolved \/ h.status = "done") /\ log' # None
    BY <2>1, <2>3, LogRecordsFine
  <2>7. LogReasons'
    BY <1>t, <2>2, <2>5, <2>6 DEF LogInv, LogReasons, LogTypes
  <2>8. ASSUME requeues = 0 PROVE LogTells'
    BY <1>r, <2>8, <2>6 DEF LogTells
  <2> QED BY <2>4, <2>7, <2>8 DEF LogInv
<1> QED BY <1>w, <1>u

LEMMA LogNext == LogInv /\ Log!Next => LogInv'
<1> SUFFICES ASSUME LogInv, Log!Next PROVE LogInv'
  OBVIOUS
<1> USE LogsGiven DEF LogInv, LogTypes, LogReasons, LogTells, Log!Parts, Log!LogRecords,
        Log!LogsAssumption, InTurn, OutcomeIs, Outcomes, Log!history
<1>1. ASSUME NEW p \in Log!Parts, Log!Start(p) PROVE LogInv'
  BY <1>1 DEF Log!Start
<1>2. ASSUME NEW p \in Log!Parts, Log!Succeed(p) \/ Log!Fail(p) PROVE LogInv'
  BY <1>2, LogOutcome
<1>4. ASSUME NEW p \in Log!Parts, Log!Requeue(p) PROVE LogInv'
  BY <1>4 DEF Log!Requeue
<1>5. ASSUME NEW h \in hooks, Log!WriteLog(h) PROVE LogInv'
  BY <1>5, LogWritten
<1>6. ASSUME NEW h \in hooks, Log!LoseHook(h) PROVE LogInv'
  BY <1>6 DEF Log!LoseHook
<1>7. ASSUME Log!Run PROVE LogInv'
  BY <1>7 DEF Log!Run, Log!MayRun
<1>8. ASSUME Log!RerunEnds PROVE LogInv'
  BY <1>8, ZenonT(30) DEF Log!RerunEnds
<1>9. ASSUME Log!Resolve PROVE LogInv'
  BY <1>9 DEF Log!Resolve
<1>10. ASSUME Log!ClearSuccessful PROVE LogInv'
  BY <1>10 DEF Log!ClearSuccessful
<1>11. ASSUME Log!DeleteRecord PROVE LogInv'
  <2>1. CASE log = None
    <3>1. /\ log' = None /\ record' = FALSE /\ accidents' \in Nat
          /\ UNCHANGED <<job, hooks, outcomes, written, requeues, byHand, wasDone, lost>>
      BY <1>11, <2>1 DEF Log!DeleteRecord
    <3> QED BY <2>1, <3>1
  <2>2. CASE log # None
    <3>1. log' = [log EXCEPT !.linked = FALSE] /\ log \in Log!LogRecords
      BY <1>11, <2>2 DEF Log!DeleteRecord
    <3>2. log' \in Log!LogRecords /\ log' # None /\ log'.status = log.status /\ log'.resolved = log.resolved
      BY <3>1
    <3>3. accidents' > 0 /\ accidents' \in Nat
      BY <1>11 DEF Log!DeleteRecord
    <3> HIDE DEF Log!LogRecords
    <3>4. LogTypes'
      BY <1>11, <3>2, <3>3 DEF Log!DeleteRecord
    <3>5. LogReasons'
      BY <1>11, <2>2, <3>2, <3>3 DEF Log!DeleteRecord
    <3>6. ASSUME requeues' = 0 PROVE LogTells'
      BY <1>11, <2>2, <3>2, <3>6 DEF Log!DeleteRecord
    <3> QED BY <3>4, <3>5, <3>6 DEF LogInv
  <2> QED BY <2>1, <2>2
<1> QED BY <1>1, <1>2, <1>4, <1>5, <1>6, <1>7, <1>8, <1>9, <1>10, <1>11 DEF Log!Next

LEMMA LogTold == LogInv => Log!FailuresTold /\ Log!SuccessIsTrue
BY DEF LogInv, LogTypes, LogReasons, LogTells, Log!Parts, Log!LogRecords, InTurn, OutcomeIs,
       Outcomes, Log!FailuresTold, Log!SuccessIsTrue

LEMMA LogSteps ==
    [Next]_vars /\ part' = "logs" =>
        part = "logs" /\ (Log!Next \/ UNCHANGED OfLog)
BY DEF Next, vars

(* The log of a job tells of its failure and of no success that there was  *)
(* not (update_status).                                                    *)
THEOREM LogIsTrue == Spec => []LogsTell
<1> DEFINE I == part = "logs" => LogInv
<1>1. Init => I
  BY LogInit DEF Init
<1>2. I /\ [Next]_vars => I'
  <2> SUFFICES ASSUME I, [Next]_vars, part' = "logs" PROVE LogInv'
    OBVIOUS
  <2>1. LogInv /\ (Log!Next \/ UNCHANGED OfLog)
    BY LogSteps
  <2>2. CASE Log!Next
    BY <2>1, <2>2, LogNext
  <2>3. CASE UNCHANGED OfLog
    BY <2>1, <2>3 DEF OfLog, LogInv, LogTypes, LogReasons, LogTells, InTurn, OutcomeIs
  <2> QED BY <2>1, <2>2, <2>3
<1>3. I => LogsTell
  BY LogTold DEF LogsTell
<1> QED BY <1>1, <1>2, <1>3, PTL DEF Spec

-----------------------------------------------------------------------------
(* Jobs with an identity key (JobIdentity).                                *)

IdentityTypes ==
    /\ trans \in [Transactions ->
          [phase : {"new", "open", "committed", "gone"},
           view : [Peers -> Identity!Rows \cup {None}], own : SUBSET Peers,
           answer : Peers \cup {None}, context : Identity!Contexts]]
    /\ row \in [Peers -> Identity!Rows \cup {None}]
    /\ work \in [Peers -> SUBSET Transactions]
    /\ again \subseteq Peers /\ missed \subseteq Transactions

(* Does not wait any more, unless it was put back.                         *)
Past(j) ==
    /\ row[j] # None
    /\ row[j].state \in Identity!Waiting => j \in again

(* What a transaction has seen is there; what it has seen past remains so. *)
SeenIsThere ==
    \A t \in Transactions, j \in Peers : trans[t].view[j] # None =>
        /\ row[j] # None
        /\ trans[t].view[j].state \notin Identity!Waiting => Past(j)

(* A transaction makes a job only if no other waits in what it sees; the   *)
(* jobs of open transactions are not there yet, and are no other's.        *)
OwnIsNew ==
    /\ \A t \in Transactions, j \in Peers :
          j \in trans[t].own =>
             /\ trans[t].phase \in {"open", "committed"}
             /\ trans[t].phase = "open" => row[j] = None
             /\ \A i \in Peers : trans[t].view[i] # None =>
                   trans[t].view[i].state \notin Identity!Waiting
    /\ \A s, t \in Transactions : s # t => trans[s].own \cap trans[t].own = {}

(* Its answer is its own job or one that waits in what it sees.            *)
AnswerFits ==
    \A t \in Transactions : trans[t].answer # None =>
        /\ trans[t].phase \in {"open", "committed"}
        /\ trans[t].phase = "open" =>
              \/ trans[t].answer \in trans[t].own
              \/ /\ trans[t].view[trans[t].answer] # None
                 /\ trans[t].view[trans[t].answer].state \in Identity!Waiting
        /\ trans[t].phase = "committed" => row[trans[t].answer] # None

(* The maker of a job saw others only when they were past.                 *)
KnewThePast == \A j \in Peers : row[j] # None => \A i \in row[j].knew : Past(i)

IdentityInv ==
    /\ IdentityTypes /\ SeenIsThere /\ OwnIsNew /\ AnswerFits /\ KnewThePast
    /\ Identity!CallsServed

LEMMA IdentityFacts ==
    /\ None \notin Peers
    /\ \A r \in Identity!Rows :
          /\ r # None /\ r.state \in {"pending", "enqueued", "started", "done", "failed"}
          /\ r.context \in Identity!Contexts /\ r.knew \subseteq Peers
    /\ \A s \in {"pending", "enqueued", "started", "done", "failed"},
          c \in Identity!Contexts, k \in SUBSET Peers :
          [state |-> s, context |-> c, knew |-> k] \in Identity!Rows
<1>1. None \notin Peers /\ None \notin Identity!Rows
  BY IdentityGiven DEF Identity!JobIdentityAssumption
<1> HIDE DEF Identity!Contexts
<1>2. \A r \in Identity!Rows :
          /\ r.state \in {"pending", "enqueued", "started", "done", "failed"}
          /\ r.context \in Identity!Contexts /\ r.knew \subseteq Peers
  BY DEF Identity!Rows
<1>3. \A s \in {"pending", "enqueued", "started", "done", "failed"},
          c \in Identity!Contexts, k \in SUBSET Peers :
          [state |-> s, context |-> c, knew |-> k] \in Identity!Rows
  BY DEF Identity!Rows
<1> QED BY <1>1, <1>2, <1>3

LEMMA IdentityInit == Identity!Init => IdentityInv
<1> SUFFICES ASSUME Identity!Init PROVE IdentityInv
  OBVIOUS
<1>1. \A t \in Transactions :
         /\ trans[t].phase = "new" /\ trans[t].own = {} /\ trans[t].answer = None
         /\ \A j \in Peers : trans[t].view[j] = None
  BY DEF Identity!Init
<1>2. \A j \in Peers : row[j] = None
  BY DEF Identity!Init
<1>3. IdentityTypes
  <2>1. {} \in Identity!Contexts
    BY DEF Identity!Contexts
  <2> QED BY <2>1 DEF Identity!Init, IdentityTypes
<1> QED
  BY <1>1, <1>2, <1>3 DEF IdentityInv, SeenIsThere, OwnIsNew, AnswerFits, KnewThePast,
     Identity!CallsServed, Identity!Committed

(* A job's state changes; it waits again only if it is put back.           *)
LEMMA IdentityRow ==
    ASSUME IdentityInv, NEW j \in Peers,
           NEW s \in {"pending", "enqueued", "started", "done", "failed"},
           row[j] # None, row' = [row EXCEPT ![j].state = s],
           s \in Identity!Waiting => row[j].state \in Identity!Waiting \/ j \in again',
           again \subseteq again', again' \subseteq Peers,
           UNCHANGED <<trans, missed>>,
           \/ s # "done" /\ work' = work
           \/ work' = [work EXCEPT ![j] = Identity!Committed]
    PROVE  IdentityInv'
<1>t. IdentityTypes
  BY DEF IdentityInv
<1>1. row[j] \in Identity!Rows
  BY <1>t DEF IdentityTypes
<1>2. /\ row'[j] \in Identity!Rows /\ row'[j] # None
      /\ row'[j].state = s /\ row'[j].knew = row[j].knew
  <2>1. row'[j] = [row[j] EXCEPT !.state = s]
    BY <1>t DEF IdentityTypes
  <2>2. row[j].context \in Identity!Contexts /\ row[j].knew \in SUBSET Peers
    BY <1>1, IdentityFacts
  <2>3. row'[j] = [state |-> s, context |-> row[j].context, knew |-> row[j].knew]
    BY <2>1, <1>1 DEF Identity!Rows
  <2>4. row'[j] \in Identity!Rows
    BY <2>2, <2>3, IdentityFacts
  <2> QED BY <2>3, <2>4, IdentityFacts
<1>3. \A k \in Peers : k # j => row'[k] = row[k]
  BY <1>t DEF IdentityTypes
<1>4. \A k \in Peers : row'[k] = None <=> row[k] = None
  BY <1>2, <1>3
<1>5. \A k \in Peers : Past(k) => Past(k)'
  BY <1>2, <1>3 DEF Past
<1>6. IdentityTypes'
  <2>1. row' \in [Peers -> Identity!Rows \cup {None}]
    BY <1>t, <1>2 DEF IdentityTypes
  <2>2. work' \in [Peers -> SUBSET Transactions]
    BY <1>t DEF IdentityTypes, Identity!Committed
  <2> QED BY <1>t, <2>1, <2>2 DEF IdentityTypes
<1>7. SeenIsThere'
  BY <1>4, <1>5 DEF IdentityInv, SeenIsThere
<1>8. OwnIsNew'
  BY <1>4 DEF IdentityInv, OwnIsNew
<1>9. AnswerFits'
  <2>1. \A t \in Transactions : trans[t].answer # None => trans[t].answer \in Peers
    BY <1>t DEF IdentityTypes
  <2> QED BY <1>4, <2>1 DEF IdentityInv, AnswerFits
<1>10. KnewThePast'
  <2>1. \A k \in Peers : row[k] # None => row[k].knew \subseteq Peers /\ row'[k].knew = row[k].knew
    BY <1>t, <1>2, <1>3, IdentityFacts DEF IdentityTypes
  <2> QED BY <1>4, <1>5, <2>1 DEF IdentityInv, KnewThePast
<1>11. Identity!CallsServed'
  <2> SUFFICES ASSUME NEW t \in Transactions, trans[t].phase = "committed", t \notin missed,
                      trans[t].answer # None, row'[trans[t].answer] # None,
                      row'[trans[t].answer].state = "done"
               PROVE  t \in work'[trans[t].answer]
    BY DEF Identity!CallsServed, Identity!Committed, Identity!InState
  <2> DEFINE k == trans[t].answer
  <2>1. k \in Peers
    BY <1>t DEF IdentityTypes
  <2>2. t \in Identity!Committed
    BY DEF Identity!Committed
  <2>3. CASE k # j
    <3>1. t \in work[k]
      BY <2>1, <2>2, <2>3, <1>3 DEF IdentityInv, Identity!CallsServed, Identity!InState
    <3> QED BY <1>t, <3>1, <2>1, <2>3 DEF IdentityTypes
  <2>4. CASE k = j
    <3>1. work' = [work EXCEPT ![j] = Identity!Committed]
      BY <2>4, <1>2
    <3> QED BY <1>t, <3>1, <2>2, <2>4 DEF IdentityTypes
  <2> QED BY <2>3, <2>4
<1> QED BY <1>6, <1>7, <1>8, <1>9, <1>10, <1>11 DEF IdentityInv

LEMMA IdentityRuns ==
    ASSUME IdentityInv, NEW j \in Peers,
           \/ Identity!Send(j) \/ Identity!Start(j) \/ Identity!Perform(j)
           \/ Identity!Fail(j) \/ Identity!Again(j)
    PROVE  IdentityInv'
<1> USE DEF Identity!Becomes, Identity!InState
<1>t. IdentityTypes
  BY DEF IdentityInv
<1>1. CASE Identity!Send(j)
  BY <1>1, <1>t, IdentityRow DEF Identity!Send, Identity!Waiting, IdentityTypes
<1>2. CASE Identity!Start(j)
  BY <1>2, <1>t, IdentityRow DEF Identity!Start, Identity!Waiting, IdentityTypes
<1>3. CASE Identity!Fail(j)
  BY <1>3, <1>t, IdentityRow DEF Identity!Fail, Identity!Waiting, IdentityTypes
<1>4. CASE Identity!Again(j)
  BY <1>4, <1>t, IdentityRow DEF Identity!Again, Identity!Waiting, IdentityTypes
<1>5. CASE Identity!Perform(j)
  <2>1. Identity!RunsDirectly(Identity!JobContext(row[j].context))
    BY DEF Identity!RunsDirectly, Identity!JobContext
  <2> QED BY <1>5, <2>1, <1>t, IdentityRow DEF Identity!Perform, Identity!Waiting, IdentityTypes
<1> QED BY <1>1, <1>2, <1>3, <1>4, <1>5

(* A transaction begins, ends without its job, or is answered.             *)
LEMMA IdentityBegin ==
    ASSUME IdentityInv, NEW t \in Transactions, Identity!Begin(t)
    PROVE  IdentityInv'
<1>t. IdentityTypes
  BY DEF IdentityInv
<1>1. /\ trans[t].phase = "new" /\ UNCHANGED <<row, work, again, missed>>
      /\ trans' = [trans EXCEPT ![t].phase = "open", ![t].view = row]
  BY DEF Identity!Begin
<1>2. \A u \in Transactions : u # t => trans'[u] = trans[u]
  BY <1>1, <1>t DEF IdentityTypes
<1>3. trans'[t].phase = "open" /\ trans'[t].view = row /\ trans'[t].own = trans[t].own
      /\ trans'[t].answer = trans[t].answer
  BY <1>1, <1>t DEF IdentityTypes
<1>4. trans[t].own = {} /\ trans[t].answer = None
  <2>1. trans[t].own \subseteq Peers
    BY <1>t DEF IdentityTypes
  <2> QED BY <1>1, <2>1 DEF IdentityInv, OwnIsNew, AnswerFits
<1>5. IdentityTypes'
  <2>1. /\ trans[t].view \in [Peers -> Identity!Rows \cup {None}] /\ trans[t].own \subseteq Peers
        /\ trans[t].answer \in Peers \cup {None} /\ trans[t].context \in Identity!Contexts
    BY <1>t DEF IdentityTypes
  <2>2. trans'[t] = [phase |-> "open", view |-> row, own |-> trans[t].own,
                      answer |-> trans[t].answer, context |-> trans[t].context]
    BY <1>1, <1>t DEF IdentityTypes
  <2>3. trans' \in [Transactions ->
           [phase : {"new", "open", "committed", "gone"},
            view : [Peers -> Identity!Rows \cup {None}], own : SUBSET Peers,
            answer : Peers \cup {None}, context : Identity!Contexts]]
    <3>1. trans'[t] \in [phase : {"new", "open", "committed", "gone"},
                         view : [Peers -> Identity!Rows \cup {None}], own : SUBSET Peers,
                         answer : Peers \cup {None}, context : Identity!Contexts]
      BY <2>1, <2>2, <1>t DEF IdentityTypes
    <3>2. trans' = [trans EXCEPT ![t] = trans'[t]]
      BY <1>1, <1>t DEF IdentityTypes
    <3> QED BY <3>1, <3>2, <1>t DEF IdentityTypes
  <2> QED BY <1>1, <1>t, <2>3 DEF IdentityTypes
<1>6. SeenIsThere'
  BY <1>1, <1>2, <1>3 DEF IdentityInv, SeenIsThere, Past
<1>7. OwnIsNew'
  <2>1. \A u \in Transactions : trans'[u].own = trans[u].own
    BY <1>2, <1>3
  <2>2. \A u \in Transactions : trans[u].own # {} => trans'[u] = trans[u]
    BY <1>2, <1>4
  <2> QED BY <1>1, <2>1, <2>2 DEF IdentityInv, OwnIsNew
<1>8. AnswerFits'
  <2>1. \A u \in Transactions : trans'[u].answer # None => trans'[u] = trans[u]
    BY <1>2, <1>3, <1>4
  <2> QED BY <1>1, <2>1 DEF IdentityInv, AnswerFits
<1>9. KnewThePast'
  BY <1>1 DEF IdentityInv, KnewThePast, Past
<1>10. Identity!CallsServed'
  <2>1. \A u \in Identity!Committed' : u \in Identity!Committed /\ trans'[u] = trans[u]
    BY <1>2, <1>3 DEF Identity!Committed
  <2> QED BY <1>1, <2>1 DEF IdentityInv, Identity!CallsServed, Identity!InState
<1> QED BY <1>5, <1>6, <1>7, <1>8, <1>9, <1>10 DEF IdentityInv

LEMMA IdentityRollback ==
    ASSUME IdentityInv, NEW t \in Transactions, Identity!Rollback(t)
    PROVE  IdentityInv'
<1>t. IdentityTypes
  BY DEF IdentityInv
<1>1. /\ trans[t].phase = "open" /\ UNCHANGED <<row, work, again, missed>>
      /\ trans' = [trans EXCEPT ![t].phase = "gone", ![t].own = {}, ![t].answer = None]
  BY DEF Identity!Rollback
<1>2. \A u \in Transactions : u # t => trans'[u] = trans[u]
  BY <1>1, <1>t DEF IdentityTypes
<1>3. trans'[t].phase = "gone" /\ trans'[t].view = trans[t].view /\ trans'[t].own = {}
      /\ trans'[t].answer = None
  BY <1>1, <1>t DEF IdentityTypes
<1>5. IdentityTypes'
  <2>1. /\ trans[t].view \in [Peers -> Identity!Rows \cup {None}] /\ trans[t].own \subseteq Peers
        /\ trans[t].answer \in Peers \cup {None} /\ trans[t].context \in Identity!Contexts
    BY <1>t DEF IdentityTypes
  <2>2. trans'[t] = [phase |-> "gone", view |-> trans[t].view, own |-> {},
                      answer |-> None, context |-> trans[t].context]
    BY <1>1, <1>t DEF IdentityTypes
  <2>3. trans' \in [Transactions ->
           [phase : {"new", "open", "committed", "gone"},
            view : [Peers -> Identity!Rows \cup {None}], own : SUBSET Peers,
            answer : Peers \cup {None}, context : Identity!Contexts]]
    <3>1. trans'[t] \in [phase : {"new", "open", "committed", "gone"},
                         view : [Peers -> Identity!Rows \cup {None}], own : SUBSET Peers,
                         answer : Peers \cup {None}, context : Identity!Contexts]
      BY <2>1, <2>2, <1>t DEF IdentityTypes
    <3>2. trans' = [trans EXCEPT ![t] = trans'[t]]
      BY <1>1, <1>t DEF IdentityTypes
    <3> QED BY <3>1, <3>2, <1>t DEF IdentityTypes
  <2> QED BY <1>1, <1>t, <2>3 DEF IdentityTypes
<1>6. SeenIsThere'
  BY <1>1, <1>2, <1>3 DEF IdentityInv, SeenIsThere, Past
<1>7. OwnIsNew'
  <2>1. \A u \in Transactions : u = t \/ trans'[u] = trans[u]
    BY <1>2
  <2> QED BY <1>1, <1>3, <2>1, ZenonT(30) DEF IdentityInv, OwnIsNew
<1>8. AnswerFits'
  <2>1. \A u \in Transactions : trans'[u].answer # None => trans'[u] = trans[u]
    BY <1>2, <1>3
  <2> QED BY <1>1, <2>1 DEF IdentityInv, AnswerFits
<1>9. KnewThePast'
  BY <1>1 DEF IdentityInv, KnewThePast, Past
<1>10. Identity!CallsServed'
  <2>1. \A u \in Identity!Committed' : u \in Identity!Committed /\ trans'[u] = trans[u]
    BY <1>2, <1>3 DEF Identity!Committed
  <2> QED BY <1>1, <2>1 DEF IdentityInv, Identity!CallsServed, Identity!InState
<1> QED BY <1>5, <1>6, <1>7, <1>8, <1>9, <1>10 DEF IdentityInv

(* The caller gets a job that waits, or makes one.                         *)
LEMMA IdentityCall ==
    ASSUME IdentityInv, NEW t \in Transactions, NEW c \in Identity!Contexts, Identity!Call(t, c)
    PROVE  IdentityInv'
<1>t. IdentityTypes
  BY DEF IdentityInv
<1>0. trans[t].phase = "open" /\ trans[t].answer = None /\ UNCHANGED <<row, work, again, missed>>
  BY DEF Identity!Call
<1>s. CASE UNCHANGED trans
  BY <1>0, <1>s DEF IdentityInv, IdentityTypes, SeenIsThere, OwnIsNew, AnswerFits, KnewThePast,
     Past, Identity!CallsServed, Identity!Committed, Identity!InState
<1>u. CASE Identity!Reuse(t)
  <2>1. PICK j \in Identity!SameKey(t) : trans' = [trans EXCEPT ![t].answer = j]
    BY <1>u DEF Identity!Reuse
  <2>2. /\ j \in Peers
        /\ \/ j \in trans[t].own
           \/ trans[t].view[j] # None /\ trans[t].view[j].state \in Identity!Waiting
    BY <1>t DEF IdentityTypes, Identity!SameKey, Identity!Waits
  <2>3. \A u \in Transactions : u # t => trans'[u] = trans[u]
    BY <2>1, <1>t DEF IdentityTypes
  <2>4. trans'[t].phase = "open" /\ trans'[t].view = trans[t].view
        /\ trans'[t].own = trans[t].own /\ trans'[t].answer = j
    BY <1>0, <2>1, <1>t DEF IdentityTypes
  <2>5. IdentityTypes'
    BY <1>0, <2>1, <2>2, <1>t DEF IdentityTypes
  <2>6. SeenIsThere'
    BY <1>0, <2>3, <2>4 DEF IdentityInv, SeenIsThere, Past
  <2>7. OwnIsNew'
    <3>1. \A u \in Transactions : trans'[u].own = trans[u].own /\ trans'[u].phase = trans[u].phase
                                  /\ trans'[u].view = trans[u].view
      BY <1>0, <2>3, <2>4
    <3> QED BY <1>0, <3>1 DEF IdentityInv, OwnIsNew
  <2>8. AnswerFits'
    <3>1. \A u \in Transactions : u = t \/ trans'[u] = trans[u]
      BY <2>3
    <3> QED BY <1>0, <2>2, <2>4, <3>1 DEF IdentityInv, AnswerFits
  <2>9. KnewThePast'
    BY <1>0 DEF IdentityInv, KnewThePast, Past
  <2>10. Identity!CallsServed'
    <3>1. \A u \in Identity!Committed' : u \in Identity!Committed /\ trans'[u] = trans[u]
      BY <2>3, <2>4 DEF Identity!Committed
    <3> QED BY <1>0, <3>1 DEF IdentityInv, Identity!CallsServed, Identity!InState
  <2> QED BY <2>5, <2>6, <2>7, <2>8, <2>9, <2>10 DEF IdentityInv
<1>m. CASE Identity!Make(t, c)
  <2>1. PICK j \in Identity!Fresh :
           trans' = [trans EXCEPT ![t].answer = j, ![t].own = {j}, ![t].context = c]
    BY <1>m DEF Identity!Make
  <2>2. /\ j \in Peers /\ row[j] = None
        /\ \A u \in Transactions : j \notin trans[u].own
    BY DEF Identity!Fresh
  <2>n. \A i \in Peers : trans[t].view[i] # None =>
            trans[t].view[i].state \notin Identity!Waiting
    BY <1>m DEF Identity!Make, Identity!SameKey, Identity!Waits
  <2>3. \A u \in Transactions : u # t => trans'[u] = trans[u]
    BY <2>1, <1>t DEF IdentityTypes
  <2>4. trans'[t].phase = "open" /\ trans'[t].view = trans[t].view
        /\ trans'[t].own = {j} /\ trans'[t].answer = j
    BY <1>0, <2>1, <1>t DEF IdentityTypes
  <2>5. IdentityTypes'
    BY <1>0, <2>1, <2>2, <1>t DEF IdentityTypes
  <2>6. SeenIsThere'
    BY <1>0, <2>3, <2>4 DEF IdentityInv, SeenIsThere, Past
  <2>7. OwnIsNew'
    <3>1. \A u \in Transactions : u = t \/ trans'[u] = trans[u]
      BY <2>3
    <3> QED BY <1>0, <2>2, <2>4, <2>n, <3>1 DEF IdentityInv, OwnIsNew
  <2>8. AnswerFits'
    <3>1. \A u \in Transactions : u = t \/ trans'[u] = trans[u]
      BY <2>3
    <3> QED BY <1>0, <2>2, <2>4, <3>1 DEF IdentityInv, AnswerFits
  <2>9. KnewThePast'
    BY <1>0 DEF IdentityInv, KnewThePast, Past
  <2>10. Identity!CallsServed'
    <3>1. \A u \in Identity!Committed' : u \in Identity!Committed /\ trans'[u] = trans[u]
      BY <2>3, <2>4 DEF Identity!Committed
    <3> QED BY <1>0, <3>1 DEF IdentityInv, Identity!CallsServed, Identity!InState
  <2> QED BY <2>5, <2>6, <2>7, <2>8, <2>9, <2>10 DEF IdentityInv
<1> QED BY <1>s, <1>u, <1>m DEF Identity!Call

(* The rows of its jobs are there.                                         *)
LEMMA IdentityCommit ==
    ASSUME IdentityInv, NEW t \in Transactions, Identity!Commit(t)
    PROVE  IdentityInv'
<1>t. IdentityTypes
  BY DEF IdentityInv
<1>0. trans[t].phase = "open" /\ UNCHANGED <<work, again>> /\ row' = Identity!Stored(t)
      /\ trans' = [trans EXCEPT ![t].phase = "committed"]
  BY DEF Identity!Commit
<1>2. \A u \in Transactions : u # t => trans'[u] = trans[u]
  BY <1>0, <1>t DEF IdentityTypes
<1>3. /\ trans'[t].phase = "committed" /\ trans'[t].view = trans[t].view
      /\ trans'[t].own = trans[t].own /\ trans'[t].answer = trans[t].answer
  BY <1>0, <1>t DEF IdentityTypes
<1>4. \A j \in Peers \ trans[t].own : row'[j] = row[j]
  BY <1>0 DEF Identity!Stored
<1> DEFINE known == {i \in Peers : trans[t].view[i] # None}
<1>5. \A j \in trans[t].own \cap Peers :
         /\ row[j] = None /\ row'[j] \in Identity!Rows /\ row'[j] # None
         /\ row'[j].state = "pending" /\ row'[j].knew = known
  <2> SUFFICES ASSUME NEW j \in Peers, j \in trans[t].own
               PROVE  /\ row[j] = None /\ row'[j] \in Identity!Rows /\ row'[j] # None
                      /\ row'[j].state = "pending" /\ row'[j].knew = known
    OBVIOUS
  <2>1. row'[j] = [state |-> "pending", context |-> trans[t].context, knew |-> known]
    BY <1>0 DEF Identity!Stored
  <2>2. trans[t].context \in Identity!Contexts /\ known \in SUBSET Peers
    BY <1>t DEF IdentityTypes
  <2>3. row'[j] \in Identity!Rows
    BY <2>1, <2>2, IdentityFacts
  <2>4. row[j] = None
    BY <1>0 DEF IdentityInv, OwnIsNew
  <2> QED BY <2>1, <2>3, <2>4, IdentityFacts
<1>6. \A j \in Peers : row[j] # None => j \notin trans[t].own /\ row'[j] = row[j]
  BY <1>4, <1>5
<1>7. \A j \in Peers : Past(j) => Past(j)'
  BY <1>0, <1>6 DEF Past
<1>8. IdentityTypes'
  <2>1. row' \in [Peers -> Identity!Rows \cup {None}]
    <3>1. \A j \in Peers : row'[j] \in Identity!Rows \cup {None}
      BY <1>4, <1>5, <1>t DEF IdentityTypes
    <3>2. row' = [j \in Peers |-> row'[j]]
      BY <1>0 DEF Identity!Stored
    <3> QED BY <3>1, <3>2
  <2>2. missed' \subseteq Transactions
    BY <1>t DEF Identity!Commit, IdentityTypes
  <2> QED BY <1>0, <2>1, <2>2, <1>t DEF IdentityTypes
<1>9. SeenIsThere'
  <2>1. \A u \in Transactions : trans'[u].view = trans[u].view
    BY <1>2, <1>3
  <2>2. \A j \in Peers : row[j] # None => row'[j] # None
    BY <1>6
  <2> QED BY <1>7, <2>1, <2>2 DEF IdentityInv, SeenIsThere
<1>10. OwnIsNew'
  <2>1. \A u \in Transactions : trans'[u].own = trans[u].own /\ trans'[u].view = trans[u].view
    BY <1>2, <1>3
  <2>2. \A u \in Transactions : u = t \/ trans'[u].phase = trans[u].phase
    BY <1>2
  <2>3. \A u \in Transactions, j \in Peers :
           u # t /\ j \in trans[u].own => row'[j] = row[j]
    <3>1. \A u \in Transactions : u # t => trans[u].own \cap trans[t].own = {}
      BY DEF IdentityInv, OwnIsNew
    <3> QED BY <1>4, <3>1
  <2> QED BY <1>3, <2>1, <2>2, <2>3 DEF IdentityInv, OwnIsNew
<1>11. AnswerFits'
  <2> SUFFICES ASSUME NEW u \in Transactions, trans'[u].answer # None
               PROVE  /\ trans'[u].phase \in {"open", "committed"}
                      /\ trans'[u].phase = "open" =>
                            \/ trans'[u].answer \in trans'[u].own
                            \/ /\ trans'[u].view[trans'[u].answer] # None
                               /\ trans'[u].view[trans'[u].answer].state \in Identity!Waiting
                      /\ trans'[u].phase = "committed" => row'[trans'[u].answer] # None
    BY DEF AnswerFits
  <2>1. trans[u].answer \in Peers /\ trans'[u].answer = trans[u].answer
    BY <1>2, <1>3, <1>t DEF IdentityTypes
  <2>2. CASE u # t
    BY <1>2, <1>6, <2>1, <2>2 DEF IdentityInv, AnswerFits
  <2>3. CASE u = t
    <3>1. row'[trans[t].answer] # None
      BY <1>0, <1>5, <1>6, <2>1, <2>3 DEF IdentityInv, AnswerFits, SeenIsThere
    <3> QED BY <1>3, <2>3, <3>1
  <2> QED BY <2>2, <2>3
<1>12. KnewThePast'
  <2> SUFFICES ASSUME NEW j \in Peers, row'[j] # None, NEW i \in row'[j].knew PROVE Past(i)'
    BY DEF KnewThePast
  <2>1. CASE j \notin trans[t].own
    <3>1. i \in Peers /\ Past(i)
      BY <1>4, <2>1, <1>t, IdentityFacts DEF IdentityInv, KnewThePast, IdentityTypes
    <3> QED BY <1>7, <3>1
  <2>2. CASE j \in trans[t].own
    <3>1. i \in Peers /\ trans[t].view[i] # None
      BY <1>5, <2>2
    <3>2. trans[t].view[i].state \notin Identity!Waiting
      BY <2>2, <3>1 DEF IdentityInv, OwnIsNew
    <3>3. Past(i)
      BY <3>1, <3>2 DEF IdentityInv, SeenIsThere
    <3> QED BY <1>7, <3>1, <3>3
  <2> QED BY <2>1, <2>2
<1>13. Identity!CallsServed'
  <2>m. missed \subseteq missed'
    BY DEF Identity!Commit
  <2> SUFFICES ASSUME NEW u \in Transactions, trans'[u].phase = "committed", u \notin missed',
                      trans'[u].answer # None, row'[trans'[u].answer] # None,
                      row'[trans'[u].answer].state = "done"
               PROVE  u \in work'[trans'[u].answer]
    BY DEF Identity!CallsServed, Identity!Committed, Identity!InState
  <2> DEFINE k == trans[u].answer
  <2>1. k \in Peers /\ trans'[u].answer = k
    BY <1>2, <1>3, <1>t DEF IdentityTypes
  <2>2. k \notin trans[t].own /\ row'[k] = row[k]
    BY <1>4, <1>5, <2>1
  <2>3. CASE u # t
    BY <1>0, <1>2, <2>m, <2>1, <2>2, <2>3
       DEF IdentityInv, Identity!CallsServed, Identity!Committed, Identity!InState
  <2>4. CASE u = t
    <3>1. trans[t].view[k] # None /\ trans[t].view[k].state \in Identity!Waiting
      BY <1>0, <2>1, <2>2, <2>4 DEF IdentityInv, AnswerFits
    <3>2. row[k].state \notin Identity!Waiting
      BY <2>1, <2>2 DEF Identity!Waiting
    <3>3. t \in missed'
      BY <2>1, <2>2, <2>4, <3>1, <3>2 DEF Identity!Commit
    <3> QED BY <2>4, <3>3
  <2> QED BY <2>3, <2>4
<1> QED BY <1>8, <1>9, <1>10, <1>11, <1>12, <1>13 DEF IdentityInv

LEMMA IdentityNext == IdentityInv /\ Identity!Next => IdentityInv'
BY IdentityRuns, IdentityBegin, IdentityRollback, IdentityCall, IdentityCommit DEF Identity!Next

LEMMA IdentitySteps ==
    [Next]_vars /\ part' = "identity" =>
        part = "identity" /\ (Identity!Next \/ UNCHANGED <<row, OfIdentity>>)
BY DEF Next, vars

(* One job of a key waits, unless its maker could not see the other, and   *)
(* it serves all who were given it (enqueue).                              *)
THEOREM CallsAreServed == Spec => []CallsShareJobs
<1> DEFINE I == part = "identity" => IdentityInv
<1>1. Init => I
  BY IdentityInit DEF Init
<1>2. I /\ [Next]_vars => I'
  <2> SUFFICES ASSUME I, [Next]_vars, part' = "identity" PROVE IdentityInv'
    OBVIOUS
  <2>1. IdentityInv /\ (Identity!Next \/ UNCHANGED <<row, OfIdentity>>)
    BY IdentitySteps
  <2>2. CASE Identity!Next
    BY <2>1, <2>2, IdentityNext
  <2>3. CASE UNCHANGED <<row, OfIdentity>>
    BY <2>1, <2>3 DEF OfIdentity, IdentityInv, IdentityTypes, SeenIsThere, OwnIsNew, AnswerFits,
       KnewThePast, Past, Identity!CallsServed, Identity!Committed, Identity!InState
  <2> QED BY <2>1, <2>2, <2>3
<1>3. I => CallsShareJobs
  <2> SUFFICES ASSUME IdentityInv PROVE Identity!OneWaits
    BY DEF CallsShareJobs, IdentityInv
  <2>1. \A i, j \in Peers : row[j] # None /\ i \in row[j].knew => Past(i)
    BY DEF IdentityInv, KnewThePast
  <2> QED BY <2>1 DEF Identity!OneWaits, Identity!InState, Past
<1> QED BY <1>1, <1>2, <1>3, PTL DEF Spec

-----------------------------------------------------------------------------
(* Sums over finite sets.  MapThenSumSet takes away one element after the  *)
(* other, by a function on the subsets of the set.                         *)

PickFrom(s) == CHOOSE x \in s : TRUE

IsSum(g, f, S) ==
    g = [s \in SUBSET S |-> IF s = {} THEN 0 ELSE f[PickFrom(s)] + g[s \ {PickFrom(s)}]]

LEMMA SmallestPart ==
    ASSUME NEW A, IsFiniteSet(A), NEW T \in SUBSET SUBSET A, T # {}
    PROVE  \E S \in T : \A U \in T : U \subseteq S => U = S
<1>1. IsWellFoundedOn(StrictSubsetOrdering(A), FiniteSubsetsOf(A))
  BY FS_StrictSubsetOrderingWellFounded
<1>3. FiniteSubsetsOf(A) = SUBSET A
  BY FS_FiniteSubsetsOfFinite
<1>4. IsWellFoundedOn(StrictSubsetOrdering(A), SUBSET A)
  BY ONLY <1>1, <1>3, Zenon
<1>5. PICK S \in T : \A U \in T : <<U, S>> \notin StrictSubsetOrdering(A)
  BY <1>4, WFMin
<1> QED BY <1>5 DEF StrictSubsetOrdering

LEMMA SumStep ==
    ASSUME NEW g, NEW f, NEW S, IsSum(g, f, S)
    PROVE  /\ g[{}] = 0
           /\ \A s \in SUBSET S : s # {} =>
                 /\ PickFrom(s) \in s
                 /\ g[s] = f[PickFrom(s)] + g[s \ {PickFrom(s)}]
<1>1. \A s \in SUBSET S : s # {} => PickFrom(s) \in s
  BY DEF PickFrom
<1>2. \A s \in SUBSET S :
         g[s] = IF s = {} THEN 0 ELSE f[PickFrom(s)] + g[s \ {PickFrom(s)}]
  BY DEF IsSum
<1> QED BY <1>1, <1>2

(* Two such functions agree on what is in both their domains.              *)
LEMMA SumUnique ==
    ASSUME NEW g, NEW f, NEW S, IsSum(g, f, S),
           NEW h, NEW e, NEW T, IsSum(h, e, T),
           NEW u, IsFiniteSet(u), u \subseteq S, u \subseteq T, \A x \in u : f[x] = e[x]
    PROVE  g[u] = h[u]
<1> DEFINE C == {s \in SUBSET u : g[s] # h[s]}
<1> SUFFICES ASSUME C # {} PROVE FALSE
  OBVIOUS
<1>1. PICK s \in C : \A t \in C : t \subseteq s => t = s
  <2>1. C \in SUBSET SUBSET u
    OBVIOUS
  <2> HIDE DEF C
  <2> QED BY <2>1, SmallestPart
<1>2. s \in SUBSET S /\ s \in SUBSET T /\ g[s] # h[s]
  OBVIOUS
<1>3. s # {}
  BY <1>2, SumStep
<1>4. PickFrom(s) \in s /\ s \ {PickFrom(s)} \notin C
  BY <1>1, <1>2, <1>3, SumStep
<1>5. g[s \ {PickFrom(s)}] = h[s \ {PickFrom(s)}]
  BY <1>4
<1>6. g[s] = f[PickFrom(s)] + g[s \ {PickFrom(s)}]
  BY <1>2, <1>3, SumStep
<1>7. h[s] = e[PickFrom(s)] + h[s \ {PickFrom(s)}]
  BY <1>2, <1>3, SumStep
<1> QED BY <1>2, <1>4, <1>5, <1>6, <1>7

(* There is one.                                                           *)
LEMMA SumExists ==
    ASSUME NEW S, IsFiniteSet(S), NEW f
    PROVE  \E g : IsSum(g, f, S)
<1> DEFINE C == {s \in SUBSET S : ~ \E g : IsSum(g, f, s)}
<1> SUFFICES ASSUME C # {} PROVE FALSE
  OBVIOUS
<1>1. PICK s \in C : \A t \in C : t \subseteq s => t = s
  <2>1. C \in SUBSET SUBSET S
    OBVIOUS
  <2> HIDE DEF C
  <2> QED BY <2>1, SmallestPart
<1>2. IsFiniteSet(s) /\ s \in SUBSET S
  BY FS_Subset
<1> DEFINE G(t) == CHOOSE g : IsSum(g, f, t)
<1>3. \A t \in SUBSET s : t # s => IsSum(G(t), f, t)
  <2> TAKE t \in SUBSET s
  <2> HAVE t # s
  <2>1. \E g : IsSum(g, f, t)
    BY <1>1
  <2> QED BY <2>1
<1> HIDE DEF G
<1> DEFINE below == [t \in SUBSET s |-> G(t)[t]]
           g == [t \in SUBSET s |->
                    IF t = {} THEN 0 ELSE f[PickFrom(t)] + below[t \ {PickFrom(t)}]]
<1>4. \A t \in SUBSET s : t # s => below[t] = g[t]
  <2> TAKE t \in SUBSET s
  <2> HAVE t # s
  <2>1. IsSum(G(t), f, t)
    BY <1>3
  <2>2. CASE t = {}
    BY <2>1, <2>2, SumStep
  <2>3. CASE t # {}
    <3> DEFINE u == t \ {PickFrom(t)}
    <3>1. PickFrom(t) \in t /\ G(t)[t] = f[PickFrom(t)] + G(t)[u]
      BY <2>1, <2>3, SumStep
    <3>2. u \in SUBSET s /\ u # s /\ IsFiniteSet(u) /\ u \subseteq t
      BY <1>2, <3>1, FS_Subset
    <3>3. IsSum(G(u), f, u)
      BY <1>3, <3>2
    <3>4. G(t)[u] = G(u)[u]
      <4> HIDE DEF u
      <4> QED BY <2>1, <3>2, <3>3, SumUnique
    <3>5. below[u] = G(u)[u]
      BY <3>2
    <3> QED BY <2>3, <3>1, <3>4, <3>5
  <2> QED BY <2>2, <2>3
<1>5. \A t \in SUBSET s : t # {} =>
         below[t \ {PickFrom(t)}] = g[t \ {PickFrom(t)}]
  <2> TAKE t \in SUBSET s
  <2> HAVE t # {}
  <2>1. PickFrom(t) \in t
    BY DEF PickFrom
  <2>2. t \ {PickFrom(t)} \in SUBSET s /\ t \ {PickFrom(t)} # s
    BY <2>1
  <2> HIDE DEF g, below
  <2> QED BY <1>4, <2>2
<1>6. IsSum(g, f, s)
  <2>1. g = [t \in SUBSET s |-> IF t = {} THEN 0 ELSE f[PickFrom(t)] + g[t \ {PickFrom(t)}]]
    <3>1. \A t \in SUBSET s :
            (IF t = {} THEN 0 ELSE f[PickFrom(t)] + below[t \ {PickFrom(t)}])
            = (IF t = {} THEN 0 ELSE f[PickFrom(t)] + g[t \ {PickFrom(t)}])
      <4> HIDE DEF g, below
      <4> QED BY <1>5
    <3> QED BY <3>1
  <2> QED BY <2>1 DEF IsSum
<1> QED BY <1>6

(* Any element may be taken away first.                                    *)
TakesAny(g, f, S) ==
    \A s \in SUBSET S : g[s] \in Nat /\ \A x \in s : g[s] = f[x] + g[s \ {x}]

AllNat(f, S) == \A x \in S : f[x] \in Nat

LEMMA SumTake ==
    ASSUME NEW S, IsFiniteSet(S), NEW f, AllNat(f, S), NEW g, IsSum(g, f, S)
    PROVE  TakesAny(g, f, S)
<1> USE DEF TakesAny, AllNat
<1> DEFINE C == {s \in SUBSET S : ~(g[s] \in Nat /\ \A x \in s : g[s] = f[x] + g[s \ {x}])}
<1> SUFFICES ASSUME C # {} PROVE FALSE
  OBVIOUS
<1>1. PICK s \in C : \A t \in C : t \subseteq s => t = s
  <2>1. C \in SUBSET SUBSET S
    OBVIOUS
  <2> HIDE DEF C
  <2> QED BY <2>1, SmallestPart
<1>2. s \in SUBSET S /\ ~(g[s] \in Nat /\ \A x \in s : g[s] = f[x] + g[s \ {x}])
  OBVIOUS
<1>3. \A t \in SUBSET s : t # s => g[t] \in Nat /\ \A x \in t : g[t] = f[x] + g[t \ {x}]
  BY <1>1
<1> HIDE DEF C
<1>4. s # {}
  <2> SUFFICES ASSUME s = {} PROVE FALSE
    OBVIOUS
  <2>1. g[{}] = 0
    BY SumStep
  <2>2. g[s] \in Nat /\ \A x \in s : g[s] = f[x] + g[s \ {x}]
    BY <2>1
  <2> QED BY <1>2, <2>2
<1> DEFINE c == PickFrom(s)
<1>5. c \in s /\ g[s] = f[c] + g[s \ {c}]
  BY <1>2, <1>4, SumStep
<1> HIDE DEF c
<1>6. \A x \in s : f[x] \in Nat /\ g[s \ {x}] \in Nat
  BY <1>2, <1>3
<1>7. ASSUME NEW x \in s PROVE g[s] = f[x] + g[s \ {x}]
  <2>1. CASE x = c
    BY <1>5, <2>1
  <2>2. CASE x # c
    <3>1. g[s \ {c}] = f[x] + g[(s \ {c}) \ {x}]
      BY <1>3, <1>5, <2>2
    <3>2. g[s \ {x}] = f[c] + g[(s \ {x}) \ {c}]
      BY <1>3, <1>5, <2>2
    <3>3. (s \ {c}) \ {x} = (s \ {x}) \ {c}
      OBVIOUS
    <3>4. g[(s \ {c}) \ {x}] \in Nat
      <4>1. (s \ {c}) \ {x} # s
        BY <1>5
      <4> QED BY <1>3, <4>1
    <3> DEFINE a == g[s \ {c}]
               b == g[s \ {x}]
               d == g[(s \ {c}) \ {x}]
    <3>5. a = f[x] + d /\ b = f[c] + d /\ g[s] = f[c] + a
      BY <1>5, <3>1, <3>2, <3>3
    <3>6. f[x] \in Nat /\ f[c] \in Nat /\ d \in Nat
      BY <1>5, <1>6, <3>4
    <3> HIDE DEF a, b, d
    <3>7. g[s] = f[x] + b
      BY <3>5, <3>6
    <3> QED BY <3>7 DEF b
  <2> QED BY <2>1, <2>2
<1>8. g[s] \in Nat
  BY <1>5, <1>6
<1> QED BY <1>2, <1>7, <1>8

(* The sum of the values of f on S.                                        *)
Total(f, S) == MapThenSumSet(LAMBDA x : f[x], S)

LEMMA TotalIs ==
    ASSUME NEW S, IsFiniteSet(S), NEW f
    PROVE  \E g : IsSum(g, f, S) /\ Total(f, S) = g[S]
<1>1. PICK h : IsSum(h, f, S)
  BY SumExists
<1> DEFINE g == CHOOSE it : it = [s \in SUBSET S |->
                    IF s = {} THEN 0
                    ELSE f[CHOOSE x \in s : TRUE] + it[s \ {CHOOSE x \in s : TRUE}]]
<1>2. IsSum(g, f, S)
  BY <1>1 DEF IsSum, PickFrom
<1>3. Total(f, S) = g[S]
  BY DEF Total, MapThenSumSet, MapThenFoldSet
<1> QED BY <1>2, <1>3

LEMMA TotalSame ==
    ASSUME NEW S, IsFiniteSet(S), NEW f, NEW e, \A x \in S : f[x] = e[x]
    PROVE  Total(f, S) = Total(e, S)
<1>1. PICK g : IsSum(g, f, S) /\ Total(f, S) = g[S]
  BY TotalIs
<1>2. PICK h : IsSum(h, e, S) /\ Total(e, S) = h[S]
  BY TotalIs
<1>3. g[S] = h[S]
  BY <1>1, <1>2, SumUnique
<1> QED BY <1>1, <1>2, <1>3

LEMMA TotalTake ==
    ASSUME NEW S, IsFiniteSet(S), NEW f, \A x \in S : f[x] \in Nat
    PROVE  /\ Total(f, {}) = 0
           /\ Total(f, S) \in Nat
           /\ \A x \in S : Total(f, S) = f[x] + Total(f, S \ {x})
<1>1. PICK g : IsSum(g, f, S) /\ Total(f, S) = g[S]
  BY TotalIs
<1>2. \A s \in SUBSET S : Total(f, s) = g[s]
  <2> TAKE s \in SUBSET S
  <2>1. IsFiniteSet(s)
    BY FS_Subset
  <2>2. PICK h : IsSum(h, f, s) /\ Total(f, s) = h[s]
    BY <2>1, TotalIs
  <2>3. h[s] = g[s]
    BY <1>1, <2>1, <2>2, SumUnique
  <2> QED BY <2>2, <2>3
<1>3. \A s \in SUBSET S : g[s] \in Nat /\ \A x \in s : g[s] = f[x] + g[s \ {x}]
  <2>1. IsSum(g, f, S) /\ AllNat(f, S)
    BY <1>1 DEF AllNat
  <2>2. TakesAny(g, f, S)
    BY <2>1, SumTake
  <2> QED BY <2>2 DEF TakesAny
<1>4. g[{}] = 0
  BY <1>1, SumStep
<1> QED BY <1>1, <1>2, <1>3, <1>4

(* The sum of a set is that of any part of it and of the rest.             *)
LEMMA TotalParts ==
    ASSUME NEW S, IsFiniteSet(S), NEW f, \A x \in S : f[x] \in Nat
    PROVE  \A T \in SUBSET S :
             /\ Total(f, T) \in Nat /\ Total(f, S \ T) \in Nat /\ Total(f, S) \in Nat
             /\ Total(f, S) = Total(f, T) + Total(f, S \ T)
<1>0. \A s \in SUBSET S : /\ Total(f, s) \in Nat
                         /\ \A x \in s : Total(f, s) = f[x] + Total(f, s \ {x})
  <2> TAKE s \in SUBSET S
  <2>1. IsFiniteSet(s) /\ \A x \in s : f[x] \in Nat
    BY FS_Subset
  <2> QED BY <2>1, TotalTake
<1> DEFINE C == {T \in SUBSET S : Total(f, S) # Total(f, T) + Total(f, S \ T)}
<1>9. C = {}
  <2> SUFFICES ASSUME C # {} PROVE FALSE
    OBVIOUS
  <2>1. PICK T \in C : \A t \in C : t \subseteq T => t = T
    <3>1. C \in SUBSET SUBSET S
      OBVIOUS
    <3> HIDE DEF C
    <3> QED BY <3>1, SmallestPart
  <2>2. T \in SUBSET S /\ Total(f, S) # Total(f, T) + Total(f, S \ T)
    OBVIOUS
  <2>3. T # {}
    <3> SUFFICES ASSUME T = {} PROVE FALSE
      OBVIOUS
    <3>1. Total(f, T) = 0
      BY TotalTake
    <3>2. S \ T = S
      OBVIOUS
    <3>3. Total(f, S) \in Nat
      BY <1>0
    <3> QED BY <2>2, <3>1, <3>2, <3>3
  <2>4. PICK x \in T : TRUE
    BY <2>3
  <2>5. T \ {x} \notin C
    BY <2>1
  <2> DEFINE a == Total(f, T \ {x})
             b == Total(f, S \ T)
             c == Total(f, S \ (T \ {x}))
  <2>6. Total(f, S) = a + c
    BY <2>5
  <2> HIDE DEF C
  <2>7. Total(f, T) = f[x] + a
    BY <1>0, <2>2
  <2>8. c = f[x] + b
    <3>1. (S \ (T \ {x})) \ {x} = S \ T
      BY <2>2
    <3>2. x \in S \ (T \ {x}) /\ S \ (T \ {x}) \in SUBSET S
      BY <2>2
    <3> QED BY <1>0, <3>1, <3>2
  <2>9. a \in Nat /\ b \in Nat /\ f[x] \in Nat
    BY <1>0, <2>2
  <2> HIDE DEF a, b, c
  <2>10. Total(f, S) = Total(f, T) + b
    BY <2>6, <2>7, <2>8, <2>9
  <2> QED BY <2>2, <2>10 DEF b
<1> QED BY <1>0, <1>9

-----------------------------------------------------------------------------
(* Deposits and the invoices they pay (Deposits).                          *)

Valued(S) == \A e \in S : e.amount \in Nat

LEMMA EntrySum ==
    ASSUME NEW S, IsFiniteSet(S), NEW f, \A e \in S : f[e] = e.amount
    PROVE  Deposit!Sum(S) = Total(f, S)
<1>1. PICK h : IsSum(h, f, S)
  BY SumExists
<1> DEFINE g == CHOOSE it : it = [s \in SUBSET S |->
                    IF s = {} THEN 0
                    ELSE (CHOOSE x \in s : TRUE).amount + it[s \ {CHOOSE x \in s : TRUE}]]
<1>2. \A s \in SUBSET S : s # {} => f[CHOOSE x \in s : TRUE] = (CHOOSE x \in s : TRUE).amount
  OBVIOUS
<1>3. h = [s \in SUBSET S |->
             IF s = {} THEN 0
             ELSE (CHOOSE x \in s : TRUE).amount + h[s \ {CHOOSE x \in s : TRUE}]]
  BY <1>1, <1>2 DEF IsSum, PickFrom
<1>4. g = [s \in SUBSET S |->
             IF s = {} THEN 0
             ELSE (CHOOSE x \in s : TRUE).amount + g[s \ {CHOOSE x \in s : TRUE}]]
  BY <1>3, ZenonT(20)
<1> HIDE DEF g
<1>5. IsSum(g, f, S)
  BY <1>2, <1>4 DEF IsSum, PickFrom
<1>6. Deposit!Sum(S) = g[S]
  BY DEF g, Deposit!Sum, Deposit!MapThenSumSet, Deposit!MapThenFoldSet
<1>7. PICK k : IsSum(k, f, S) /\ Total(f, S) = k[S]
  BY TotalIs
<1> QED BY <1>5, <1>6, <1>7, SumUnique

(* The sum of entries is that of any part and the rest.                    *)
LEMMA EntryParts ==
    ASSUME NEW S, IsFiniteSet(S), Valued(S)
    PROVE  /\ Deposit!Sum(S) \in Nat
           /\ \A T \in SUBSET S :
                /\ Deposit!Sum(T) \in Nat /\ Deposit!Sum(S \ T) \in Nat
                /\ Deposit!Sum(S) = Deposit!Sum(T) + Deposit!Sum(S \ T)
<1> PICK f : f = [e \in S |-> e.amount]
  OBVIOUS
<1>1. \A e \in S : f[e] = e.amount /\ f[e] \in Nat
  BY DEF Valued
<1>2. \A T \in SUBSET S : Deposit!Sum(T) = Total(f, T)
  <2> TAKE T \in SUBSET S
  <2>1. IsFiniteSet(T) /\ \A e \in T : f[e] = e.amount
    BY <1>1, FS_Subset
  <2> QED BY <2>1, EntrySum
<1>3. \A T \in SUBSET S :
         /\ Total(f, T) \in Nat /\ Total(f, S \ T) \in Nat /\ Total(f, S) \in Nat
         /\ Total(f, S) = Total(f, T) + Total(f, S \ T)
  BY <1>1, TotalParts
<1> QED BY <1>2, <1>3

LEMMA EntryNone == Deposit!Sum({}) = 0
<1>1. Deposit!Sum({}) = Total([e \in {} |-> 0], {})
  BY EntrySum, FS_EmptySet
<1>2. Total([e \in {} |-> 0], {}) = 0
  BY TotalTake, FS_EmptySet
<1> QED BY <1>1, <1>2

LEMMA EntryOne == ASSUME NEW e, e.amount \in Nat PROVE Deposit!Sum({e}) = e.amount
<1> PICK f : f = [x \in {e} |-> x.amount]
  OBVIOUS
<1>1. IsFiniteSet({e}) /\ \A x \in {e} : f[x] = x.amount /\ f[x] \in Nat
  BY FS_Singleton
<1>2. Deposit!Sum({e}) = Total(f, {e})
  BY <1>1, EntrySum
<1>3. Total(f, {e}) = f[e] + Total(f, {e} \ {e}) /\ Total(f, {}) = 0
  BY <1>1, TotalTake
<1>4. {e} \ {e} = {}
  OBVIOUS
<1> QED BY <1>1, <1>2, <1>3, <1>4

(* The operators on finite sets are the same in the instances.             *)
LEMMA SameCardinality ==
    /\ \A S : Deposit!Cardinality(S) = Cardinality(S)
    /\ \A S : Deposit!IsFiniteSet(S) <=> IsFiniteSet(S)
<1>1. \A S : Deposit!Cardinality(S) = Cardinality(S)
  BY DEF Deposit!Cardinality, Cardinality, Deposit!IsFiniteSet, IsFiniteSet
<1>2. \A S : Deposit!IsFiniteSet(S) <=> IsFiniteSet(S)
  BY DEF Deposit!IsFiniteSet, IsFiniteSet
<1> QED BY <1>1, <1>2

LEMMA EntryWithin ==
    ASSUME NEW S, IsFiniteSet(S), Valued(S), NEW T \in SUBSET S
    PROVE  /\ Deposit!Sum(T) \in Nat /\ Deposit!Sum(S) \in Nat
           /\ Deposit!Sum(T) =< Deposit!Sum(S)
<1> DEFINE a == Deposit!Sum(T)
           b == Deposit!Sum(S \ T)
           c == Deposit!Sum(S)
<1>1. a \in Nat /\ b \in Nat /\ c = a + b
  BY EntryParts
<1> HIDE DEF a, b, c
<1>2. a \in Nat /\ c \in Nat /\ a =< c
  BY <1>1
<1> QED BY <1>2 DEF a, c

LEMMA EntryUnion ==
    ASSUME NEW S, IsFiniteSet(S), Valued(S), NEW T, IsFiniteSet(T), Valued(T)
    PROVE  /\ Deposit!Sum(S) \in Nat /\ Deposit!Sum(T) \in Nat /\ Deposit!Sum(S \cup T) \in Nat
           /\ Deposit!Sum(S \cup T) =< Deposit!Sum(S) + Deposit!Sum(T)
           /\ S \cap T = {} => Deposit!Sum(S \cup T) = Deposit!Sum(S) + Deposit!Sum(T)
<1>1. IsFiniteSet(S \cup T) /\ Valued(S \cup T)
  BY FS_Union DEF Valued
<1>2. S \in SUBSET (S \cup T) /\ (S \cup T) \ S = T \ S /\ T \ S \in SUBSET T
      /\ (S \cap T = {} => T \ S = T)
  OBVIOUS
<1>3. /\ Deposit!Sum(S \cup T) \in Nat /\ Deposit!Sum(S) \in Nat /\ Deposit!Sum(T \ S) \in Nat
      /\ Deposit!Sum(S \cup T) = Deposit!Sum(S) + Deposit!Sum(T \ S)
  BY <1>1, <1>2, EntryParts
<1>4. Deposit!Sum(T) \in Nat /\ Deposit!Sum(T \ S) =< Deposit!Sum(T)
  BY <1>2, EntryWithin
<1> DEFINE a == Deposit!Sum(S)
           b == Deposit!Sum(T)
           c == Deposit!Sum(T \ S)
           d == Deposit!Sum(S \cup T)
<1>5. a \in Nat /\ b \in Nat /\ c \in Nat /\ d \in Nat /\ d = a + c /\ c =< b
  BY <1>3, <1>4
<1>6. S \cap T = {} => c = b
  BY <1>2
<1> HIDE DEF a, b, c, d
<1>7. d =< a + b /\ (S \cap T = {} => d = a + b)
  BY <1>5, <1>6
<1> QED BY <1>5, <1>7 DEF a, b, d

LEMMA SmallestNumber ==
    ASSUME NEW S \in SUBSET Nat, S # {}
    PROVE  \E m \in S : \A n \in S : m =< n
<1>2. IsWellFoundedOn(OpToRel(<, Nat), Nat)
  BY NatLessThanWellFounded
<1>3. PICK m \in S : \A n \in S : <<n, m>> \notin OpToRel(<, Nat)
  BY <1>2, WFMin
<1>4. OpToRel(<, Nat) = {p \in Nat \X Nat : p[1] < p[2]}
  BY Zenon DEF OpToRel
<1>5. \A n \in S : ~(n < m)
  BY <1>3, <1>4
<1> QED BY <1>5

(* The entries after each of the deposits, as _reconcile_deposit takes     *)
(* them.                                                                   *)
WithEntry(es, s, l, i, u, n, b) == b \cup Deposit!Entry(b, s[n], l[s[n]], i, u - Deposit!Sum(b \ es))

IsPaid(p, es, s, l, i, u, N) ==
    p = [n \in 0..N |-> IF n = 0 THEN es ELSE WithEntry(es, s, l, i, u, n, p[n - 1])]

LEMMA PaidExists ==
    ASSUME NEW es, NEW s, NEW l, NEW i, NEW u, NEW N \in Nat
    PROVE  \E p : IsPaid(p, es, s, l, i, u, N)
<1> DEFINE C == {n \in Nat : ~ \E p : IsPaid(p, es, s, l, i, u, n)}
<1> SUFFICES ASSUME C # {} PROVE FALSE
  OBVIOUS
<1>1. PICK n \in C : \A m \in C : n =< m
  <2>1. C \in SUBSET Nat
    OBVIOUS
  <2> HIDE DEF C
  <2> QED BY <2>1, SmallestNumber
<1>2. n \in Nat /\ ~ \E p : IsPaid(p, es, s, l, i, u, n)
  OBVIOUS
<1>3. n # 0
  <2>1. IsPaid([k \in 0..0 |-> es], es, s, l, i, u, 0)
    BY DEF IsPaid
  <2> QED BY <1>2, <2>1
<1>4. n - 1 \in Nat /\ n - 1 \notin C
  BY <1>1, <1>2, <1>3
<1>5. PICK p : IsPaid(p, es, s, l, i, u, n - 1)
  BY <1>4
<1> HIDE DEF C
<1> DEFINE q == [k \in 0..n |-> IF k = n THEN WithEntry(es, s, l, i, u, n, p[n - 1]) ELSE p[k]]
<1>6. \A k \in 0..n : k # n => k \in 0..(n - 1)
  BY <1>2
<1>7. \A k \in 0..(n - 1) : p[k] = IF k = 0 THEN es ELSE WithEntry(es, s, l, i, u, k, p[k - 1])
  BY <1>5 DEF IsPaid
<1>8. \A k \in 0..n : k # 0 => k - 1 \in 0..n /\ k - 1 # n
  BY <1>2
<1>9. \A k \in 0..n : k # 0 => q[k - 1] = p[k - 1]
  BY <1>8
<1>10. q = [k \in 0..n |-> IF k = 0 THEN es ELSE WithEntry(es, s, l, i, u, k, q[k - 1])]
  <2>1. \A k \in 0..n :
          (IF k = n THEN WithEntry(es, s, l, i, u, n, p[n - 1]) ELSE p[k])
          = (IF k = 0 THEN es ELSE WithEntry(es, s, l, i, u, k, q[k - 1]))
    <3> HIDE DEF q
    <3> QED BY <1>3, <1>6, <1>7, <1>9
  <2> QED BY <2>1
<1> QED BY <1>2, <1>10 DEF IsPaid

ByTurns(x, es, ds, l, i, u) ==
    \E s, p : /\ s \in [1..Cardinality(ds) -> ds]
              /\ \A m, n \in 1..Cardinality(ds) : m # n => s[m] # s[n]
              /\ IsPaid(p, es, s, l, i, u, Cardinality(ds))
              /\ x = p[Cardinality(ds)]

LEMMA ReconciledIs ==
    ASSUME NEW es, NEW ds, IsFiniteSet(ds), NEW l, NEW i, NEW u,
           NEW x \in Deposit!Reconciled(es, ds, l, i, u)
    PROVE  ByTurns(x, es, ds, l, i, u)
<1> DEFINE N == Deposit!Cardinality(ds)
<1>0. N = Cardinality(ds)
  BY SameCardinality
<1>1. N \in Nat
  BY <1>0, FS_CardinalityType
<1> HIDE DEF N
<1> DEFINE after(s) ==
       LET paid[n \in 0..N] ==
               IF n = 0 THEN es
               ELSE paid[n - 1] \cup Deposit!Entry(paid[n - 1], s[n], l[s[n]], i,
                                                   u - Deposit!Sum(paid[n - 1] \ es))
       IN  paid[N]
<1>2. PICK s \in Deposit!Injection(1..N, ds) : x = after(s)
  BY DEF Deposit!Reconciled, N
<1>3. s \in [1..N -> ds] /\ \A m, n \in 1..N : m # n => s[m] # s[n]
  BY <1>2 DEF Deposit!Injection, Deposit!IsInjective
<1> DEFINE p == CHOOSE paid : paid = [n \in 0..N |->
               IF n = 0 THEN es
               ELSE paid[n - 1] \cup Deposit!Entry(paid[n - 1], s[n], l[s[n]], i,
                                                   u - Deposit!Sum(paid[n - 1] \ es))]
<1>4. IsPaid(p, es, s, l, i, u, N)
  <2>1. \E q : IsPaid(q, es, s, l, i, u, N)
    BY <1>1, PaidExists
  <2> QED BY <2>1 DEF IsPaid, WithEntry
<1>5. x = p[N]
  BY <1>2
<1> HIDE DEF p, after
<1> QED BY <1>0, <1>3, <1>4, <1>5 DEF ByTurns

DrawnOf(es, d) == {e \in es : e.deposit = d /\ e.drawn}

(* Entries are between payments that have the money and posted invoices;   *)
(* lo are the deposits whose journal entry was set back by itself.         *)
Joined(es, ps, bs, lo) ==
    /\ IsFiniteSet(es) /\ es \subseteq Deposit!JournalEntries
    /\ \A e \in es :
         /\ ps[e.deposit] # None /\ bs[e.invoice] # None
         /\ bs[e.invoice].state = "posted"
         /\ e.drawn => ps[e.deposit].state = "posted"
         /\ e.deposit \notin lo => e.drawn

Covered(es, ps) ==
    \A d \in Deposit!Posted(ps) : Deposit!Sum(DrawnOf(es, d)) =< ps[d].amount

NotOverpaid(es, bs) ==
    \A i \in Invoices : bs[i] # None /\ bs[i].state = "posted" =>
        Deposit!Sum(Deposit!EntriesFor(es, i)) =< bs[i].amount

Sound(es, ps, bs, lo) == Joined(es, ps, bs, lo) /\ Covered(es, ps) /\ NotOverpaid(es, bs)

LEMMA MinOfTwo ==
    ASSUME NEW a \in Nat, NEW b \in Nat
    PROVE  /\ Deposit!Min({a, b}) \in Nat
           /\ Deposit!Min({a, b}) =< a /\ Deposit!Min({a, b}) =< b
           /\ Deposit!Min({a, b}) \in {a, b}
BY DEF Deposit!Min

LEMMA JournalSets ==
    ASSUME NEW S, IsFiniteSet(S), S \subseteq Deposit!JournalEntries, NEW T \in SUBSET S
    PROVE  IsFiniteSet(T) /\ Valued(T) /\ T \subseteq Deposit!JournalEntries
BY FS_Subset DEF Valued, Deposit!JournalEntries

LEMMA FreshEntryNumber ==
    ASSUME NEW S, IsFiniteSet(S)
    PROVE  \E n \in 1..(Cardinality(S) + 1) : \A e \in S : e.number # n
<1> DEFINE Taken == {e.number : e \in S}
           N == Cardinality(S)
<1>1. N \in Nat
  BY FS_CardinalityType
<1>2. IsFiniteSet(Taken) /\ Cardinality(Taken) =< N
  <2>1. [e \in S |-> e.number] \in Surjection(S, Taken)
    BY DEF Surjection
  <2> QED BY <2>1, FS_Surjection
<1> SUFFICES ASSUME 1..(N + 1) \subseteq Taken PROVE FALSE
  OBVIOUS
<1> HIDE DEF Taken, N
<1>3. Cardinality(1..(N + 1)) = N + 1
  BY <1>1, FS_Interval
<1>4. Cardinality(1..(N + 1)) =< Cardinality(Taken) /\ Cardinality(Taken) \in Nat
  BY <1>2, FS_Subset, FS_CardinalityType
<1> QED BY <1>1, <1>2, <1>3, <1>4

(* The entry that is made: none, or a new one of what the deposit has or   *)
(* the invoice needs.                                                      *)
LEMMA EntryMade ==
    ASSUME NEW b, IsFiniteSet(b), NEW d \in Peers, NEW i \in Invoices,
           NEW m \in Nat, NEW u \in Nat
    PROVE  \/ (m = 0 \/ u = 0) /\ Deposit!Entry(b, d, m, i, u) = {}
           \/ \E x : /\ Deposit!Entry(b, d, m, i, u) = {x}
                     /\ x \in Deposit!JournalEntries /\ x \notin b
                     /\ x.deposit = d /\ x.invoice = i /\ x.drawn
                     /\ x.amount =< m /\ x.amount =< u /\ x.amount \in {m, u}
<1> DEFINE a == Deposit!Min({m, u})
           N == Cardinality(b)
           k == CHOOSE n \in 1..(N + 1) : \A e \in b : e.number # n
           x == [deposit |-> d, invoice |-> i, amount |-> a, drawn |-> TRUE, number |-> k]
<1>1. a \in Nat /\ a =< m /\ a =< u /\ a \in {m, u}
  BY MinOfTwo
<1>2. k \in 1..(N + 1) /\ \A e \in b : e.number # k
  BY FreshEntryNumber
<1>3. k \in Nat
  BY <1>2, FS_CardinalityType
<1>4. Deposit!Entry(b, d, m, i, u) = IF a = 0 THEN {} ELSE {x}
  <2>1. Deposit!Cardinality(b) = N
    BY SameCardinality
  <2> QED BY <2>1 DEF Deposit!Entry
<1> HIDE DEF a, k, N
<1>5. x \in Deposit!JournalEntries /\ x.number = k /\ x.deposit = d /\ x.invoice = i /\ x.drawn
      /\ x.amount = a
  BY <1>1, <1>3 DEF Deposit!JournalEntries
<1>6. x \notin b
  BY <1>2, <1>5
<1> HIDE DEF x
<1> QED BY <1>1, <1>4, <1>5, <1>6

(* What has been made for the invoice i of the first n deposits of s, each *)
(* of which has l and is taken once, when the invoice needs u.             *)
Took(R, s, n, l, i, u) ==
    /\ \A e \in R : e.invoice = i /\ e.drawn /\ \E m \in 1..n : e.deposit = s[m]
    /\ Deposit!Sum(R) =< u
    /\ \A m \in 1..n : Deposit!Sum(Deposit!EntriesOf(R, s[m])) =< l[s[m]]
    /\ \/ Deposit!Sum(R) = u
       \/ \A m \in 1..n : Deposit!Sum(Deposit!EntriesOf(R, s[m])) = l[s[m]]

Grown(b, es) ==
    es \subseteq b /\ IsFiniteSet(b) /\ b \subseteq Deposit!JournalEntries

LEMMA TookIs ==
    ASSUME NEW R, NEW s, NEW n, NEW l, NEW i, NEW u,
           \A e \in R : e.invoice = i /\ e.drawn /\ \E m \in 1..n : e.deposit = s[m],
           Deposit!Sum(R) =< u,
           \A m \in 1..n : Deposit!Sum(Deposit!EntriesOf(R, s[m])) =< l[s[m]],
           \/ Deposit!Sum(R) = u
           \/ \A m \in 1..n : Deposit!Sum(Deposit!EntriesOf(R, s[m])) = l[s[m]]
    PROVE  Took(R, s, n, l, i, u)
BY DEF Took

LEMMA TookOne ==
    ASSUME NEW es, NEW b, Grown(b, es),
           NEW ds \in SUBSET Peers, NEW N \in Nat, NEW s \in [1..N -> ds],
           \A m, n \in 1..N : m # n => s[m] # s[n],
           NEW l, \A d \in ds : l[d] \in Nat,
           NEW i \in Invoices, NEW u \in Nat, NEW n \in 1..N,
           Took(b \ es, s, n - 1, l, i, u)
    PROVE  /\ Grown(WithEntry(es, s, l, i, u, n, b), es)
           /\ Took(WithEntry(es, s, l, i, u, n, b) \ es, s, n, l, i, u)
<1> DEFINE d == s[n]
           R == b \ es
<1>1. d \in Peers /\ l[d] \in Nat
  OBVIOUS
<1>2. /\ IsFiniteSet(R) /\ Valued(R) /\ R \subseteq Deposit!JournalEntries
      /\ Deposit!Sum(R) \in Nat
  <2>1. IsFiniteSet(R) /\ Valued(R) /\ R \subseteq Deposit!JournalEntries
    BY JournalSets DEF Grown
  <2> QED BY <2>1, EntryParts
<1>3. Deposit!EntriesOf(R, d) = {}
  <2>1. \A m \in 1..(n - 1) : m \in 1..N /\ m # n
    OBVIOUS
  <2>2. \A m \in 1..(n - 1) : s[m] # d
    BY <2>1
  <2> QED BY <2>2 DEF Took, Deposit!EntriesOf
<1>4. Deposit!Sum(R) =< u
  BY DEF Took
<1>m. \A m \in 1..n : m \in 1..(n - 1) \/ m = n
  OBVIOUS
<1>p. \A m \in 1..(n - 1) : m \in 1..n
  OBVIOUS
<1>5. u - Deposit!Sum(R) \in Nat
  BY <1>2, <1>4
<1> DEFINE c == WithEntry(es, s, l, i, u, n, b)
           X == Deposit!Entry(b, d, l[d], i, u - Deposit!Sum(R))
<1>6. c = b \cup X
  BY DEF WithEntry
<1>7. \/ (l[d] = 0 \/ u - Deposit!Sum(R) = 0) /\ X = {}
      \/ \E x : /\ X = {x} /\ x \in Deposit!JournalEntries /\ x \notin b
                /\ x.deposit = d /\ x.invoice = i /\ x.drawn
                /\ x.amount =< l[d] /\ x.amount =< u - Deposit!Sum(R)
                /\ x.amount \in {l[d], u - Deposit!Sum(R)}
  <2> HIDE DEF d, R, X
  <2>1. IsFiniteSet(b)
    BY DEF Grown
  <2> PICK m \in Nat : m = l[d]
    BY <1>1
  <2> PICK v \in Nat : v = u - Deposit!Sum(R)
    BY <1>5
  <2>2. X = Deposit!Entry(b, d, m, i, v)
    BY DEF X
  <2>3. d \in Peers /\ m \in Nat /\ v \in Nat
    BY <1>1
  <2>4. \/ (m = 0 \/ v = 0) /\ Deposit!Entry(b, d, m, i, v) = {}
        \/ \E x : /\ Deposit!Entry(b, d, m, i, v) = {x}
                  /\ x \in Deposit!JournalEntries /\ x \notin b
                  /\ x.deposit = d /\ x.invoice = i /\ x.drawn
                  /\ x.amount =< m /\ x.amount =< v /\ x.amount \in {m, v}
    BY ONLY <2>1, <2>3, EntryMade
  <2> QED BY <2>2, <2>4, Zenon
<1> HIDE DEF c, X
<1>8. CASE (l[d] = 0 \/ u - Deposit!Sum(R) = 0) /\ X = {}
  <2>1. c = b /\ c \ es = R
    BY <1>6, <1>8
  <2>2. Deposit!Sum(Deposit!EntriesOf(R, d)) = 0
    BY <1>3, EntryNone
  <2>3. Took(R, s, n, l, i, u)
    <3>1. Deposit!Sum(R) = u \/ l[d] = 0
      BY <1>2, <1>8
    <3>2. \A e \in R : e.invoice = i /\ e.drawn /\ \E m \in 1..n : e.deposit = s[m]
      BY <1>p DEF Took
    <3>3. \A m \in 1..n : Deposit!Sum(Deposit!EntriesOf(R, s[m])) =< l[s[m]]
      <4>1. \A m \in 1..(n - 1) : Deposit!Sum(Deposit!EntriesOf(R, s[m])) =< l[s[m]]
        BY DEF Took
      <4>2. Deposit!Sum(Deposit!EntriesOf(R, s[n])) =< l[s[n]]
        BY <1>1, <2>2
      <4> QED BY <1>m, <4>1, <4>2
    <3>4. \/ Deposit!Sum(R) = u
          \/ \A m \in 1..n : Deposit!Sum(Deposit!EntriesOf(R, s[m])) = l[s[m]]
      BY <1>m, <2>2, <3>1 DEF Took
      <3> HIDE DEF R, d
      <3> QED BY <1>4, <3>2, <3>3, <3>4, TookIs
  <2>4. Grown(b, es)
    OBVIOUS
  <2> QED BY <2>1, <2>3, <2>4 DEF R, c
<1>9. CASE \E x : /\ X = {x} /\ x \in Deposit!JournalEntries /\ x \notin b
                  /\ x.deposit = d /\ x.invoice = i /\ x.drawn
                  /\ x.amount =< l[d] /\ x.amount =< u - Deposit!Sum(R)
                  /\ x.amount \in {l[d], u - Deposit!Sum(R)}
  <2>1. PICK x : /\ X = {x} /\ x \in Deposit!JournalEntries /\ x \notin b
                 /\ x.deposit = d /\ x.invoice = i /\ x.drawn
                 /\ x.amount =< l[d] /\ x.amount =< u - Deposit!Sum(R)
                 /\ x.amount \in {l[d], u - Deposit!Sum(R)}
    BY <1>9
  <2>2. Grown(c, es)
    BY <1>6, <2>1, FS_AddElement DEF Grown
  <2>3. c \ es = R \cup {x} /\ R \cap {x} = {}
    BY <1>6, <2>1 DEF Grown
  <2>4. x.amount \in Nat
    BY <2>1 DEF Deposit!JournalEntries
  <2>5. Deposit!Sum(R \cup {x}) = Deposit!Sum(R) + x.amount
    <3>1. IsFiniteSet({x}) /\ Valued({x}) /\ Deposit!Sum({x}) = x.amount
      BY <2>4, EntryOne, FS_Singleton DEF Valued
    <3> QED BY <1>2, <2>3, <3>1, EntryUnion
  <2>6. Deposit!EntriesOf(R \cup {x}, d) = {x} /\ Deposit!Sum({x}) = x.amount
    BY <1>3, <2>1, <2>4, EntryOne DEF Deposit!EntriesOf
  <2>7. \A m \in 1..(n - 1) : Deposit!EntriesOf(R \cup {x}, s[m]) = Deposit!EntriesOf(R, s[m])
    <3>1. \A m \in 1..(n - 1) : m \in 1..N /\ m # n
      OBVIOUS
    <3>2. \A m \in 1..(n - 1) : s[m] # d
      BY <3>1
    <3> QED BY <2>1, <3>2 DEF Deposit!EntriesOf
  <2>8. Took(R \cup {x}, s, n, l, i, u)
    <3>1. Deposit!Sum(R) + x.amount =< u /\ (x.amount = l[d] \/ Deposit!Sum(R) + x.amount = u)
      BY <1>2, <2>1, <2>4
    <3>2. \A e \in R \cup {x} : e.invoice = i /\ e.drawn /\ \E m \in 1..n : e.deposit = s[m]
      BY <1>p, <2>1 DEF Took
    <3>3. \A m \in 1..n : Deposit!Sum(Deposit!EntriesOf(R \cup {x}, s[m])) =< l[s[m]]
      <4>1. \A m \in 1..(n - 1) : Deposit!Sum(Deposit!EntriesOf(R \cup {x}, s[m])) =< l[s[m]]
        BY <2>7 DEF Took
      <4> QED BY <1>m, <2>1, <2>6, <4>1
    <3>4. \/ Deposit!Sum(R \cup {x}) = u
          \/ \A m \in 1..n : Deposit!Sum(Deposit!EntriesOf(R \cup {x}, s[m])) = l[s[m]]
      <4>1. CASE Deposit!Sum(R) + x.amount = u
        BY <2>5, <4>1
      <4>2. CASE x.amount = l[d] /\ Deposit!Sum(R) + x.amount # u
        <5>1. CASE Deposit!Sum(R) = u
          BY <1>2, <2>4, <3>1, <4>2, <5>1
        <5>2. CASE \A m \in 1..(n - 1) : Deposit!Sum(Deposit!EntriesOf(R, s[m])) = l[s[m]]
          BY <1>m, <2>6, <2>7, <4>2, <5>2
        <5> QED BY <5>1, <5>2 DEF Took
      <4> QED BY <3>1, <4>1, <4>2
    <3>5. Deposit!Sum(R \cup {x}) =< u
      BY <2>5, <3>1
    <3> HIDE DEF R, d
    <3> QED BY <3>2, <3>3, <3>4, <3>5, TookIs
  <2> QED BY <2>2, <2>3, <2>8 DEF c
<1> QED BY <1>7, <1>8, <1>9

LEMMA TookAll ==
    ASSUME NEW es, IsFiniteSet(es), es \subseteq Deposit!JournalEntries,
           NEW ds \in SUBSET Peers, NEW N \in Nat, NEW s \in [1..N -> ds],
           \A m, n \in 1..N : m # n => s[m] # s[n],
           NEW l, \A d \in ds : l[d] \in Nat,
           NEW i \in Invoices, NEW u \in Nat,
           NEW p, IsPaid(p, es, s, l, i, u, N)
    PROVE  Grown(p[N], es) /\ Took(p[N] \ es, s, N, l, i, u)
<1> DEFINE Good(n) == Grown(p[n], es) /\ Took(p[n] \ es, s, n, l, i, u)
           C == {n \in 0..N : ~Good(n)}
<1>0. Good(0)
  <2>1. p[0] = es
    BY DEF IsPaid
  <2>2. es \ es = {} /\ Deposit!Sum({}) = 0
    BY EntryNone
  <2>3. Took({}, s, 0, l, i, u)
    BY <2>2 DEF Took
  <2> QED BY <2>1, <2>2, <2>3 DEF Grown
<1> HIDE DEF Good
<1>1. ASSUME C # {} PROVE FALSE
  <2>1. PICK n \in C : \A m \in C : n =< m
    <3>1. C \in SUBSET Nat
      OBVIOUS
    <3> HIDE DEF C
    <3> QED BY <1>1, <3>1, SmallestNumber
  <2>2. n \in 0..N /\ ~Good(n)
    OBVIOUS
  <2>3. n \in 1..N /\ n - 1 \in 0..N
    BY <1>0, <2>2
  <2>4. Good(n - 1)
    BY <2>1, <2>3
  <2>5. p[n] = WithEntry(es, s, l, i, u, n, p[n - 1])
    BY <2>2, <2>3 DEF IsPaid
  <2>6. Grown(p[n - 1], es) /\ Took(p[n - 1] \ es, s, n - 1, l, i, u)
    BY <2>4 DEF Good
  <2> DEFINE b == p[n - 1]
  <2> HIDE DEF b
  <2>7. /\ Grown(WithEntry(es, s, l, i, u, n, b), es)
        /\ Took(WithEntry(es, s, l, i, u, n, b) \ es, s, n, l, i, u)
    <3>1. Grown(b, es) /\ Took(b \ es, s, n - 1, l, i, u)
      BY <2>6 DEF b
    <3> QED BY <2>3, <3>1, TookOne
  <2> QED BY <2>2, <2>5, <2>7 DEF b, Good
<1>2. Good(N)
  BY <1>1
<1> QED BY <1>2 DEF Good

(* What the entries R, made for the invoice i, take of the deposits ds,    *)
(* each of which has l: no more than that and than u, which the invoice    *)
(* needs, and all of the one or of the other.                              *)
Made(R, ds, l, i, u) ==
    /\ \A e \in R : e.invoice = i /\ e.drawn /\ e.deposit \in ds
    /\ Deposit!Sum(R) =< u
    /\ \A d \in ds : Deposit!Sum(Deposit!EntriesOf(R, d)) =< l[d]
    /\ \/ Deposit!Sum(R) = u
       \/ \A d \in ds : Deposit!Sum(Deposit!EntriesOf(R, d)) = l[d]

LEMMA ReconciledMakes ==
    ASSUME NEW es, IsFiniteSet(es), es \subseteq Deposit!JournalEntries,
           NEW ds \in SUBSET Peers, IsFiniteSet(ds),
           NEW l, \A d \in ds : l[d] \in Nat,
           NEW i \in Invoices, NEW u \in Nat,
           NEW x \in Deposit!Reconciled(es, ds, l, i, u)
    PROVE  Grown(x, es) /\ Made(x \ es, ds, l, i, u)
<1> DEFINE N == Cardinality(ds)
<1>1. N \in Nat
  BY FS_CardinalityType
<1>2. PICK s, p : /\ s \in [1..N -> ds]
                  /\ \A m, n \in 1..N : m # n => s[m] # s[n]
                  /\ IsPaid(p, es, s, l, i, u, N)
                  /\ x = p[N]
  <2>1. ByTurns(x, es, ds, l, i, u)
    BY ReconciledIs
  <2> QED BY <2>1 DEF ByTurns
<1>3. \A d \in ds : \E m \in 1..N : d = s[m]
  <2>1. s \in Injection(1..N, ds)
    BY <1>2 DEF Injection, IsInjective
  <2>2. Cardinality(1..N) = N
    BY <1>1, FS_Interval
  <2>3. s \in Surjection(1..N, ds)
    BY <2>1, <2>2, FS_Injection
  <2> QED BY <2>3 DEF Surjection
<1> HIDE DEF N
<1>4. Grown(p[N], es) /\ Took(p[N] \ es, s, N, l, i, u)
  BY <1>1, <1>2, TookAll
<1> DEFINE R == x \ es
<1>5. Grown(x, es) /\ Took(R, s, N, l, i, u)
  BY <1>2, <1>4
<1> HIDE DEF R
<1>6. \A m \in 1..N : s[m] \in ds
  BY <1>2
<1>7. \A e \in R : e.invoice = i /\ e.drawn /\ e.deposit \in ds
  BY <1>5, <1>6 DEF Took
<1>8. Made(R, ds, l, i, u)
  <2>1. \A d \in ds : Deposit!Sum(Deposit!EntriesOf(R, d)) =< l[d]
    BY <1>3, <1>5 DEF Took
  <2>2. \/ Deposit!Sum(R) = u
        \/ \A d \in ds : Deposit!Sum(Deposit!EntriesOf(R, d)) = l[d]
    BY <1>3, <1>5 DEF Took
  <2>3. Deposit!Sum(R) =< u
    BY <1>5 DEF Took
  <2> QED BY <1>7, <2>1, <2>2, <2>3 DEF Made
<1> QED BY <1>5, <1>8 DEF R

(* All of an invoice is paid, or all of each of the deposits is used.      *)
Settled(es, ps, bs, i, ds) ==
    \/ bs[i].amount - Deposit!Sum(Deposit!EntriesFor(es, i)) = 0
    \/ \A d \in ds : ps[d].amount - Deposit!Sum(DrawnOf(es, d)) = 0

LEMMA SoundLeft ==
    ASSUME NEW es, NEW ps, NEW bs, NEW lo, Sound(es, ps, bs, lo),
           ps \in [Peers -> Deposit!Payments \cup {None}],
           bs \in [Invoices -> Deposit!Bills \cup {None}],
           NEW ds \in SUBSET Deposit!Posted(ps), IsFiniteSet(ds),
           NEW l, \A d \in ds : l[d] = ps[d].amount - Deposit!Sum(DrawnOf(es, d)),
           NEW i \in Invoices, bs[i] # None, bs[i].state = "posted",
           NEW u, u = bs[i].amount - Deposit!Sum(Deposit!EntriesFor(es, i))
    PROVE  /\ IsFiniteSet(es) /\ es \subseteq Deposit!JournalEntries
           /\ \A d \in ds : d \in Peers /\ l[d] \in Nat
           /\ u \in Nat
<1>1. IsFiniteSet(es) /\ es \subseteq Deposit!JournalEntries
  BY DEF Sound, Joined
<1>2. \A S \in SUBSET es : IsFiniteSet(S) /\ Valued(S) /\ Deposit!Sum(S) \in Nat
  <2> TAKE S \in SUBSET es
  <2>1. IsFiniteSet(S) /\ Valued(S)
    BY <1>1, JournalSets
  <2> QED BY <2>1, EntryParts
<1>3. /\ \A d : DrawnOf(es, d) \in SUBSET es
      /\ \A j : Deposit!EntriesFor(es, j) \in SUBSET es
  BY DEF DrawnOf, Deposit!EntriesFor
<1>4. /\ \A d \in Deposit!Posted(ps) : d \in Peers /\ ps[d] # None /\ ps[d].state = "posted"
                                       /\ ps[d].amount \in Nat
      /\ \A j \in Invoices : bs[j] # None => bs[j].amount \in Nat
  BY DEF Deposit!Posted, Deposit!Payments, Deposit!Bills
<1>5. \A d \in ds : l[d] \in Nat
  <2> TAKE d \in ds
  <2>1. ps[d].amount \in Nat /\ Deposit!Sum(DrawnOf(es, d)) \in Nat
    BY <1>2, <1>3, <1>4
  <2>2. Deposit!Sum(DrawnOf(es, d)) =< ps[d].amount
    BY DEF Sound, Covered
  <2> QED BY <2>1, <2>2
<1>6. u \in Nat
  <2>1. bs[i].amount \in Nat /\ Deposit!Sum(Deposit!EntriesFor(es, i)) \in Nat
    BY <1>2, <1>3, <1>4
  <2>2. Deposit!Sum(Deposit!EntriesFor(es, i)) =< bs[i].amount
    BY DEF Sound, NotOverpaid
  <2> QED BY <2>1, <2>2
<1> QED BY <1>1, <1>4, <1>5, <1>6

LEMMA MadeSound ==
    ASSUME NEW es, NEW ps, NEW bs, NEW lo, Sound(es, ps, bs, lo),
           ps \in [Peers -> Deposit!Payments \cup {None}],
           bs \in [Invoices -> Deposit!Bills \cup {None}],
           NEW ds \in SUBSET Deposit!Posted(ps), IsFiniteSet(ds),
           NEW l, \A d \in ds : l[d] = ps[d].amount - Deposit!Sum(DrawnOf(es, d)),
           NEW i \in Invoices, bs[i] # None, bs[i].state = "posted",
           NEW u, u = bs[i].amount - Deposit!Sum(Deposit!EntriesFor(es, i)),
           NEW x, Grown(x, es), Made(x \ es, ds, l, i, u)
    PROVE  Sound(x, ps, bs, lo) /\ Settled(x, ps, bs, i, ds)
<1>1. IsFiniteSet(es) /\ es \subseteq Deposit!JournalEntries
  BY DEF Sound, Joined
<1>2. \A S \in SUBSET es : IsFiniteSet(S) /\ Valued(S) /\ Deposit!Sum(S) \in Nat
  <2> TAKE S \in SUBSET es
  <2>1. IsFiniteSet(S) /\ Valued(S)
    BY <1>1, JournalSets
  <2> QED BY <2>1, EntryParts
<1>3. /\ \A d : DrawnOf(es, d) \in SUBSET es
      /\ \A j : Deposit!EntriesFor(es, j) \in SUBSET es
  BY DEF DrawnOf, Deposit!EntriesFor
<1>4. /\ \A d \in Deposit!Posted(ps) : d \in Peers /\ ps[d] # None /\ ps[d].state = "posted"
                                       /\ ps[d].amount \in Nat
      /\ \A j \in Invoices : bs[j] # None => bs[j].amount \in Nat
  BY DEF Deposit!Posted, Deposit!Payments, Deposit!Bills
<1> DEFINE R == x \ es
<1>7. Grown(x, es) /\ Made(R, ds, l, i, u)
  OBVIOUS
<1>8. x = es \cup R /\ IsFiniteSet(x) /\ x \subseteq Deposit!JournalEntries
      /\ R \cap es = {} /\ R \in SUBSET x
  BY <1>7 DEF Grown
<1> HIDE DEF R
<1>9. \A S \in SUBSET x : IsFiniteSet(S) /\ Valued(S) /\ Deposit!Sum(S) \in Nat
  <2> TAKE S \in SUBSET x
  <2>1. IsFiniteSet(S) /\ Valued(S)
    BY <1>8, JournalSets
  <2> QED BY <2>1, EntryParts
<1>10. Joined(x, ps, bs, lo)
  <2>1. \A e \in R : e.deposit \in Deposit!Posted(ps) /\ e.invoice = i /\ e.drawn
    BY <1>7 DEF Made
  <2>2. ASSUME NEW e \in R
        PROVE  /\ ps[e.deposit] # None /\ bs[e.invoice] # None
               /\ bs[e.invoice].state = "posted"
               /\ e.drawn => ps[e.deposit].state = "posted"
               /\ e.deposit \notin lo => e.drawn
    <3>1. ps[e.deposit] # None /\ ps[e.deposit].state = "posted"
      BY <1>4, <2>1
    <3> QED BY <2>1, <3>1
  <2>3. Joined(es, ps, bs, lo)
    BY DEF Sound
  <2> QED BY <1>8, <2>2, <2>3 DEF Joined
<1>11. \A d \in Deposit!Posted(ps) :
          /\ Deposit!Sum(DrawnOf(x, d)) \in Nat
          /\ d \in ds => Deposit!Sum(DrawnOf(x, d))
                         = Deposit!Sum(DrawnOf(es, d)) + Deposit!Sum(Deposit!EntriesOf(R, d))
          /\ d \notin ds => DrawnOf(x, d) = DrawnOf(es, d)
  <2> TAKE d \in Deposit!Posted(ps)
  <2>1. DrawnOf(x, d) \in SUBSET x /\ DrawnOf(es, d) \in SUBSET x
        /\ Deposit!EntriesOf(R, d) \in SUBSET x
    BY <1>8 DEF DrawnOf, Deposit!EntriesOf
  <2>2. DrawnOf(x, d) = DrawnOf(es, d) \cup Deposit!EntriesOf(R, d)
    BY <1>7, <1>8 DEF Made, DrawnOf, Deposit!EntriesOf
  <2>3. DrawnOf(es, d) \cap Deposit!EntriesOf(R, d) = {}
    BY <1>8 DEF DrawnOf, Deposit!EntriesOf
  <2>4. d \notin ds => Deposit!EntriesOf(R, d) = {}
    BY <1>7 DEF Made, Deposit!EntriesOf
  <2> DEFINE a == DrawnOf(es, d)
             b == Deposit!EntriesOf(R, d)
  <2>5. Deposit!Sum(a \cup b) = Deposit!Sum(a) + Deposit!Sum(b)
    <3> HIDE DEF a, b
    <3>1. IsFiniteSet(a) /\ Valued(a) /\ IsFiniteSet(b) /\ Valued(b) /\ a \cap b = {}
      BY <1>9, <2>1, <2>3 DEF a, b
    <3> QED BY <3>1, EntryUnion
  <2> QED BY <1>9, <2>1, <2>2, <2>4, <2>5
<1>12. \A d \in ds : l[d] = ps[d].amount - Deposit!Sum(DrawnOf(es, d))
                     /\ Deposit!Sum(DrawnOf(es, d)) \in Nat /\ ps[d].amount \in Nat
                     /\ Deposit!Sum(Deposit!EntriesOf(R, d)) \in Nat
                     /\ Deposit!Sum(Deposit!EntriesOf(R, d)) =< l[d]
  <2> TAKE d \in ds
  <2>1. Deposit!EntriesOf(R, d) \in SUBSET x
    BY <1>8 DEF Deposit!EntriesOf
  <2>2. Deposit!Sum(DrawnOf(es, d)) \in Nat
    BY <1>2, <1>3
  <2>3. Deposit!Sum(Deposit!EntriesOf(R, d)) =< l[d]
    BY <1>7 DEF Made
  <2> QED BY <1>4, <1>9, <2>1, <2>2, <2>3
<1>13. Covered(x, ps)
  <2> SUFFICES ASSUME NEW d \in Deposit!Posted(ps)
               PROVE  Deposit!Sum(DrawnOf(x, d)) =< ps[d].amount
    BY DEF Covered
  <2>1. CASE d \notin ds
    BY <1>11, <2>1 DEF Sound, Covered
  <2>2. CASE d \in ds
    BY <1>11, <1>12, <2>2
  <2> QED BY <2>1, <2>2
<1>14. Deposit!Sum(Deposit!EntriesFor(x, i)) = Deposit!Sum(Deposit!EntriesFor(es, i)) + Deposit!Sum(R)
  <2> DEFINE a == Deposit!EntriesFor(es, i)
  <2>1. Deposit!EntriesFor(x, i) = a \cup R
    BY <1>7, <1>8 DEF Made, Deposit!EntriesFor
  <2>2. a \in SUBSET x /\ a \cap R = {}
    BY <1>8 DEF Deposit!EntriesFor
  <2> HIDE DEF a
  <2>3. IsFiniteSet(a) /\ Valued(a) /\ IsFiniteSet(R) /\ Valued(R)
    BY <1>8, <1>9, <2>2
  <2>4. Deposit!Sum(a \cup R) = Deposit!Sum(a) + Deposit!Sum(R)
    BY <2>2, <2>3, EntryUnion
  <2> QED BY <2>1, <2>4 DEF a
<1>15. /\ Deposit!Sum(Deposit!EntriesFor(es, i)) \in Nat /\ Deposit!Sum(R) \in Nat
       /\ bs[i].amount \in Nat /\ Deposit!Sum(R) =< u
  BY <1>2, <1>3, <1>4, <1>7, <1>8, <1>9 DEF Made
<1>16. NotOverpaid(x, bs)
  <2> SUFFICES ASSUME NEW j \in Invoices, bs[j] # None, bs[j].state = "posted"
               PROVE  Deposit!Sum(Deposit!EntriesFor(x, j)) =< bs[j].amount
    BY DEF NotOverpaid
  <2>1. CASE j = i
    BY <1>14, <1>15, <2>1
  <2>2. CASE j # i
    <3>1. Deposit!EntriesFor(x, j) = Deposit!EntriesFor(es, j)
      BY <1>7, <1>8, <2>2 DEF Made, Deposit!EntriesFor
    <3> QED BY <3>1 DEF Sound, NotOverpaid
  <2> QED BY <2>1, <2>2
<1>17. Settled(x, ps, bs, i, ds)
  <2>1. CASE Deposit!Sum(R) = u
    <3>1. bs[i].amount - Deposit!Sum(Deposit!EntriesFor(x, i)) = 0
      BY <1>14, <1>15, <2>1
    <3> QED BY <3>1 DEF Settled
  <2>2. CASE \A d \in ds : Deposit!Sum(Deposit!EntriesOf(R, d)) = l[d]
    <3>1. \A d \in ds : ps[d].amount - Deposit!Sum(DrawnOf(x, d)) = 0
      BY <1>11, <1>12, <2>2
    <3> QED BY <3>1 DEF Settled
  <2> QED BY <1>7, <2>1, <2>2 DEF Made
<1> QED BY <1>10, <1>13, <1>16, <1>17 DEF Sound

LEMMA ReconciledSound ==
    ASSUME NEW es, NEW ps, NEW bs, NEW lo, Sound(es, ps, bs, lo),
           ps \in [Peers -> Deposit!Payments \cup {None}],
           bs \in [Invoices -> Deposit!Bills \cup {None}],
           NEW ds \in SUBSET Deposit!Posted(ps), IsFiniteSet(ds),
           NEW l, \A d \in ds : l[d] = ps[d].amount - Deposit!Sum(DrawnOf(es, d)),
           NEW i \in Invoices, bs[i] # None, bs[i].state = "posted",
           NEW u, u = bs[i].amount - Deposit!Sum(Deposit!EntriesFor(es, i)),
           NEW x \in Deposit!Reconciled(es, ds, l, i, u)
    PROVE  Sound(x, ps, bs, lo) /\ Settled(x, ps, bs, i, ds)
<1>1. /\ IsFiniteSet(es) /\ es \subseteq Deposit!JournalEntries
      /\ \A d \in ds : d \in Peers /\ l[d] \in Nat
      /\ u \in Nat
  BY SoundLeft
<1>2. ds \in SUBSET Peers
  BY <1>1
<1>3. Grown(x, es) /\ Made(x \ es, ds, l, i, u)
  BY <1>1, <1>2, ReconciledMakes
<1> QED BY <1>3, MadeSound

IsPayments(ps) == ps \in [Peers -> Deposit!Payments \cup {None}]
IsBills(bs) == bs \in [Invoices -> Deposit!Bills \cup {None}]
OrderRows == [state : {"draft", "sale", "cancel"}, total : Nat, delivered : Nat]

DepositTypes ==
    /\ order \in OrderRows /\ IsPayments(deposit) /\ IsBills(invoice)
    /\ peak \in Nat /\ order.total =< peak
    /\ unchecked \in BOOLEAN

(* What the rows say of each other, and that no more is paid than there is *)
(* and than is asked for.                                                  *)
DepositInv ==
    /\ DepositTypes
    /\ Sound(entries, deposit, invoice, loose)
    /\ unchecked \/ Deposit!DepositTotal(deposit) =< peak

LEMMA DepositFacts ==
    /\ None \notin Deposit!Payments /\ None \notin Deposit!Bills
    /\ IsFiniteSet(Peers) /\ IsFiniteSet(Invoices) /\ Deposit!Amounts \subseteq Nat
BY DepositsGiven, SameCardinality DEF Deposit!DepositsAssumption, Deposit!Amounts

LEMMA DepositsSum ==
    ASSUME NEW ps, IsFiniteSet(Deposit!OrderDeposits(ps)),
           NEW f, \A d \in Deposit!OrderDeposits(ps) : f[d] = ps[d].amount
    PROVE  Deposit!DepositTotal(ps) = Total(f, Deposit!OrderDeposits(ps))
<1> DEFINE S == Deposit!OrderDeposits(ps)
<1>0. Deposit!DepositTotal(ps) = Deposit!MapThenSumSet(LAMBDA d : ps[d].amount, S)
  BY DEF Deposit!DepositTotal
<1> HIDE DEF S
<1>f. IsFiniteSet(S) /\ \A d \in S : f[d] = ps[d].amount
  BY DEF S
<1>1. PICK h : IsSum(h, f, S)
  BY <1>f, SumExists
<1> DEFINE g == CHOOSE it : it = [s \in SUBSET S |->
                    IF s = {} THEN 0
                    ELSE ps[CHOOSE x \in s : TRUE].amount + it[s \ {CHOOSE x \in s : TRUE}]]
<1>2. \A s \in SUBSET S : s # {} => f[CHOOSE x \in s : TRUE] = ps[CHOOSE x \in s : TRUE].amount
  BY <1>f
<1>3. h = [s \in SUBSET S |->
             IF s = {} THEN 0
             ELSE ps[CHOOSE x \in s : TRUE].amount + h[s \ {CHOOSE x \in s : TRUE}]]
  BY <1>1, <1>2 DEF IsSum, PickFrom
<1>4. g = [s \in SUBSET S |->
             IF s = {} THEN 0
             ELSE ps[CHOOSE x \in s : TRUE].amount + g[s \ {CHOOSE x \in s : TRUE}]]
  BY <1>3, ZenonT(20)
<1> HIDE DEF g
<1>5. IsSum(g, f, S)
  BY <1>2, <1>4 DEF IsSum, PickFrom
<1>6. Deposit!DepositTotal(ps) = g[S]
  BY <1>0 DEF g, Deposit!MapThenSumSet, Deposit!MapThenFoldSet
<1>7. PICK k : IsSum(k, f, S) /\ Total(f, S) = k[S]
  BY <1>f, TotalIs
<1>8. g[S] = k[S]
  BY <1>5, <1>7, <1>f, SumUnique
<1> QED BY <1>6, <1>7, <1>8 DEF S

LEMMA OrderDepositsAre ==
    ASSUME NEW ps, IsPayments(ps)
    PROVE  /\ IsFiniteSet(Deposit!OrderDeposits(ps))
           /\ \A d : d \in Deposit!OrderDeposits(ps) <=>
                  d \in Peers /\ ps[d] # None /\ ps[d].state = "posted" /\ ps[d].linked
           /\ \A d \in Deposit!OrderDeposits(ps) : ps[d].amount \in Nat
<1>1. \A d : d \in Deposit!OrderDeposits(ps) <=>
           d \in Peers /\ ps[d] # None /\ ps[d].state = "posted" /\ ps[d].linked
  BY DEF Deposit!OrderDeposits, Deposit!Posted
<1>2. IsFiniteSet(Deposit!OrderDeposits(ps))
  BY <1>1, DepositFacts, FS_Subset
<1>3. \A d \in Deposit!OrderDeposits(ps) : ps[d].amount \in Nat
  BY <1>1 DEF IsPayments, Deposit!Payments
<1> QED BY <1>1, <1>2, <1>3

(* Losing deposits does not make the sum of an order's more.               *)
LEMMA FewerDeposits ==
    ASSUME NEW ps, IsPayments(ps), NEW qs, IsPayments(qs),
           Deposit!OrderDeposits(qs) \subseteq Deposit!OrderDeposits(ps),
           \A d \in Deposit!OrderDeposits(qs) : qs[d].amount = ps[d].amount
    PROVE  /\ Deposit!DepositTotal(ps) \in Nat /\ Deposit!DepositTotal(qs) \in Nat
           /\ Deposit!DepositTotal(qs) =< Deposit!DepositTotal(ps)
<1> PICK f : f = [d \in Deposit!OrderDeposits(ps) |-> ps[d].amount]
  OBVIOUS
<1> DEFINE S == Deposit!OrderDeposits(ps)
           T == Deposit!OrderDeposits(qs)
<1>1. /\ IsFiniteSet(S) /\ IsFiniteSet(T) /\ T \in SUBSET S
      /\ \A d \in S : f[d] = ps[d].amount /\ f[d] \in Nat
      /\ \A d \in T : f[d] = qs[d].amount
  BY OrderDepositsAre
<1>2. Deposit!DepositTotal(ps) = Total(f, S) /\ Deposit!DepositTotal(qs) = Total(f, T)
  BY <1>1, DepositsSum
<1> HIDE DEF S, T
<1>3. /\ Total(f, T) \in Nat /\ Total(f, S \ T) \in Nat /\ Total(f, S) \in Nat
      /\ Total(f, S) = Total(f, T) + Total(f, S \ T)
  BY <1>1, TotalParts
<1> QED BY <1>2, <1>3

LEMMA OneMoreDeposit ==
    ASSUME NEW ps, IsPayments(ps), NEW qs, IsPayments(qs), NEW d,
           d \notin Deposit!OrderDeposits(ps),
           Deposit!OrderDeposits(qs) = Deposit!OrderDeposits(ps) \cup {d},
           \A c \in Deposit!OrderDeposits(ps) : qs[c].amount = ps[c].amount
    PROVE  /\ Deposit!DepositTotal(ps) \in Nat /\ qs[d].amount \in Nat
           /\ Deposit!DepositTotal(qs) = Deposit!DepositTotal(ps) + qs[d].amount
<1> PICK f : f = [c \in Deposit!OrderDeposits(qs) |-> qs[c].amount]
  OBVIOUS
<1> DEFINE S == Deposit!OrderDeposits(qs)
           T == Deposit!OrderDeposits(ps)
<1>1. /\ IsFiniteSet(S) /\ IsFiniteSet(T) /\ d \in S /\ S \ {d} = T
      /\ \A c \in S : f[c] = qs[c].amount /\ f[c] \in Nat
      /\ \A c \in T : f[c] = ps[c].amount /\ f[c] \in Nat
  BY OrderDepositsAre
<1>2. Deposit!DepositTotal(ps) = Total(f, T) /\ Deposit!DepositTotal(qs) = Total(f, S)
  BY <1>1, DepositsSum
<1> HIDE DEF S, T
<1>3. Total(f, S) = f[d] + Total(f, S \ {d})
  BY <1>1, TotalTake
<1>4. Total(f, T) \in Nat
  BY <1>1, TotalTake
<1>5. f[d] \in Nat /\ f[d] = qs[d].amount
  BY <1>1
<1>6. Total(f, S) = f[d] + Total(f, T)
  BY <1>1, <1>3
<1> QED BY <1>2, <1>4, <1>5, <1>6

LEMMA NoDeposit ==
    ASSUME NEW ps, Deposit!OrderDeposits(ps) = {} PROVE Deposit!DepositTotal(ps) = 0
<1>1. Deposit!DepositTotal(ps) = Total([d \in {} |-> 0], {})
  BY DepositsSum, FS_EmptySet
<1>2. Total([d \in {} |-> 0], {}) = 0
  BY TotalTake, FS_EmptySet
<1> QED BY <1>1, <1>2

LEMMA InvoicedIsNat ==
    ASSUME invoice \in [Invoices -> Deposit!Bills \cup {None}]
    PROVE  Deposit!Invoiced \in Nat
<1> DEFINE S == {i \in Invoices : invoice[i] # None /\ invoice[i].state # "cancel"}
<1>1. IsFiniteSet(S)
  BY DepositFacts, FS_Subset
<1>2. \A i \in S : invoice[i].amount \in Nat
  BY DEF Deposit!Bills
<1>0. Deposit!Invoiced = Deposit!MapThenSumSet(LAMBDA i : invoice[i].amount, S)
  BY DEF Deposit!Invoiced
<1> HIDE DEF S
<1> PICK f : f = [i \in S |-> invoice[i].amount]
  OBVIOUS
<1>f. \A i \in S : f[i] = invoice[i].amount /\ f[i] \in Nat
  BY <1>2
<1>3. PICK h : IsSum(h, f, S)
  BY <1>1, SumExists
<1> DEFINE g == CHOOSE it : it = [s \in SUBSET S |->
                    IF s = {} THEN 0
                    ELSE invoice[CHOOSE x \in s : TRUE].amount + it[s \ {CHOOSE x \in s : TRUE}]]
<1>4. \A s \in SUBSET S : s # {} =>
         f[CHOOSE x \in s : TRUE] = invoice[CHOOSE x \in s : TRUE].amount
  BY <1>f
<1>5. h = [s \in SUBSET S |->
             IF s = {} THEN 0
             ELSE invoice[CHOOSE x \in s : TRUE].amount + h[s \ {CHOOSE x \in s : TRUE}]]
  BY <1>3, <1>4 DEF IsSum, PickFrom
<1>6. g = [s \in SUBSET S |->
             IF s = {} THEN 0
             ELSE invoice[CHOOSE x \in s : TRUE].amount + g[s \ {CHOOSE x \in s : TRUE}]]
  BY <1>5
<1> HIDE DEF g
<1>7. IsSum(g, f, S)
  BY <1>4, <1>6 DEF IsSum, PickFrom
<1>8. Deposit!Invoiced = g[S]
  BY <1>0 DEF g, Deposit!MapThenSumSet, Deposit!MapThenFoldSet
<1>9. PICK k : IsSum(k, f, S) /\ Total(f, S) = k[S]
  BY <1>1, TotalIs
<1>10. g[S] = k[S]
  BY <1>1, <1>7, <1>9, SumUnique
<1>11. Total(f, S) \in Nat
  BY <1>1, <1>f, TotalTake
<1> QED BY <1>8, <1>9, <1>10, <1>11

LEMMA PaymentFacts ==
    /\ \A p \in Deposit!Payments :
         /\ p # None /\ p.amount \in Nat /\ p.state \in {"draft", "posted"} /\ p.linked \in BOOLEAN
         /\ p = [amount |-> p.amount, state |-> p.state, linked |-> p.linked]
    /\ \A a \in Nat, s \in {"draft", "posted"}, b \in BOOLEAN :
         [amount |-> a, state |-> s, linked |-> b] \in Deposit!Payments
    /\ \A q \in Deposit!Bills :
         /\ q # None /\ q.amount \in Nat /\ q.state \in {"draft", "posted", "cancel"}
         /\ q = [amount |-> q.amount, state |-> q.state]
    /\ \A a \in Nat, s \in {"draft", "posted", "cancel"} :
         [amount |-> a, state |-> s] \in Deposit!Bills
<1>1. None \notin Deposit!Payments /\ None \notin Deposit!Bills
  BY DepositFacts
<1>2. \A p \in Deposit!Payments :
         /\ p.amount \in Nat /\ p.state \in {"draft", "posted"} /\ p.linked \in BOOLEAN
         /\ p = [amount |-> p.amount, state |-> p.state, linked |-> p.linked]
  BY DEF Deposit!Payments
<1>3. \A q \in Deposit!Bills :
         /\ q.amount \in Nat /\ q.state \in {"draft", "posted", "cancel"}
         /\ q = [amount |-> q.amount, state |-> q.state]
  BY DEF Deposit!Bills
<1>4. \A a \in Nat, s \in {"draft", "posted"}, b \in BOOLEAN :
         [amount |-> a, state |-> s, linked |-> b] \in Deposit!Payments
  BY DEF Deposit!Payments
<1>5. \A a \in Nat, s \in {"draft", "posted", "cancel"} :
         [amount |-> a, state |-> s] \in Deposit!Bills
  BY DEF Deposit!Bills
<1> QED BY <1>1, <1>2, <1>3, <1>4, <1>5

(* The entries x are sound still, between rows that are worth as much.     *)
StillPaid(x, qs, ps) ==
    \A d \in Deposit!Posted(qs) :
       \/ DrawnOf(x, d) = {} /\ qs[d].amount \in Nat
       \/ d \in Deposit!Posted(ps) /\ qs[d].amount = ps[d].amount /\ ps[d].amount \in Nat

StillAsked(x, cs, bs) ==
    \A i \in Invoices : cs[i] # None /\ cs[i].state = "posted" =>
       \/ Deposit!EntriesFor(x, i) = {} /\ cs[i].amount \in Nat
       \/ /\ bs[i] # None /\ bs[i].state = "posted"
          /\ cs[i].amount = bs[i].amount /\ bs[i].amount \in Nat

LEMMA SoundLess ==
    ASSUME NEW es, NEW ps, NEW bs, NEW lo, Sound(es, ps, bs, lo),
           NEW x \in SUBSET es, NEW qs, NEW cs, NEW lp, Joined(x, qs, cs, lp),
           StillPaid(x, qs, ps), StillAsked(x, cs, bs)
    PROVE  Sound(x, qs, cs, lp)
<1>1. \A S \in SUBSET es : IsFiniteSet(S) /\ Valued(S)
  <2> TAKE S \in SUBSET es
  <2>1. IsFiniteSet(es) /\ es \subseteq Deposit!JournalEntries
    BY DEF Sound, Joined
  <2> QED BY <2>1, JournalSets
<1>2. \A S \in SUBSET es : \A T \in SUBSET S :
         /\ Deposit!Sum(T) \in Nat /\ Deposit!Sum(S) \in Nat
         /\ Deposit!Sum(T) =< Deposit!Sum(S)
  <2> TAKE S \in SUBSET es
  <2> TAKE T \in SUBSET S
  <2> QED BY <1>1, EntryWithin
<1>3. /\ \A d : DrawnOf(es, d) \in SUBSET es /\ DrawnOf(x, d) \in SUBSET DrawnOf(es, d)
      /\ \A i : /\ Deposit!EntriesFor(es, i) \in SUBSET es
                /\ Deposit!EntriesFor(x, i) \in SUBSET Deposit!EntriesFor(es, i)
  BY DEF DrawnOf, Deposit!EntriesFor
<1>4. Covered(x, qs)
  <2> SUFFICES ASSUME NEW d \in Deposit!Posted(qs)
               PROVE  Deposit!Sum(DrawnOf(x, d)) =< qs[d].amount
    BY DEF Covered
  <2>1. CASE DrawnOf(x, d) = {} /\ qs[d].amount \in Nat
    BY <2>1, EntryNone
  <2>2. CASE d \in Deposit!Posted(ps) /\ qs[d].amount = ps[d].amount /\ ps[d].amount \in Nat
    <3> DEFINE a == Deposit!Sum(DrawnOf(x, d))
               b == Deposit!Sum(DrawnOf(es, d))
    <3>1. a \in Nat /\ b \in Nat /\ a =< b
      BY <1>2, <1>3
    <3>2. b =< ps[d].amount
      BY <2>2 DEF Sound, Covered
    <3> HIDE DEF a, b
    <3>3. a =< qs[d].amount
      BY <2>2, <3>1, <3>2
    <3> QED BY <3>3 DEF a
  <2> QED BY <2>1, <2>2 DEF StillPaid
<1>5. NotOverpaid(x, cs)
  <2> SUFFICES ASSUME NEW i \in Invoices, cs[i] # None, cs[i].state = "posted"
               PROVE  Deposit!Sum(Deposit!EntriesFor(x, i)) =< cs[i].amount
    BY DEF NotOverpaid
  <2>1. CASE Deposit!EntriesFor(x, i) = {} /\ cs[i].amount \in Nat
    BY <2>1, EntryNone
  <2>2. CASE /\ bs[i] # None /\ bs[i].state = "posted"
             /\ cs[i].amount = bs[i].amount /\ bs[i].amount \in Nat
    <3> DEFINE a == Deposit!Sum(Deposit!EntriesFor(x, i))
               b == Deposit!Sum(Deposit!EntriesFor(es, i))
    <3>1. a \in Nat /\ b \in Nat /\ a =< b
      BY <1>2, <1>3
    <3>2. b =< bs[i].amount
      BY <2>2 DEF Sound, NotOverpaid
    <3> HIDE DEF a, b
    <3>3. a =< cs[i].amount
      BY <2>2, <3>1, <3>2
    <3> QED BY <3>3 DEF a
  <2> QED BY <2>1, <2>2 DEF StillAsked
<1> QED BY <1>4, <1>5 DEF Sound

(* The entries of a deposit whose journal entry is set back stay.          *)
Undrawn(S) == {[e EXCEPT !.drawn = FALSE] : e \in S}

LEMMA UndrawnSum ==
    ASSUME NEW S, IsFiniteSet(S), S \subseteq Deposit!JournalEntries
    PROVE  /\ IsFiniteSet(Undrawn(S)) /\ Undrawn(S) \subseteq Deposit!JournalEntries
           /\ Deposit!Sum(Undrawn(S)) \in Nat /\ Deposit!Sum(S) \in Nat
           /\ Deposit!Sum(Undrawn(S)) =< Deposit!Sum(S)
<1>1. \A e \in S : /\ [e EXCEPT !.drawn = FALSE] \in Deposit!JournalEntries
                   /\ [e EXCEPT !.drawn = FALSE].amount = e.amount /\ e.amount \in Nat
  BY DEF Deposit!JournalEntries
<1>2. \A T \in SUBSET S : IsFiniteSet(Undrawn(T)) /\ Undrawn(T) \subseteq Deposit!JournalEntries
  <2> TAKE T \in SUBSET S
  <2>1. IsFiniteSet(T)
    BY FS_Subset
  <2>2. [e \in T |-> [e EXCEPT !.drawn = FALSE]] \in Surjection(T, Undrawn(T))
    BY DEF Surjection, Undrawn
  <2>3. IsFiniteSet(Undrawn(T))
    BY <2>1, <2>2, FS_Surjection
  <2> QED BY <1>1, <2>3 DEF Undrawn
<1>3. \A T \in SUBSET S : /\ IsFiniteSet(T) /\ Valued(T) /\ Deposit!Sum(T) \in Nat
                         /\ Valued(Undrawn(T)) /\ Deposit!Sum(Undrawn(T)) \in Nat
  <2> TAKE T \in SUBSET S
  <2>1. IsFiniteSet(T) /\ Valued(T) /\ IsFiniteSet(Undrawn(T)) /\ Valued(Undrawn(T))
    BY <1>2, JournalSets
  <2> QED BY <2>1, EntryParts
<1> DEFINE C == {T \in SUBSET S : ~(Deposit!Sum(Undrawn(T)) =< Deposit!Sum(T))}
<1>4. C = {}
  <2> SUFFICES ASSUME C # {} PROVE FALSE
    OBVIOUS
  <2>1. PICK T \in C : \A t \in C : t \subseteq T => t = T
    <3>1. C \in SUBSET SUBSET S
      OBVIOUS
    <3> HIDE DEF C
    <3> QED BY <3>1, SmallestPart
  <2>2. T \in SUBSET S /\ ~(Deposit!Sum(Undrawn(T)) =< Deposit!Sum(T))
    OBVIOUS
  <2>3. T # {}
    <3>1. Undrawn({}) = {}
      BY DEF Undrawn
    <3> QED BY <2>2, <3>1, EntryNone
  <2>4. PICK e \in T : TRUE
    BY <2>3
  <2>5. T \ {e} \notin C
    BY <2>1
  <2> DEFINE P == T \ {e}
             f == [e EXCEPT !.drawn = FALSE]
  <2>6. P \in SUBSET S /\ T = P \cup {e} /\ P \cap {e} = {}
    BY <2>2
  <2>7. Deposit!Sum(Undrawn(P)) =< Deposit!Sum(P)
    BY <2>5, <2>6
  <2> HIDE DEF C
  <2>8. Undrawn(T) = Undrawn(P) \cup {f}
    BY <2>6 DEF Undrawn
  <2>9. f.amount = e.amount /\ e.amount \in Nat
    BY <1>1, <2>2
  <2> HIDE DEF P, f
  <2>10. /\ IsFiniteSet({f}) /\ Valued({f}) /\ Deposit!Sum({f}) = e.amount
         /\ IsFiniteSet({e}) /\ Valued({e}) /\ Deposit!Sum({e}) = e.amount
    BY <2>9, EntryOne, FS_Singleton DEF Valued
  <2>11. /\ Deposit!Sum(Undrawn(P) \cup {f}) \in Nat
         /\ Deposit!Sum(Undrawn(P) \cup {f}) =< Deposit!Sum(Undrawn(P)) + Deposit!Sum({f})
    BY <1>2, <1>3, <2>6, <2>10, EntryUnion
  <2>12. Deposit!Sum(P \cup {e}) = Deposit!Sum(P) + Deposit!Sum({e})
    BY <1>3, <2>6, <2>10, EntryUnion
  <2> DEFINE a == Deposit!Sum(Undrawn(P))
             b == Deposit!Sum(P)
  <2>13. a \in Nat /\ b \in Nat /\ a =< b
    BY <1>3, <2>6, <2>7
  <2>14. Deposit!Sum(Undrawn(T)) =< a + e.amount /\ Deposit!Sum(T) = b + e.amount
    BY <2>6, <2>8, <2>10, <2>11, <2>12
  <2>15. Deposit!Sum(Undrawn(T)) \in Nat
    BY <2>8, <2>11
  <2> HIDE DEF a, b
  <2> QED BY <2>2, <2>9, <2>13, <2>14, <2>15
<1> QED BY <1>2, <1>3, <1>4

NoMore(qs, ps) ==
    /\ Deposit!OrderDeposits(qs) \subseteq Deposit!OrderDeposits(ps)
    /\ \A d \in Deposit!OrderDeposits(qs) : qs[d].amount = ps[d].amount

(* A step after which the order has no other deposits keeps the invariant, *)
(* if the entries stay sound.                                              *)
LEMMA DepositKeeps ==
    ASSUME DepositInv, IsPayments(deposit)', IsBills(invoice)',
           order' \in OrderRows, peak' \in Nat, peak =< peak', order'.total =< peak',
           unchecked' = unchecked,
           NoMore(deposit', deposit),
           Sound(entries, deposit, invoice, loose)'
    PROVE  DepositInv'
<1>1. DepositTypes
  BY DEF DepositInv
<1>2. DepositTypes'
  BY <1>1 DEF DepositTypes
<1>3. unchecked' \/ Deposit!DepositTotal(deposit)' =< peak'
  <2> SUFFICES ASSUME ~unchecked PROVE Deposit!DepositTotal(deposit)' =< peak'
    BY Zenon
  <2>1. Deposit!DepositTotal(deposit) =< peak
    BY Zenon DEF DepositInv
  <2> PICK a : a = Deposit!DepositTotal(deposit)
    OBVIOUS
  <2> PICK b : b = Deposit!DepositTotal(deposit')
    OBVIOUS
  <2>2. a \in Nat /\ b \in Nat /\ b =< a
    <3>1. IsPayments(deposit) /\ IsPayments(deposit')
      BY <1>1 DEF DepositTypes
    <3> PICK ps : ps = deposit
      OBVIOUS
    <3> PICK qs : qs = deposit'
      OBVIOUS
    <3>2. /\ IsPayments(ps) /\ IsPayments(qs)
          /\ Deposit!OrderDeposits(qs) \subseteq Deposit!OrderDeposits(ps)
          /\ \A d \in Deposit!OrderDeposits(qs) : qs[d].amount = ps[d].amount
      BY <3>1 DEF NoMore
    <3>3. /\ Deposit!DepositTotal(ps) \in Nat /\ Deposit!DepositTotal(qs) \in Nat
          /\ Deposit!DepositTotal(qs) =< Deposit!DepositTotal(ps)
      BY <3>2, FewerDeposits
    <3> QED BY <3>3
  <2>3. peak \in Nat /\ b =< peak'
    BY <1>1, <2>1, <2>2 DEF DepositTypes
  <2> QED BY <2>3
<1> QED BY <1>2, <1>3 DEF DepositInv

(* The state of the rows that the entries are between.                     *)
LEMMA EntriesBetween ==
    ASSUME DepositInv
    PROVE  /\ IsPayments(deposit) /\ IsBills(invoice) /\ order \in OrderRows
           /\ peak \in Nat /\ order.total =< peak /\ order.total \in Nat
           /\ IsFiniteSet(entries) /\ entries \subseteq Deposit!JournalEntries
           /\ \A e \in entries :
                /\ e.deposit \in Peers /\ e.invoice \in Invoices
                /\ deposit[e.deposit] # None /\ invoice[e.invoice] # None
                /\ invoice[e.invoice].state = "posted"
                /\ e.drawn => deposit[e.deposit].state = "posted"
                /\ e.deposit \notin loose => e.drawn
           /\ \A d \in Deposit!Posted(deposit) :
                d \in Peers /\ deposit[d] # None /\ deposit[d].state = "posted"
                /\ deposit[d].amount \in Nat
           /\ \A d \in Peers : deposit[d] # None => deposit[d] \in Deposit!Payments
           /\ \A i \in Invoices : invoice[i] # None =>
                invoice[i] \in Deposit!Bills /\ invoice[i].amount \in Nat
<1>1. DepositTypes /\ Joined(entries, deposit, invoice, loose)
  BY DEF DepositInv, Sound
<1>2. \A d \in Peers : deposit[d] # None => deposit[d] \in Deposit!Payments
  BY <1>1 DEF DepositTypes, IsPayments
<1>3. \A i \in Invoices : invoice[i] # None =>
         invoice[i] \in Deposit!Bills /\ invoice[i].amount \in Nat
  BY <1>1, PaymentFacts DEF DepositTypes, IsBills
<1>4. \A d \in Deposit!Posted(deposit) :
         d \in Peers /\ deposit[d] # None /\ deposit[d].state = "posted"
         /\ deposit[d].amount \in Nat
  BY <1>2, PaymentFacts DEF Deposit!Posted
<1>5. \A e \in entries : e.deposit \in Peers /\ e.invoice \in Invoices
  BY <1>1 DEF Joined, Deposit!JournalEntries
<1>6. order.total \in Nat
  BY <1>1 DEF DepositTypes, OrderRows
<1> QED BY <1>1, <1>2, <1>3, <1>4, <1>5, <1>6 DEF DepositTypes, Joined

(* One payment becomes p, a draft.                                         *)
LEMMA ToDraft ==
    ASSUME DepositInv, NEW d \in Peers, NEW p \in Deposit!Payments, p.state = "draft",
           deposit' = [deposit EXCEPT ![d] = p]
    PROVE  /\ IsPayments(deposit)'
           /\ NoMore(deposit', deposit)
           /\ \A c \in Deposit!Posted(deposit)' :
                /\ c # d /\ c \in Deposit!Posted(deposit)
                /\ deposit'[c] = deposit[c] /\ deposit[c].amount \in Nat
           /\ deposit'[d] = p /\ p # None /\ \A c \in Peers : c # d => deposit'[c] = deposit[c]
<1>1. IsPayments(deposit)
  BY EntriesBetween
<1>2. deposit'[d] = p /\ \A c \in Peers : c # d => deposit'[c] = deposit[c]
  BY <1>1 DEF IsPayments
<1>3. IsPayments(deposit)'
  BY <1>1 DEF IsPayments
<1>4. p # None
  BY PaymentFacts
<1>5. \A c \in Deposit!Posted(deposit)' : c # d /\ c \in Deposit!Posted(deposit)
  BY <1>2 DEF Deposit!Posted
<1>6. \A c \in Deposit!Posted(deposit)' :
         deposit'[c] = deposit[c] /\ deposit[c].amount \in Nat
  BY <1>2, <1>5, EntriesBetween
<1>7. \A c \in Deposit!OrderDeposits(deposit)' :
         c \in Deposit!OrderDeposits(deposit) /\ deposit'[c].amount = deposit[c].amount
  BY <1>5, <1>6 DEF Deposit!OrderDeposits
<1>8. NoMore(deposit', deposit)
  BY <1>7 DEF NoMore
<1> QED BY <1>2, <1>3, <1>4, <1>5, <1>6, <1>8

(* A draft that is new or edited, or the payment with its entries.         *)
LEMMA DraftStep ==
    ASSUME DepositInv, NEW d \in Peers, NEW p \in Deposit!Payments, p.state = "draft",
           deposit' = [deposit EXCEPT ![d] = p],
           entries' \in SUBSET entries,
           \A e \in entries' : e.deposit = d => ~e.drawn,
           \A e \in entries' : e.deposit \in loose => e.deposit \in loose',
           UNCHANGED <<order, invoice, peak, unchecked>>
    PROVE  DepositInv'
<1>1. /\ IsPayments(deposit)'
      /\ NoMore(deposit', deposit)
      /\ \A c \in Deposit!Posted(deposit)' :
           /\ c # d /\ c \in Deposit!Posted(deposit)
           /\ deposit'[c] = deposit[c] /\ deposit[c].amount \in Nat
      /\ deposit'[d] = p /\ p # None /\ \A c \in Peers : c # d => deposit'[c] = deposit[c]
  BY ToDraft
<1>2. Joined(entries', deposit', invoice, loose')
  <2>1. IsFiniteSet(entries') /\ entries' \subseteq Deposit!JournalEntries
    BY EntriesBetween, FS_Subset
  <2>2. ASSUME NEW e \in entries'
        PROVE  /\ deposit'[e.deposit] # None /\ invoice[e.invoice] # None
               /\ invoice[e.invoice].state = "posted"
               /\ e.drawn => deposit'[e.deposit].state = "posted"
               /\ e.deposit \notin loose' => e.drawn
    <3>1. e \in entries
      OBVIOUS
    <3>2. CASE e.deposit = d
      BY <1>1, <3>1, <3>2, EntriesBetween
    <3>3. CASE e.deposit # d
      <4>1. deposit'[e.deposit] = deposit[e.deposit]
        BY <1>1, <3>1, <3>3, EntriesBetween
      <4> QED BY <3>1, <4>1, EntriesBetween
    <3> QED BY <3>2, <3>3
  <2> QED BY <2>1, <2>2 DEF Joined
<1>3. \A i \in Invoices : invoice[i] # None => invoice[i].amount \in Nat
  BY EntriesBetween
<1>4. Sound(entries', deposit', invoice, loose')
  <2>1. Sound(entries, deposit, invoice, loose)
    BY DEF DepositInv
  <2>2. StillPaid(entries', deposit', deposit)
    BY <1>1 DEF StillPaid
  <2>3. StillAsked(entries', invoice, invoice)
    BY <1>3 DEF StillAsked
  <2> QED BY <1>2, <2>1, <2>2, <2>3, SoundLess
<1>5. Sound(entries, deposit, invoice, loose)'
  BY <1>4
<1>6. /\ IsBills(invoice)' /\ order' \in OrderRows /\ peak' \in Nat
      /\ peak =< peak' /\ order'.total =< peak'
  BY EntriesBetween DEF IsBills
<1> QED BY <1>1, <1>5, <1>6, DepositKeeps

LEMMA DepositNew ==
    ASSUME DepositInv, NEW d \in Peers, Deposit!NewDeposit(d) PROVE DepositInv'
<1>1. PICK a \in Deposit!Amounts, linked \in BOOLEAN :
         deposit' = [deposit EXCEPT ![d] = [amount |-> a, state |-> "draft", linked |-> linked]]
  BY DEF Deposit!NewDeposit
<1> PICK p : p = [amount |-> a, state |-> "draft", linked |-> linked]
  OBVIOUS
<1>2. p \in Deposit!Payments /\ p.state = "draft"
  BY PaymentFacts, DepositFacts
<1>3. /\ deposit[d] = None /\ entries' = entries /\ loose' = loose
      /\ UNCHANGED <<order, invoice, peak, unchecked>>
  BY DEF Deposit!NewDeposit
<1>4. \A e \in entries : e.deposit # d
  BY <1>3, EntriesBetween
<1> QED BY <1>1, <1>2, <1>3, <1>4, DraftStep

LEMMA DepositEdit ==
    ASSUME DepositInv, NEW d \in Peers, Deposit!EditDeposit(d) PROVE DepositInv'
<1>1. PICK a \in Deposit!Amounts, linked \in BOOLEAN :
         deposit' = [deposit EXCEPT ![d].amount = a, ![d].linked = linked]
  BY DEF Deposit!EditDeposit
<1>2. /\ deposit[d] # None /\ deposit[d].state = "draft" /\ entries' = entries /\ loose' = loose
      /\ UNCHANGED <<order, invoice, peak, unchecked>>
  BY DEF Deposit!EditDeposit
<1> PICK p : p = [amount |-> a, state |-> "draft", linked |-> linked]
  OBVIOUS
<1>3. p \in Deposit!Payments /\ p.state = "draft"
  BY PaymentFacts, DepositFacts
<1>4. deposit' = [deposit EXCEPT ![d] = p]
  <2>1. deposit[d] = [amount |-> deposit[d].amount, state |-> "draft", linked |-> deposit[d].linked]
    BY <1>2, EntriesBetween, PaymentFacts
  <2>2. IsPayments(deposit)
    BY EntriesBetween
  <2>3. deposit'[d] = p
    <3>1. deposit'[d] = [[deposit[d] EXCEPT !.amount = a] EXCEPT !.linked = linked]
      BY <1>1, <2>2 DEF IsPayments
    <3> PICK x, y : deposit[d] = [amount |-> x, state |-> "draft", linked |-> y]
      BY <2>1
    <3>2. deposit'[d]
          = [[[amount |-> x, state |-> "draft", linked |-> y] EXCEPT !.amount = a]
               EXCEPT !.linked = linked]
      BY <3>1
    <3>3. [[amount |-> x, state |-> "draft", linked |-> y] EXCEPT !.amount = a]
          = [amount |-> a, state |-> "draft", linked |-> y]
      OBVIOUS
    <3>4. [[amount |-> a, state |-> "draft", linked |-> y] EXCEPT !.linked = linked] = p
      OBVIOUS
    <3> QED BY <3>2, <3>3, <3>4
  <2>4. deposit' = [deposit EXCEPT ![d] = deposit'[d]]
    BY <1>1, <2>2 DEF IsPayments
  <2> QED BY <2>3, <2>4
<1>5. \A e \in entries : e.deposit = d => ~e.drawn
  BY <1>2, EntriesBetween
<1> QED BY <1>2, <1>3, <1>4, <1>5, DraftStep

LEMMA DepositDraft ==
    ASSUME DepositInv, NEW d \in Peers, Deposit!DraftDeposit(d) PROVE DepositInv'
<1>1. /\ d \in Deposit!Posted(deposit)
      /\ deposit' = [deposit EXCEPT ![d].state = "draft"]
      /\ entries' = entries \ Deposit!EntriesOf(entries, d) /\ loose' = loose \ {d}
      /\ UNCHANGED <<order, invoice, peak, unchecked>>
  BY DEF Deposit!DraftDeposit
<1> PICK p : p = [deposit[d] EXCEPT !.state = "draft"]
  OBVIOUS
<1>2. p \in Deposit!Payments /\ p.state = "draft"
  <2>1. deposit[d] \in Deposit!Payments
    BY <1>1, EntriesBetween
  <2> QED BY <2>1 DEF Deposit!Payments
<1>3. deposit' = [deposit EXCEPT ![d] = p]
  BY <1>1
<1>4. \A e \in entries' : e.deposit # d /\ e \in entries
  BY <1>1 DEF Deposit!EntriesOf
<1> QED BY <1>1, <1>2, <1>3, <1>4, DraftStep

LEMMA DepositReset ==
    ASSUME DepositInv, NEW d \in Peers, Deposit!ResetMove(d) PROVE DepositInv'
<1>1. /\ d \in Deposit!Posted(deposit)
      /\ deposit' = [deposit EXCEPT ![d].state = "draft"]
      /\ entries' = (entries \ Deposit!EntriesOf(entries, d))
                    \cup Undrawn(Deposit!EntriesOf(entries, d))
      /\ loose' = loose \cup {d}
      /\ UNCHANGED <<order, invoice, peak, unchecked>>
  BY DEF Deposit!ResetMove, Undrawn
<1> PICK p : p = [deposit[d] EXCEPT !.state = "draft"]
  OBVIOUS
<1>2. p \in Deposit!Payments /\ p.state = "draft"
  <2>1. deposit[d] \in Deposit!Payments
    BY <1>1, EntriesBetween
  <2> QED BY <2>1 DEF Deposit!Payments
<1>3. deposit' = [deposit EXCEPT ![d] = p]
  BY <1>1
<1>4. /\ IsPayments(deposit)'
      /\ NoMore(deposit', deposit)
      /\ \A c \in Deposit!Posted(deposit)' :
           /\ c # d /\ c \in Deposit!Posted(deposit)
           /\ deposit'[c] = deposit[c] /\ deposit[c].amount \in Nat
      /\ deposit'[d] = p /\ p # None /\ \A c \in Peers : c # d => deposit'[c] = deposit[c]
  BY <1>2, <1>3, ToDraft
<1> DEFINE A == Deposit!EntriesOf(entries, d)
<1>5. /\ A \in SUBSET entries /\ IsFiniteSet(A) /\ A \subseteq Deposit!JournalEntries
      /\ IsFiniteSet(entries) /\ entries \subseteq Deposit!JournalEntries
  BY EntriesBetween, FS_Subset DEF Deposit!EntriesOf
<1>6. \A f \in Undrawn(A) :
         \E e \in entries : /\ e.deposit = d /\ f.deposit = d /\ f.invoice = e.invoice
                            /\ ~f.drawn
  BY <1>5 DEF Undrawn, Deposit!EntriesOf, Deposit!JournalEntries
<1>7. IsFiniteSet(entries') /\ entries' \subseteq Deposit!JournalEntries
  BY <1>1, <1>5, UndrawnSum, FS_Subset, FS_Union
<1>8. Joined(entries', deposit', invoice, loose')
  <2>1. ASSUME NEW e \in entries'
        PROVE  /\ deposit'[e.deposit] # None /\ invoice[e.invoice] # None
               /\ invoice[e.invoice].state = "posted"
               /\ e.drawn => deposit'[e.deposit].state = "posted"
               /\ e.deposit \notin loose' => e.drawn
    <3>1. CASE e \in Undrawn(A)
      <4>1. PICK f \in entries : e.deposit = d /\ e.invoice = f.invoice /\ ~e.drawn
        BY <1>6, <3>1
      <4> QED BY <1>1, <1>4, <4>1, EntriesBetween
    <3>2. CASE e \in entries \ A
      <4>1. e \in entries /\ e.deposit # d
        BY <3>2 DEF Deposit!EntriesOf
      <4>2. deposit'[e.deposit] = deposit[e.deposit]
        BY <1>4, <4>1, EntriesBetween
      <4> QED BY <1>1, <4>1, <4>2, EntriesBetween
    <3> QED BY <1>1, <3>1, <3>2
  <2> QED BY <1>7, <2>1 DEF Joined
<1>9. Sound(entries, deposit, invoice, loose)
  BY DEF DepositInv
<1>10. Covered(entries', deposit')
  <2> SUFFICES ASSUME NEW c \in Deposit!Posted(deposit')
               PROVE  Deposit!Sum(DrawnOf(entries', c)) =< deposit'[c].amount
    BY DEF Covered
  <2>1. c # d /\ c \in Deposit!Posted(deposit) /\ deposit'[c] = deposit[c]
    BY <1>4
  <2>2. DrawnOf(entries', c) = DrawnOf(entries, c)
    BY <1>1, <1>6, <2>1 DEF DrawnOf, Deposit!EntriesOf
  <2>3. Deposit!Sum(DrawnOf(entries, c)) =< deposit[c].amount
    BY <1>9, <2>1 DEF Sound, Covered
  <2> QED BY <2>1, <2>2, <2>3
<1>11. NotOverpaid(entries', invoice)
  <2> SUFFICES ASSUME NEW i \in Invoices, invoice[i] # None, invoice[i].state = "posted"
               PROVE  Deposit!Sum(Deposit!EntriesFor(entries', i)) =< invoice[i].amount
    BY DEF NotOverpaid
  <2> DEFINE P == Deposit!EntriesFor(entries, i)
             B == {e \in P : e.deposit = d}
  <2>1. Deposit!EntriesFor(entries', i) = (P \ B) \cup Undrawn(B)
    <3>1. Deposit!EntriesFor(Undrawn(A), i) = Undrawn(B)
      BY <1>5 DEF Undrawn, Deposit!EntriesOf, Deposit!EntriesFor, Deposit!JournalEntries
    <3>2. Deposit!EntriesFor(entries \ A, i) = P \ B
      BY DEF Deposit!EntriesOf, Deposit!EntriesFor
    <3>3. Deposit!EntriesFor(entries', i)
          = Deposit!EntriesFor(entries \ A, i) \cup Deposit!EntriesFor(Undrawn(A), i)
      BY <1>1 DEF Deposit!EntriesFor
    <3> QED BY <3>1, <3>2, <3>3
  <2>2. P \in SUBSET entries /\ B \in SUBSET P
    BY DEF Deposit!EntriesFor
  <2>3. Deposit!Sum(P) =< invoice[i].amount /\ invoice[i].amount \in Nat
    BY <1>9, EntriesBetween DEF Sound, NotOverpaid
  <2> HIDE DEF P, B
  <2>4. \A S \in SUBSET entries :
           IsFiniteSet(S) /\ Valued(S) /\ S \subseteq Deposit!JournalEntries
    BY <1>5, JournalSets
  <2>5. /\ Deposit!Sum(B) \in Nat /\ Deposit!Sum(P \ B) \in Nat
        /\ Deposit!Sum(P) = Deposit!Sum(B) + Deposit!Sum(P \ B)
    BY <2>2, <2>4, EntryParts
  <2>6. /\ IsFiniteSet(Undrawn(B)) /\ Undrawn(B) \subseteq Deposit!JournalEntries
        /\ Deposit!Sum(Undrawn(B)) \in Nat /\ Deposit!Sum(Undrawn(B)) =< Deposit!Sum(B)
    BY <2>2, <2>4, UndrawnSum
  <2>7. Valued(Undrawn(B)) /\ IsFiniteSet(P \ B) /\ Valued(P \ B)
    <3>1. Valued(Undrawn(B))
      BY <2>6, JournalSets
    <3> QED BY <2>2, <2>4, <3>1
  <2>8. /\ Deposit!Sum((P \ B) \cup Undrawn(B)) \in Nat
        /\ Deposit!Sum((P \ B) \cup Undrawn(B)) =< Deposit!Sum(P \ B) + Deposit!Sum(Undrawn(B))
    BY <2>6, <2>7, EntryUnion
  <2>9. Deposit!Sum((P \ B) \cup Undrawn(B)) =< invoice[i].amount
    BY <2>3, <2>5, <2>6, <2>8
  <2> QED BY <2>1, <2>9
<1>12. Sound(entries, deposit, invoice, loose)'
  BY <1>1, <1>8, <1>10, <1>11 DEF Sound
<1>13. /\ IsBills(invoice)' /\ order' \in OrderRows /\ peak' \in Nat
       /\ peak =< peak' /\ order'.total =< peak' /\ unchecked' = unchecked
  BY <1>1, EntriesBetween DEF IsBills
<1> QED BY <1>4, <1>12, <1>13, DepositKeeps

LEMMA SoundBill ==
    ASSUME NEW es, NEW ps, NEW bs, NEW lo, Sound(es, ps, bs, lo),
           IsPayments(ps), IsBills(bs), NEW i \in Invoices, NEW q \in Deposit!Bills,
           NEW x \in SUBSET es, \A e \in x : e.invoice # i,
           NEW cs, cs = [bs EXCEPT ![i] = q]
    PROVE  IsBills(cs) /\ Sound(x, ps, cs, lo)
<1>1. IsBills(cs)
  BY DEF IsBills
<1>2. \A j \in Invoices : j # i => cs[j] = bs[j]
  BY DEF IsBills
<1>3. Joined(es, ps, bs, lo)
  BY DEF Sound
<1>4. \A e \in es : e.invoice \in Invoices
  BY <1>3 DEF Joined, Deposit!JournalEntries
<1>5. \A e \in x : cs[e.invoice] = bs[e.invoice]
  BY <1>2, <1>4
<1>6. Joined(x, ps, cs, lo)
  <2>1. IsFiniteSet(x) /\ x \subseteq Deposit!JournalEntries
    BY <1>3, FS_Subset DEF Joined
  <2> QED BY <1>3, <1>5, <2>1 DEF Joined
<1>7. StillPaid(x, ps, ps)
  <2>1. \A d \in Deposit!Posted(ps) : ps[d].amount \in Nat
    BY DEF Deposit!Posted, IsPayments, Deposit!Payments
  <2> QED BY <2>1 DEF StillPaid
<1>8. StillAsked(x, cs, bs)
  <2>1. \A j \in Invoices : cs[j] # None => cs[j].amount \in Nat
    BY <1>1, PaymentFacts DEF IsBills
  <2>2. Deposit!EntriesFor(x, i) = {}
    BY DEF Deposit!EntriesFor
  <2> QED BY <1>2, <2>1, <2>2 DEF StillAsked
<1> QED BY <1>1, <1>6, <1>7, <1>8, SoundLess

(* Where the order and its deposits stay.                                  *)
LEMMA InvoiceStep ==
    ASSUME DepositInv, UNCHANGED <<order, deposit, peak, unchecked>>, IsBills(invoice)',
           Sound(entries, deposit, invoice, loose)'
    PROVE  DepositInv'
<1>1. /\ IsPayments(deposit)' /\ order' \in OrderRows /\ peak' \in Nat
      /\ peak =< peak' /\ order'.total =< peak'
  BY EntriesBetween DEF IsPayments
<1>2. NoMore(deposit', deposit)
  BY DEF NoMore
<1> QED BY <1>1, <1>2, DepositKeeps

LEMMA BillStep ==
    ASSUME DepositInv, UNCHANGED <<order, deposit, peak, unchecked, loose>>,
           NEW i \in Invoices, NEW q \in Deposit!Bills, invoice' = [invoice EXCEPT ![i] = q],
           entries' \in SUBSET entries, \A e \in entries' : e.invoice # i
    PROVE  DepositInv'
<1>1. Sound(entries, deposit, invoice, loose) /\ IsPayments(deposit) /\ IsBills(invoice)
  BY EntriesBetween DEF DepositInv
<1>2. IsBills(invoice') /\ Sound(entries', deposit, invoice', loose)
  <2> PICK cs : cs = invoice'
    OBVIOUS
  <2> PICK x : x = entries'
    OBVIOUS
  <2>1. x \in SUBSET entries /\ (\A e \in x : e.invoice # i) /\ cs = [invoice EXCEPT ![i] = q]
    OBVIOUS
  <2>2. IsBills(cs) /\ Sound(x, deposit, cs, loose)
    BY <1>1, <2>1, SoundBill
  <2> QED BY <2>2
<1>3. Sound(entries, deposit, invoice, loose)' /\ IsBills(invoice)'
  BY <1>2
<1> QED BY <1>3, InvoiceStep

LEMMA InvoiceNew ==
    ASSUME DepositInv, NEW i \in Invoices, Deposit!CreateInvoice(i) PROVE DepositInv'
<1>1. PICK trigger \in {"order_confirmed", "fully_shipped"} :
         Deposit!NewInvoice(i, Deposit!ToInvoice(trigger, order.total), "draft")
  BY DEF Deposit!CreateInvoice
<1>2. UNCHANGED <<order, deposit, entries, peak, unchecked, loose>>
  BY DEF Deposit!CreateInvoice
<1> PICK a : a = Deposit!ToInvoice(trigger, order.total)
  OBVIOUS
<1>3. a \in Int
  <2>1. Deposit!Invoiced \in Nat
    BY InvoicedIsNat, EntriesBetween DEF IsBills
  <2>2. order.delivered \in Nat /\ order.total \in Nat
    BY EntriesBetween DEF OrderRows
  <2> QED BY <2>1, <2>2 DEF Deposit!ToInvoice
<1>4. invoice[i] = None /\ a > 0 /\ invoice' = [invoice EXCEPT ![i] = [amount |-> a, state |-> "draft"]]
  BY <1>1 DEF Deposit!NewInvoice
<1> PICK q : q = [amount |-> a, state |-> "draft"]
  OBVIOUS
<1>5. q \in Deposit!Bills
  BY <1>3, <1>4 DEF Deposit!Bills
<1>6. \A e \in entries : e.invoice # i
  BY <1>4, EntriesBetween
<1> QED BY <1>2, <1>4, <1>5, <1>6, BillStep

LEMMA InvoiceDraft ==
    ASSUME DepositInv, NEW i \in Invoices, Deposit!DraftInvoice(i) PROVE DepositInv'
<1>1. /\ invoice[i] # None /\ invoice' = [invoice EXCEPT ![i].state = "draft"]
      /\ entries' = entries \ Deposit!EntriesFor(entries, i)
      /\ UNCHANGED <<order, deposit, peak, unchecked, loose>>
  BY DEF Deposit!DraftInvoice
<1> PICK q : q = [invoice[i] EXCEPT !.state = "draft"]
  OBVIOUS
<1>2. q \in Deposit!Bills
  BY <1>1, EntriesBetween DEF Deposit!Bills
<1>3. entries' \in SUBSET entries /\ \A e \in entries' : e.invoice # i
  BY <1>1 DEF Deposit!EntriesFor
<1> QED BY <1>1, <1>2, <1>3, BillStep

LEMMA InvoiceCancel ==
    ASSUME DepositInv, NEW i \in Invoices, Deposit!CancelInvoice(i) PROVE DepositInv'
<1>1. /\ invoice[i] # None /\ invoice[i].state = "draft"
      /\ invoice' = [invoice EXCEPT ![i].state = "cancel"]
      /\ UNCHANGED <<order, deposit, entries, peak, unchecked, loose>>
  BY DEF Deposit!CancelInvoice
<1> PICK q : q = [invoice[i] EXCEPT !.state = "cancel"]
  OBVIOUS
<1>2. q \in Deposit!Bills
  BY <1>1, EntriesBetween DEF Deposit!Bills
<1>3. \A e \in entries : e.invoice # i
  BY <1>1, EntriesBetween
<1> QED BY <1>1, <1>2, <1>3, BillStep

LEMMA EntryRemove ==
    ASSUME DepositInv, NEW e \in entries, Deposit!RemoveEntry(e) PROVE DepositInv'
<1>1. entries' = entries \ {e} /\ UNCHANGED <<order, deposit, invoice, peak, unchecked, loose>>
  BY DEF Deposit!RemoveEntry
<1>2. Sound(entries, deposit, invoice, loose) /\ IsPayments(deposit) /\ IsBills(invoice)
  BY EntriesBetween DEF DepositInv
<1>3. Joined(entries', deposit, invoice, loose)
  <2>1. IsFiniteSet(entries') /\ entries' \subseteq Deposit!JournalEntries
    BY <1>1, EntriesBetween, FS_Subset
  <2> QED BY <1>1, <2>1, EntriesBetween DEF Joined
<1>4. StillPaid(entries', deposit, deposit) /\ StillAsked(entries', invoice, invoice)
  BY EntriesBetween DEF StillPaid, StillAsked
<1>5. entries' \in SUBSET entries
  BY <1>1
<1>6. Sound(entries', deposit, invoice, loose)
  BY <1>2, <1>3, <1>4, <1>5, SoundLess
<1>7. Sound(entries, deposit, invoice, loose)' /\ IsBills(invoice)'
  BY <1>1, <1>2, <1>6 DEF IsBills
<1> QED BY <1>1, <1>7, InvoiceStep

LEMMA AllPosted ==
    ASSUME DepositInv, NEW ds \in SUBSET Peers, Deposit!PostDeposits(ds)
    PROVE  /\ IsPayments(deposit)'
           /\ \A c \in Peers : c \notin ds => deposit'[c] = deposit[c]
           /\ \A c \in ds : /\ deposit[c] # None /\ deposit[c].state = "draft"
                            /\ deposit'[c] # None /\ deposit'[c].state = "posted"
                            /\ deposit'[c].amount = deposit[c].amount
                            /\ deposit'[c].linked = deposit[c].linked
                            /\ deposit[c].amount \in Nat
           /\ Sound(entries, deposit, invoice, loose)'
<1>1. /\ \A d \in ds : deposit[d] # None /\ deposit[d].state = "draft"
      /\ deposit' = [d \in Peers |->
             IF d \in ds THEN [deposit[d] EXCEPT !.state = "posted"] ELSE deposit[d]]
      /\ UNCHANGED <<entries, invoice, loose>>
  BY DEF Deposit!PostDeposits
<1>2. \A c \in Peers : c \notin ds => deposit'[c] = deposit[c]
  BY <1>1
<1>3. ASSUME NEW c \in ds
      PROVE  /\ deposit'[c] \in Deposit!Payments /\ deposit'[c].state = "posted"
             /\ deposit'[c].amount = deposit[c].amount /\ deposit'[c].linked = deposit[c].linked
             /\ deposit[c].amount \in Nat
  <2>1. deposit[c] \in Deposit!Payments
    BY <1>1, EntriesBetween
  <2>2. deposit'[c] = [deposit[c] EXCEPT !.state = "posted"]
    BY <1>1
  <2> QED BY <2>1, <2>2 DEF Deposit!Payments
<1>4. \A c \in ds : deposit'[c] # None
  BY <1>3, PaymentFacts
<1>5. IsPayments(deposit)'
  <2>1. \A c \in Peers : deposit'[c] \in Deposit!Payments \cup {None}
    BY <1>2, <1>3, EntriesBetween
  <2>2. deposit' = [c \in Peers |-> deposit'[c]]
    BY <1>1
  <2> QED BY <2>1, <2>2 DEF IsPayments
<1>6. Joined(entries, deposit', invoice, loose)
  <2>1. ASSUME NEW e \in entries
        PROVE  /\ deposit'[e.deposit] # None
               /\ e.drawn => deposit'[e.deposit].state = "posted"
    <3>1. CASE e.deposit \in ds
      BY <1>3, <1>4, <3>1
    <3>2. CASE e.deposit \notin ds
      BY <1>2, <3>2, EntriesBetween
    <3> QED BY <3>1, <3>2
  <2> QED BY <2>1, EntriesBetween DEF Joined
<1>7. StillPaid(entries, deposit', deposit)
  <2> SUFFICES ASSUME NEW c \in Deposit!Posted(deposit')
               PROVE  \/ DrawnOf(entries, c) = {} /\ deposit'[c].amount \in Nat
                      \/ /\ c \in Deposit!Posted(deposit)
                         /\ deposit'[c].amount = deposit[c].amount /\ deposit[c].amount \in Nat
    BY DEF StillPaid
  <2>1. c \in Peers /\ deposit'[c] # None /\ deposit'[c].state = "posted"
    BY DEF Deposit!Posted
  <2>2. CASE c \in ds
    <3>1. DrawnOf(entries, c) = {}
      BY <1>1, <2>2, EntriesBetween DEF DrawnOf
    <3> QED BY <1>3, <2>2, <3>1
  <2>3. CASE c \notin ds
    <3>1. deposit'[c] = deposit[c]
      BY <1>2, <2>1, <2>3
    <3>2. c \in Deposit!Posted(deposit)
      BY <2>1, <3>1 DEF Deposit!Posted
    <3> QED BY <3>1, <3>2, EntriesBetween
  <2> QED BY <2>2, <2>3
<1>8. StillAsked(entries, invoice, invoice)
  BY EntriesBetween DEF StillAsked
<1>9. Sound(entries, deposit', invoice, loose)
  <2>1. Sound(entries, deposit, invoice, loose) /\ entries \in SUBSET entries
    BY DEF DepositInv
  <2> QED BY <1>6, <1>7, <1>8, <2>1, SoundLess
<1>10. Sound(entries, deposit, invoice, loose)'
  BY <1>1, <1>9
<1> QED BY <1>1, <1>2, <1>3, <1>4, <1>5, <1>10

LEMMA OnlyOne ==
    ASSUME NEW S \in SUBSET Peers, S # {}, ~(Deposit!Cardinality(S) > 1)
    PROVE  \E d \in S : S = {d}
<1>1. IsFiniteSet(S) /\ Deposit!Cardinality(S) = Cardinality(S)
  BY DepositFacts, SameCardinality, FS_Subset
<1>2. Cardinality(S) \in Nat /\ ~(Cardinality(S) > 1)
  BY <1>1, FS_CardinalityType
<1> PICK d \in S : TRUE
  OBVIOUS
<1>3. Cardinality(S \ {d}) = Cardinality(S) - 1 /\ IsFiniteSet(S \ {d})
  BY <1>1, FS_RemoveElement
<1>4. Cardinality(S \ {d}) \in Nat
  BY <1>3, FS_CardinalityType
<1>5. Cardinality(S \ {d}) = 0
  BY <1>2, <1>3, <1>4
<1>6. S \ {d} = {}
  BY <1>3, <1>5, FS_EmptySet
<1> QED BY <1>6

LEMMA DepositsPost ==
    ASSUME DepositInv, NEW ds \in SUBSET Peers, Deposit!PostDeposits(ds) PROVE DepositInv'
<1>1. /\ IsPayments(deposit)'
      /\ \A c \in Peers : c \notin ds => deposit'[c] = deposit[c]
      /\ \A c \in ds : /\ deposit[c] # None /\ deposit[c].state = "draft"
                       /\ deposit'[c] # None /\ deposit'[c].state = "posted"
                       /\ deposit'[c].amount = deposit[c].amount
                       /\ deposit'[c].linked = deposit[c].linked
                       /\ deposit[c].amount \in Nat
      /\ Sound(entries, deposit, invoice, loose)'
  BY AllPosted
<1>2. /\ ds # {}
      /\ \A d \in ds : deposit[d].linked => deposit[d].amount <= Deposit!RemainingTotal
      /\ unchecked' = (unchecked \/ (Deposit!Cardinality(ds) > 1
                                     /\ Deposit!DepositTotal(deposit') > order.total))
      /\ UNCHANGED <<order, invoice, peak>>
  BY DEF Deposit!PostDeposits
<1>3. DepositTypes'
  <2>1. IsBills(invoice)' /\ order' \in OrderRows /\ peak' \in Nat /\ order'.total =< peak'
    BY <1>2, EntriesBetween DEF IsBills
  <2>2. unchecked' \in BOOLEAN
    BY <1>2, Zenon
  <2> QED BY <1>1, <2>1, <2>2 DEF DepositTypes
<1>4. IsPayments(deposit) /\ IsPayments(deposit')
  BY <1>1, EntriesBetween
<1>5. Deposit!DepositTotal(deposit') \in Nat /\ Deposit!DepositTotal(deposit) \in Nat
  <2>1. \A ps : IsPayments(ps) => Deposit!DepositTotal(ps) \in Nat
    BY FewerDeposits
  <2> QED BY <1>4, <2>1
<1>6. unchecked' \/ Deposit!DepositTotal(deposit') =< peak
  <2>1. CASE unchecked
    BY <1>2, <2>1, Zenon
  <2>2. CASE ~unchecked /\ Deposit!Cardinality(ds) > 1
    <3>1. CASE Deposit!DepositTotal(deposit') > order.total
      BY <1>2, <2>2, <3>1, Zenon
    <3>2. CASE ~(Deposit!DepositTotal(deposit') > order.total)
      <4>1. order.total \in Nat /\ peak \in Nat /\ order.total =< peak
        BY EntriesBetween
      <4>2. Deposit!DepositTotal(deposit') =< peak
        BY <1>5, <3>2, <4>1
      <4> QED BY <4>2, Zenon
    <3> QED BY <3>1, <3>2
  <2>3. CASE ~unchecked /\ ~(Deposit!Cardinality(ds) > 1)
    <3>1. PICK d \in ds : ds = {d}
      BY <1>2, <2>3, OnlyOne
    <3>2. Deposit!DepositTotal(deposit) =< peak
      BY <2>3, Zenon DEF DepositInv
    <3>3. d \in Peers /\ \A c \in Peers : c # d => deposit'[c] = deposit[c]
      BY <1>1, <3>1
    <3>4. \A c \in Peers : c # d =>
             (c \in Deposit!OrderDeposits(deposit') <=> c \in Deposit!OrderDeposits(deposit))
             /\ deposit'[c].amount = deposit[c].amount
      BY <1>4, <3>3, OrderDepositsAre
    <3>5. d \notin Deposit!OrderDeposits(deposit)
          /\ (d \in Deposit!OrderDeposits(deposit') <=> deposit[d].linked)
      BY <1>1, <1>4, OrderDepositsAre
    <3>6. /\ Deposit!OrderDeposits(deposit) \subseteq Peers
          /\ Deposit!OrderDeposits(deposit') \subseteq Peers
      BY <1>4, OrderDepositsAre
    <3>7. CASE ~deposit[d].linked
      <4>1. NoMore(deposit', deposit)
        BY <3>4, <3>5, <3>6, <3>7 DEF NoMore
      <4>2. Deposit!DepositTotal(deposit') =< Deposit!DepositTotal(deposit)
        <5> PICK ps : ps = deposit
          OBVIOUS
        <5> PICK qs : qs = deposit'
          OBVIOUS
        <5>1. /\ IsPayments(ps) /\ IsPayments(qs)
              /\ Deposit!OrderDeposits(qs) \subseteq Deposit!OrderDeposits(ps)
              /\ \A c \in Deposit!OrderDeposits(qs) : qs[c].amount = ps[c].amount
          BY <1>4, <4>1 DEF NoMore
        <5>2. Deposit!DepositTotal(qs) =< Deposit!DepositTotal(ps)
          BY <5>1, FewerDeposits
        <5> QED BY <5>2
      <4>3. Deposit!DepositTotal(deposit') =< peak
        BY <1>5, <3>2, <4>2, EntriesBetween
      <4> QED BY <4>3, Zenon
    <3>8. CASE deposit[d].linked
      <4>1. /\ Deposit!OrderDeposits(deposit') = Deposit!OrderDeposits(deposit) \cup {d}
            /\ \A c \in Deposit!OrderDeposits(deposit) : deposit'[c].amount = deposit[c].amount
        BY <3>4, <3>5, <3>6, <3>8
      <4>2. Deposit!DepositTotal(deposit')
            = Deposit!DepositTotal(deposit) + deposit'[d].amount
        <5> PICK ps : ps = deposit
          OBVIOUS
        <5> PICK qs : qs = deposit'
          OBVIOUS
        <5>1. /\ IsPayments(ps) /\ IsPayments(qs) /\ d \notin Deposit!OrderDeposits(ps)
              /\ Deposit!OrderDeposits(qs) = Deposit!OrderDeposits(ps) \cup {d}
              /\ \A c \in Deposit!OrderDeposits(ps) : qs[c].amount = ps[c].amount
          BY <1>4, <3>5, <4>1
        <5>2. Deposit!DepositTotal(qs) = Deposit!DepositTotal(ps) + qs[d].amount
          BY <5>1, OneMoreDeposit
        <5> QED BY <5>2
      <4>3. /\ deposit[d].amount <= Deposit!RemainingTotal
            /\ deposit'[d].amount = deposit[d].amount /\ deposit[d].amount \in Nat
        BY <1>1, <1>2, <3>8
      <4>4. deposit[d].amount <= order.total - Deposit!DepositTotal(deposit)
        BY <4>3 DEF Deposit!RemainingTotal
      <4>5. Deposit!DepositTotal(deposit') =< peak
        BY <1>5, <4>2, <4>3, <4>4, EntriesBetween
      <4> QED BY <4>5, Zenon
    <3> QED BY <3>7, <3>8
  <2> QED BY <2>1, <2>2, <2>3
<1>7. unchecked' \/ Deposit!DepositTotal(deposit)' =< peak'
  <2>1. peak' = peak
    BY <1>2
  <2> QED BY <1>6, <2>1
<1> QED BY <1>1, <1>3, <1>7 DEF DepositInv

(* What stays when only the state of the order, or what is delivered of it *)
(* changes.                                                                *)
LEMMA OrderStep ==
    ASSUME DepositInv, UNCHANGED <<deposit, invoice, entries, peak, unchecked, loose>>,
           order' \in OrderRows, order'.total = order.total
    PROVE  DepositInv'
<1>1. /\ IsPayments(deposit)' /\ IsBills(invoice)' /\ peak' \in Nat
      /\ peak =< peak' /\ order'.total =< peak'
  BY EntriesBetween DEF IsPayments, IsBills
<1>2. NoMore(deposit', deposit)
  BY DEF NoMore
<1>3. Sound(entries, deposit, invoice, loose)'
  BY DEF DepositInv
<1> QED BY <1>1, <1>2, <1>3, DepositKeeps

LEMMA OrderMoves ==
    ASSUME DepositInv, Deposit!Confirm \/ Deposit!Redraft \/ Deposit!Deliver PROVE DepositInv'
<1>1. order \in OrderRows
  BY EntriesBetween
<1>2. UNCHANGED <<deposit, invoice, entries, peak, unchecked, loose>>
  BY DEF Deposit!Confirm, Deposit!Redraft, Deposit!Deliver
<1>3. order' \in OrderRows /\ order'.total = order.total
  BY <1>1 DEF OrderRows, Deposit!Confirm, Deposit!Redraft, Deposit!Deliver
<1> QED BY <1>2, <1>3, OrderStep

LEMMA OrderCancel ==
    ASSUME DepositInv, Deposit!Cancel PROVE DepositInv'
<1>1. /\ order' = [order EXCEPT !.state = "cancel"]
      /\ deposit' = [d \in Peers |->
             IF d \in Deposit!OrderDeposits(deposit)
             THEN [deposit[d] EXCEPT !.linked = FALSE] ELSE deposit[d]]
      /\ invoice' = [i \in Invoices |->
             IF invoice[i] # None /\ invoice[i].state = "draft"
             THEN [invoice[i] EXCEPT !.state = "cancel"] ELSE invoice[i]]
      /\ UNCHANGED <<entries, peak, unchecked, loose>>
  BY DEF Deposit!Cancel
<1>2. order' \in OrderRows /\ order'.total = order.total
  BY <1>1, EntriesBetween DEF OrderRows
<1>3. ASSUME NEW d \in Peers, deposit[d] # None
      PROVE  /\ deposit'[d] \in Deposit!Payments /\ deposit'[d].state = deposit[d].state
             /\ deposit'[d].amount = deposit[d].amount /\ deposit[d].amount \in Nat
             /\ d \in Deposit!OrderDeposits(deposit) => ~deposit'[d].linked
             /\ d \notin Deposit!OrderDeposits(deposit) => deposit'[d] = deposit[d]
  <2>1. deposit[d] \in Deposit!Payments
    BY <1>3, EntriesBetween
  <2>2. deposit'[d] = IF d \in Deposit!OrderDeposits(deposit)
                      THEN [deposit[d] EXCEPT !.linked = FALSE] ELSE deposit[d]
    BY <1>1
  <2> QED BY <2>1, <2>2 DEF Deposit!Payments
<1>4. IsPayments(deposit)
  BY EntriesBetween
<1>5. \A d \in Peers : deposit[d] = None => deposit'[d] = None
  <2>1. \A d \in Deposit!OrderDeposits(deposit) : deposit[d] # None
    BY <1>4, OrderDepositsAre
  <2> QED BY <1>1, <2>1
<1>6. IsPayments(deposit)'
  <2>1. \A d \in Peers : deposit'[d] \in Deposit!Payments \cup {None}
    BY <1>3, <1>5
  <2>2. deposit' = [d \in Peers |-> deposit'[d]]
    BY <1>1
  <2> QED BY <2>1, <2>2 DEF IsPayments
<1>7. \A d \in Peers : (deposit'[d] # None <=> deposit[d] # None)
  BY <1>3, <1>5, PaymentFacts
<1>8. Deposit!OrderDeposits(deposit') = {}
  <2> SUFFICES ASSUME NEW d \in Deposit!OrderDeposits(deposit') PROVE FALSE
    OBVIOUS
  <2>1. d \in Peers /\ deposit'[d] # None /\ deposit'[d].state = "posted" /\ deposit'[d].linked
    BY <1>6, OrderDepositsAre
  <2>2. deposit[d] # None
    BY <1>7, <2>1
  <2>3. CASE d \in Deposit!OrderDeposits(deposit)
    BY <1>3, <2>1, <2>2, <2>3
  <2>4. CASE d \notin Deposit!OrderDeposits(deposit)
    <3>1. deposit'[d] = deposit[d]
      BY <1>3, <2>1, <2>2, <2>4
    <3> QED BY <1>4, <2>1, <2>4, <3>1, OrderDepositsAre
  <2> QED BY <2>3, <2>4
<1>9. NoMore(deposit', deposit)
  BY <1>8 DEF NoMore
<1>10. ASSUME NEW i \in Invoices, invoice[i] # None
       PROVE  /\ invoice'[i] \in Deposit!Bills /\ invoice'[i].amount = invoice[i].amount
              /\ (invoice'[i].state = "posted" <=> invoice[i].state = "posted")
  <2>1. invoice[i] \in Deposit!Bills
    BY <1>10, EntriesBetween
  <2>2. invoice'[i] = IF invoice[i].state = "draft"
                      THEN [invoice[i] EXCEPT !.state = "cancel"] ELSE invoice[i]
    BY <1>1, <1>10
  <2> QED BY <2>1, <2>2 DEF Deposit!Bills
<1>11. \A i \in Invoices : invoice[i] = None => invoice'[i] = None
  BY <1>1
<1>12. \A i \in Invoices : (invoice'[i] # None <=> invoice[i] # None)
  BY <1>10, <1>11, PaymentFacts
<1>13. IsBills(invoice)'
  <2>1. \A i \in Invoices : invoice'[i] \in Deposit!Bills \cup {None}
    BY <1>10, <1>11
  <2>2. invoice' = [i \in Invoices |-> invoice'[i]]
    BY <1>1
  <2> QED BY <2>1, <2>2 DEF IsBills
<1>14. Joined(entries, deposit', invoice', loose)
  <2>1. ASSUME NEW e \in entries
        PROVE  /\ deposit'[e.deposit] # None /\ invoice'[e.invoice] # None
               /\ invoice'[e.invoice].state = "posted"
               /\ e.drawn => deposit'[e.deposit].state = "posted"
    <3>1. /\ e.deposit \in Peers /\ e.invoice \in Invoices
          /\ deposit[e.deposit] # None /\ invoice[e.invoice] # None
          /\ invoice[e.invoice].state = "posted"
          /\ e.drawn => deposit[e.deposit].state = "posted"
      BY EntriesBetween
    <3> QED BY <1>3, <1>7, <1>10, <1>12, <3>1
  <2> QED BY <2>1, EntriesBetween DEF Joined
<1>15. StillPaid(entries, deposit', deposit)
  BY <1>3, <1>7 DEF StillPaid, Deposit!Posted
<1>16. StillAsked(entries, invoice', invoice)
  BY <1>10, <1>12, EntriesBetween DEF StillAsked
<1>17. Sound(entries, deposit', invoice', loose)
  <2>1. Sound(entries, deposit, invoice, loose) /\ entries \in SUBSET entries
    BY DEF DepositInv
  <2> QED BY <1>14, <1>15, <1>16, <2>1, SoundLess
<1>18. Sound(entries, deposit, invoice, loose)'
  BY <1>1, <1>17
<1>19. peak' \in Nat /\ peak =< peak' /\ order'.total =< peak' /\ unchecked' = unchecked
  BY <1>1, <1>2, EntriesBetween
<1> QED BY <1>2, <1>6, <1>9, <1>13, <1>18, <1>19, DepositKeeps

(* The invoice takes of the order's deposits, and is settled.              *)
LEMMA InvoicePost ==
    ASSUME DepositInv, NEW i \in Invoices, Deposit!PostInvoice(i)
    PROVE  /\ DepositInv'
           /\ \A j \in Invoices : j # i => invoice'[j] = invoice[j]
           /\ Settled(entries', deposit', invoice', i, Deposit!OrderDeposits(deposit'))
<1>1. /\ invoice[i] # None /\ invoice[i].state = "draft"
      /\ invoice' = [invoice EXCEPT ![i].state = "posted"]
      /\ UNCHANGED <<order, deposit, peak, unchecked, loose>>
  BY DEF Deposit!PostInvoice
<1> DEFINE ds == Deposit!OrderDeposits(deposit)
           l == Deposit!Left(entries, ds)
           u == Deposit!Due(entries, i)
<1>2. entries' \in Deposit!Reconciled(entries, ds, l, i, u)
  BY DEF Deposit!PostInvoice
<1> PICK q : q = [invoice[i] EXCEPT !.state = "posted"]
  OBVIOUS
<1>3. q \in Deposit!Bills /\ q.state = "posted" /\ q.amount = invoice[i].amount
  <2>1. invoice[i] \in Deposit!Bills
    BY <1>1, EntriesBetween
  <2> QED BY <2>1 DEF Deposit!Bills
<1>4. \A e \in entries : e.invoice # i
  BY <1>1, EntriesBetween
<1>5. Sound(entries, deposit, invoice, loose) /\ IsPayments(deposit) /\ IsBills(invoice)
  BY EntriesBetween DEF DepositInv
<1> PICK cs : cs = invoice'
  OBVIOUS
<1>6. cs = [invoice EXCEPT ![i] = q] /\ entries \in SUBSET entries
  BY <1>1
<1>7. IsBills(cs) /\ Sound(entries, deposit, cs, loose)
  <2> HIDE DEF ds, l, u
  <2> PICK x : x = entries
    OBVIOUS
  <2>1. x \in SUBSET entries /\ \A e \in x : e.invoice # i
    BY <1>4
  <2> PICK r \in Deposit!Bills : r = q
    BY <1>3
  <2>3. cs = [invoice EXCEPT ![i] = r]
    BY <1>6
  <2>4. Sound(entries, deposit, invoice, loose) /\ IsPayments(deposit) /\ IsBills(invoice)
        /\ r \in Deposit!Bills
    BY <1>5
  <2>2. IsBills(cs) /\ Sound(x, deposit, cs, loose)
    BY ONLY <2>1, <2>3, <2>4, SoundBill
  <2> QED BY <2>2
<1>8. /\ \A d \in ds : l[d] = deposit[d].amount - Deposit!Sum(DrawnOf(entries, d))
      /\ ds \in SUBSET Deposit!Posted(deposit) /\ IsFiniteSet(ds)
  <2>1. \A d : {e \in Deposit!EntriesOf(entries, d) : e.drawn} = DrawnOf(entries, d)
    BY DEF Deposit!EntriesOf, DrawnOf
  <2>2. \A d \in ds : l[d] = deposit[d].amount - Deposit!Sum(DrawnOf(entries, d))
    BY <2>1 DEF Deposit!Left, Deposit!Residual
  <2>3. IsFiniteSet(ds)
    BY <1>5, OrderDepositsAre
  <2> QED BY <2>2, <2>3 DEF Deposit!OrderDeposits
<1>9. cs[i] # None /\ cs[i].state = "posted"
      /\ u = cs[i].amount - Deposit!Sum(Deposit!EntriesFor(entries, i))
  <2>1. cs[i] = q /\ q # None
    BY <1>3, <1>5, <1>6, PaymentFacts DEF IsBills
  <2> QED BY <1>3, <2>1 DEF Deposit!Due
<1> PICK x : x = entries'
  OBVIOUS
<1>10. x \in Deposit!Reconciled(entries, ds, l, i, u)
  BY <1>2
<1> HIDE DEF ds, l, u
<1>11. Sound(x, deposit, cs, loose) /\ Settled(x, deposit, cs, i, ds)
  <2>1. /\ deposit \in [Peers -> Deposit!Payments \cup {None}]
        /\ cs \in [Invoices -> Deposit!Bills \cup {None}]
    BY <1>5, <1>7 DEF IsPayments, IsBills
  <2> QED BY <1>7, <1>8, <1>9, <1>10, <2>1, ReconciledSound
<1>12. Sound(entries, deposit, invoice, loose)' /\ IsBills(invoice)'
  BY <1>1, <1>7, <1>11
<1>13. DepositInv'
  BY <1>1, <1>12, InvoiceStep
<1>14. \A j \in Invoices : j # i => invoice'[j] = invoice[j]
  BY <1>1, <1>5 DEF IsBills
<1>15. Settled(entries', deposit', invoice', i, Deposit!OrderDeposits(deposit'))
  BY <1>1, <1>11 DEF ds
<1> QED BY <1>13, <1>14, <1>15

LEMMA DepositAssign ==
    ASSUME DepositInv, NEW d \in Peers, NEW i \in Invoices, Deposit!Assign(d, i)
    PROVE  DepositInv'
<1>1. /\ d \in Deposit!Posted(deposit) /\ i \in Deposit!PostedInvoices
      /\ Deposit!Residual(entries, d) > 0 /\ Deposit!Due(entries, i) > 0
      /\ UNCHANGED <<order, deposit, invoice, peak, unchecked, loose>>
  BY DEF Deposit!Assign
<1> PICK m : m = Deposit!Residual(entries, d)
  OBVIOUS
<1> PICK u : u = Deposit!Due(entries, i)
  OBVIOUS
<1> PICK x : x = entries'
  OBVIOUS
<1> PICK l : l = [c \in {d} |-> m]
  OBVIOUS
<1>2. x = entries \cup Deposit!Entry(entries, d, m, i, u)
  BY DEF Deposit!Assign
<1>3. Sound(entries, deposit, invoice, loose) /\ IsPayments(deposit) /\ IsBills(invoice)
  BY EntriesBetween DEF DepositInv
<1>4. /\ {d} \in SUBSET Deposit!Posted(deposit) /\ IsFiniteSet({d})
      /\ \A c \in {d} : l[c] = deposit[c].amount - Deposit!Sum(DrawnOf(entries, c))
  <2>1. {e \in Deposit!EntriesOf(entries, d) : e.drawn} = DrawnOf(entries, d)
    BY DEF Deposit!EntriesOf, DrawnOf
  <2> QED BY <1>1, <2>1, FS_Singleton DEF Deposit!Residual
<1>5. /\ invoice[i] # None /\ invoice[i].state = "posted"
      /\ u = invoice[i].amount - Deposit!Sum(Deposit!EntriesFor(entries, i))
  BY <1>1 DEF Deposit!PostedInvoices, Deposit!Due
<1>6. /\ deposit \in [Peers -> Deposit!Payments \cup {None}]
      /\ invoice \in [Invoices -> Deposit!Bills \cup {None}]
  BY <1>3 DEF IsPayments, IsBills
<1>7. /\ IsFiniteSet(entries) /\ entries \subseteq Deposit!JournalEntries
      /\ m \in Nat /\ u \in Nat
  <2>1. /\ IsFiniteSet(entries) /\ entries \subseteq Deposit!JournalEntries
        /\ \A c \in {d} : c \in Peers /\ l[c] \in Nat
        /\ u \in Nat
    BY <1>3, <1>4, <1>5, <1>6, SoundLeft
  <2> QED BY <2>1
<1>8. m > 0 /\ u > 0
  BY <1>1
<1>9. PICK e : /\ Deposit!Entry(entries, d, m, i, u) = {e}
               /\ e \in Deposit!JournalEntries /\ e \notin entries
               /\ e.deposit = d /\ e.invoice = i /\ e.drawn
               /\ e.amount =< m /\ e.amount =< u /\ e.amount \in {m, u}
  BY <1>7, <1>8, EntryMade
<1>10. e.amount \in Nat /\ Deposit!Sum({e}) = e.amount
  BY <1>7, <1>9, EntryOne
<1>11. x \ entries = {e} /\ Grown(x, entries)
  BY <1>2, <1>7, <1>9, FS_AddElement DEF Grown
<1>12. Made({e}, {d}, l, i, u)
  <2>1. Deposit!EntriesOf({e}, d) = {e}
    BY <1>9 DEF Deposit!EntriesOf
  <2>2. l[d] = m
    OBVIOUS
  <2> QED BY <1>9, <1>10, <2>1, <2>2 DEF Made
<1>13. Made(x \ entries, {d}, l, i, u)
  BY <1>11, <1>12
<1>14. Sound(x, deposit, invoice, loose)
  BY <1>3, <1>4, <1>5, <1>6, <1>11, <1>13, MadeSound
<1>15. Sound(entries, deposit, invoice, loose)' /\ IsBills(invoice)'
  BY <1>1, <1>3, <1>14 DEF IsBills
<1> QED BY <1>1, <1>15, InvoiceStep

LEMMA MaxOfTwo ==
    ASSUME NEW a \in Nat, NEW b \in Nat
    PROVE  /\ Deposit!Max({a, b}) \in Nat
           /\ a =< Deposit!Max({a, b}) /\ b =< Deposit!Max({a, b})
BY DEF Deposit!Max

(* The deposit that the rule makes, if it does, is the only one.           *)
LEMMA RuleDeposits ==
    ASSUME DepositInv, NEW rule, NEW total \in Nat, NEW top \in Nat,
           peak =< top, total =< top, Deposit!RulePays(rule, total)
    PROVE  /\ IsPayments(deposit)'
           /\ \A d \in Peers : deposit[d] # None => deposit'[d] = deposit[d]
           /\ unchecked \/ Deposit!DepositTotal(deposit') =< top
<1>0. IsPayments(deposit)
  BY EntriesBetween
<1>1. CASE UNCHANGED deposit
  <2>1. IsPayments(deposit)'
    BY <1>0, <1>1 DEF IsPayments
  <2>2. unchecked \/ Deposit!DepositTotal(deposit') =< top
    <3>1. Deposit!DepositTotal(deposit) \in Nat
      <4>1. \A ps : IsPayments(ps) => Deposit!DepositTotal(ps) \in Nat
        BY FewerDeposits
      <4> QED BY <1>0, <4>1
    <3>2. CASE Deposit!DepositTotal(deposit) =< peak
      <4>1. Deposit!DepositTotal(deposit') =< top
        BY <1>1, <3>1, <3>2, EntriesBetween
      <4> QED BY <4>1, Zenon
    <3>3. unchecked \/ Deposit!DepositTotal(deposit) =< peak
      BY Zenon DEF DepositInv
    <3> QED BY <3>2, <3>3, Zenon
  <2> QED BY <1>1, <2>1, <2>2
<1>2. CASE /\ Deposit!OrderDeposits(deposit) = {}
           /\ \E d \in Peers :
                /\ deposit[d] = None
                /\ deposit' = [deposit EXCEPT ![d] =
                                 [amount |-> total, state |-> "posted", linked |-> TRUE]]
  <2>1. PICK d \in Peers :
           /\ deposit[d] = None
           /\ deposit' = [deposit EXCEPT ![d] =
                            [amount |-> total, state |-> "posted", linked |-> TRUE]]
    BY <1>2
  <2> PICK p : p = [amount |-> total, state |-> "posted", linked |-> TRUE]
    OBVIOUS
  <2>2. p \in Deposit!Payments /\ p # None
    BY PaymentFacts
  <2> PICK ps : ps = deposit
    OBVIOUS
  <2> PICK qs : qs = deposit'
    OBVIOUS
  <2>3. IsPayments(ps) /\ IsPayments(qs) /\ qs[d] = p /\ \A c \in Peers : c # d => qs[c] = ps[c]
    BY <1>0, <2>1, <2>2 DEF IsPayments
  <2>4. Deposit!OrderDeposits(qs) = {d}
    <3>0. Deposit!OrderDeposits(ps) = {}
      BY <1>2
    <3>1. \A c \in Peers : c # d => c \notin Deposit!OrderDeposits(qs)
      <4>1. \A c \in Peers : ~(ps[c] # None /\ ps[c].state = "posted" /\ ps[c].linked)
        BY <2>3, <3>0, OrderDepositsAre
      <4>2. \A c \in Deposit!OrderDeposits(qs) :
               qs[c] # None /\ qs[c].state = "posted" /\ qs[c].linked
        BY <2>3, OrderDepositsAre
      <4> QED BY <2>3, <4>1, <4>2
    <3>2. d \in Deposit!OrderDeposits(qs)
      BY <2>2, <2>3, OrderDepositsAre
    <3>3. Deposit!OrderDeposits(qs) \subseteq Peers
      BY <2>3, OrderDepositsAre
    <3> QED BY <3>1, <3>2, <3>3
  <2>5. Deposit!DepositTotal(ps) = 0
    BY <1>2, NoDeposit
  <2>6. /\ d \notin Deposit!OrderDeposits(ps)
        /\ Deposit!OrderDeposits(qs) = Deposit!OrderDeposits(ps) \cup {d}
        /\ \A c \in Deposit!OrderDeposits(ps) : qs[c].amount = ps[c].amount
    BY <1>2, <2>4
  <2>7. Deposit!DepositTotal(qs) = Deposit!DepositTotal(ps) + qs[d].amount
    BY <2>3, <2>6, OneMoreDeposit
  <2>8. Deposit!DepositTotal(qs) =< top
    BY <2>3, <2>5, <2>7
  <2>9. unchecked \/ Deposit!DepositTotal(deposit') =< top
    BY <2>8, Zenon
  <2>10. \A c \in Peers : deposit[c] # None => deposit'[c] = deposit[c]
    BY <2>1, <2>3
  <2> QED BY <2>3, <2>9, <2>10
<1> QED BY <1>1, <1>2, Zenon DEF Deposit!RulePays

(* What a rule's new deposit pays of an invoice is sound.                  *)
LEMMA RuleEntries ==
    ASSUME DepositInv, IsPayments(deposit)',
           \A d \in Peers : deposit[d] # None => deposit'[d] = deposit[d],
           NEW es \in Deposit!FirstInvoicePaid(entries, deposit')
    PROVE  Sound(es, deposit', invoice, loose)
<1>1. Sound(entries, deposit, invoice, loose) /\ IsPayments(deposit) /\ IsBills(invoice)
  BY EntriesBetween DEF DepositInv
<1>2. /\ \A e \in entries : deposit'[e.deposit] = deposit[e.deposit]
      /\ \A d \in Deposit!Posted(deposit') :
           /\ d \in Peers /\ deposit'[d] # None /\ deposit'[d].amount \in Nat
           /\ d \notin Deposit!Posted(deposit) => DrawnOf(entries, d) = {}
           /\ d \in Deposit!Posted(deposit) => deposit'[d] = deposit[d]
  <2>1. \A e \in entries : deposit'[e.deposit] = deposit[e.deposit]
    BY EntriesBetween
  <2>2. \A d \in Deposit!Posted(deposit') : d \in Peers /\ deposit'[d] # None
    BY DEF Deposit!Posted
  <2>3. \A d \in Deposit!Posted(deposit') : deposit'[d].amount \in Nat
    BY <2>2, PaymentFacts DEF IsPayments
  <2>4. \A d \in Peers : d \notin Deposit!Posted(deposit) => DrawnOf(entries, d) = {}
    BY EntriesBetween DEF DrawnOf, Deposit!Posted
  <2>5. \A d \in Deposit!Posted(deposit) : deposit'[d] = deposit[d]
    BY EntriesBetween
  <2> QED BY <2>1, <2>2, <2>3, <2>4, <2>5
<1>3. Sound(entries, deposit', invoice, loose)
  <2>1. Joined(entries, deposit', invoice, loose)
    BY <1>2, EntriesBetween DEF Joined
  <2>2. StillPaid(entries, deposit', deposit)
    BY <1>2, EntriesBetween DEF StillPaid
  <2>3. StillAsked(entries, invoice, invoice)
    BY EntriesBetween DEF StillAsked
  <2>4. entries \in SUBSET entries
    OBVIOUS
  <2> QED BY <1>1, <2>1, <2>2, <2>3, <2>4, SoundLess
<1> DEFINE new == Deposit!Posted(deposit') \ Deposit!Posted(deposit)
           l == [d \in new |-> deposit'[d].amount]
<1>4. \/ es = entries
      \/ \E i \in Deposit!PostedInvoices :
           es \in Deposit!Reconciled(entries, new, l, i, Deposit!Due(entries, i))
  <2> HIDE DEF new
  <2>1. Deposit!PostedInvoices \subseteq Invoices
    BY DEF Deposit!PostedInvoices
  <2> QED BY DEF Deposit!FirstInvoicePaid, new
<1>5. CASE es = entries
  BY <1>3, <1>5
<1>6. CASE \E i \in Deposit!PostedInvoices :
             es \in Deposit!Reconciled(entries, new, l, i, Deposit!Due(entries, i))
  <2>1. PICK i \in Deposit!PostedInvoices :
           es \in Deposit!Reconciled(entries, new, l, i, Deposit!Due(entries, i))
    BY <1>6
  <2>2. i \in Invoices /\ invoice[i] # None /\ invoice[i].state = "posted"
    BY DEF Deposit!PostedInvoices
  <2> PICK u : u = Deposit!Due(entries, i)
    OBVIOUS
  <2>3. u = invoice[i].amount - Deposit!Sum(Deposit!EntriesFor(entries, i))
    BY DEF Deposit!Due
  <2>4. /\ new \in SUBSET Deposit!Posted(deposit') /\ IsFiniteSet(new)
        /\ \A d \in new : l[d] = deposit'[d].amount - Deposit!Sum(DrawnOf(entries, d))
    <3>1. new \in SUBSET Peers
      BY DEF Deposit!Posted
    <3>2. IsFiniteSet(new)
      BY <3>1, DepositFacts, FS_Subset
    <3>3. \A d \in new : DrawnOf(entries, d) = {} /\ deposit'[d].amount \in Nat
      BY <1>2
    <3> QED BY <3>2, <3>3, EntryNone
  <2> PICK ps : ps = deposit'
    OBVIOUS
  <2>5. /\ ps \in [Peers -> Deposit!Payments \cup {None}]
        /\ invoice \in [Invoices -> Deposit!Bills \cup {None}]
    BY <1>1 DEF IsPayments, IsBills
  <2>6. Sound(entries, ps, invoice, loose)
    BY <1>3
  <2>7. /\ new \in SUBSET Deposit!Posted(ps)
        /\ \A d \in new : l[d] = ps[d].amount - Deposit!Sum(DrawnOf(entries, d))
    BY <2>4
  <2>8. es \in Deposit!Reconciled(entries, new, l, i, u)
    BY <2>1
  <2> HIDE DEF new, l
  <2>9. Sound(es, ps, invoice, loose)
    BY <2>2, <2>3, <2>4, <2>5, <2>6, <2>7, <2>8, ReconciledSound
  <2> QED BY <2>9
<1> QED BY <1>4, <1>5, <1>6

(* A new invoice i of a takes of the deposits that there are then.         *)
LEMMA NewInvoiceTakes ==
    ASSUME NEW es, NEW ps, NEW bs, NEW lo, Sound(es, ps, bs, lo),
           IsPayments(ps), IsBills(bs), NEW i \in Invoices, bs[i] = None, NEW a \in Nat,
           NEW cs, cs = [bs EXCEPT ![i] = [amount |-> a, state |-> "posted"]],
           NEW x \in Deposit!TakesDeposits(es, ps, i, a)
    PROVE  /\ IsBills(cs) /\ Sound(x, ps, cs, lo)
           /\ Settled(x, ps, cs, i, Deposit!OrderDeposits(ps))
<1> PICK q \in Deposit!Bills : q = [amount |-> a, state |-> "posted"]
  BY PaymentFacts
<1>1. \A e \in es : e.invoice # i
  BY DEF Sound, Joined
<1> PICK y : y = es
  OBVIOUS
<1>2. /\ y \in SUBSET es /\ \A e \in y : e.invoice # i
      /\ cs = [bs EXCEPT ![i] = q] /\ q \in Deposit!Bills
  BY <1>1
<1>3. IsBills(cs) /\ Sound(y, ps, cs, lo)
  <2>1. Sound(es, ps, bs, lo) /\ IsPayments(ps) /\ IsBills(bs)
    OBVIOUS
  <2> QED BY ONLY <1>2, <2>1, i \in Invoices, SoundBill
<1> DEFINE ds == Deposit!OrderDeposits(ps)
           l == [d \in ds |-> ps[d].amount
                                - Deposit!Sum({e \in Deposit!EntriesOf(es, d) : e.drawn})]
<1>4. x \in Deposit!Reconciled(y, ds, l, i, a)
  BY DEF Deposit!TakesDeposits
<1>5. /\ \A d \in ds : l[d] = ps[d].amount - Deposit!Sum(DrawnOf(y, d))
      /\ ds \in SUBSET Deposit!Posted(ps) /\ IsFiniteSet(ds)
  <2>1. \A d : {e \in Deposit!EntriesOf(es, d) : e.drawn} = DrawnOf(y, d)
    BY DEF Deposit!EntriesOf, DrawnOf
  <2>2. \A d \in ds : l[d] = ps[d].amount - Deposit!Sum(DrawnOf(y, d))
    BY <2>1
  <2>3. IsFiniteSet(ds)
    BY OrderDepositsAre
  <2> QED BY <2>2, <2>3 DEF Deposit!OrderDeposits
<1>6. /\ cs[i] # None /\ cs[i].state = "posted"
      /\ a = cs[i].amount - Deposit!Sum(Deposit!EntriesFor(y, i))
  <2>1. cs[i] = q /\ q # None
    BY <1>2, PaymentFacts DEF IsBills
  <2>2. Deposit!EntriesFor(y, i) = {}
    BY <1>2 DEF Deposit!EntriesFor
  <2> QED BY <2>1, <2>2, EntryNone
<1>7. /\ ps \in [Peers -> Deposit!Payments \cup {None}]
      /\ cs \in [Invoices -> Deposit!Bills \cup {None}]
  BY <1>3 DEF IsPayments, IsBills
<1> HIDE DEF l, ds
<1>8. Sound(x, ps, cs, lo) /\ Settled(x, ps, cs, i, ds)
  BY <1>3, <1>4, <1>5, <1>6, <1>7, ReconciledSound
<1> QED BY <1>3, <1>8 DEF ds

LEMMA RuleSyncs ==
    ASSUME DepositInv, NEW total \in Deposit!Amounts, NEW rule, Deposit!Sync(total, rule)
    PROVE  /\ DepositInv'
           /\ \/ UNCHANGED invoice
              \/ \E i \in Invoices :
                   /\ \A j \in Invoices : j # i => invoice'[j] = invoice[j]
                   /\ Settled(entries', deposit', invoice', i, Deposit!OrderDeposits(deposit'))
<1> DEFINE state == IF rule.confirms /\ order.state \notin {"sale", "cancel"}
                    THEN "sale" ELSE order.state
<1>1. /\ order' = [order EXCEPT !.total = total, !.state = state]
      /\ peak' = Deposit!Max({peak, total})
      /\ Deposit!RulePays(rule, total)
      /\ UNCHANGED <<unchecked, loose>>
  BY DEF Deposit!Sync
<1>2. PICK es \in Deposit!FirstInvoicePaid(entries, deposit') :
         IF Deposit!RuleInvoices(rule, state, total)
         THEN \E i \in Invoices :
                /\ Deposit!NewInvoice(i, Deposit!ToInvoice(rule.trigger, total), "posted")
                /\ entries' \in Deposit!TakesDeposits(es, deposit', i,
                                                      Deposit!ToInvoice(rule.trigger, total))
         ELSE entries' = es /\ UNCHANGED invoice
  BY DEF Deposit!Sync
<1>3. total \in Nat /\ peak' \in Nat /\ peak =< peak' /\ total =< peak'
  <2>1. total \in Nat /\ peak \in Nat
    BY DepositFacts, EntriesBetween
  <2> QED BY <1>1, <2>1, MaxOfTwo
<1>4. order' \in OrderRows /\ order'.total = total
  <2>1. order = [state |-> order.state, total |-> order.total, delivered |-> order.delivered]
        /\ order.state \in {"draft", "sale", "cancel"} /\ order.delivered \in Nat
    BY EntriesBetween DEF OrderRows
  <2>2. state \in {"draft", "sale", "cancel"}
    BY <2>1
  <2> HIDE DEF state
  <2> PICK x, y, z : order = [state |-> x, total |-> y, delivered |-> z] /\ z \in Nat
    BY <2>1
  <2>3. order' = [[[state |-> x, total |-> y, delivered |-> z] EXCEPT !.total = total]
                     EXCEPT !.state = state]
    BY <1>1
  <2>4. [[state |-> x, total |-> y, delivered |-> z] EXCEPT !.total = total]
        = [state |-> x, total |-> total, delivered |-> z]
    OBVIOUS
  <2>5. [[state |-> x, total |-> total, delivered |-> z] EXCEPT !.state = state]
        = [state |-> state, total |-> total, delivered |-> z]
    OBVIOUS
  <2> QED BY <1>3, <2>2, <2>3, <2>4, <2>5 DEF OrderRows
<1>5. /\ IsPayments(deposit)'
      /\ \A d \in Peers : deposit[d] # None => deposit'[d] = deposit[d]
      /\ unchecked \/ Deposit!DepositTotal(deposit') =< peak'
  <2> PICK top \in Nat : top = peak'
    BY <1>3
  <2>1. /\ IsPayments(deposit)'
        /\ \A d \in Peers : deposit[d] # None => deposit'[d] = deposit[d]
        /\ unchecked \/ Deposit!DepositTotal(deposit') =< top
    <3>1. peak =< top /\ total =< top /\ total \in Nat
      BY <1>3
    <3> QED BY <1>1, <3>1, RuleDeposits
  <2> QED BY <2>1
<1>6. Sound(es, deposit', invoice, loose)
  BY <1>5, RuleEntries
<1>7. IsBills(invoice)
  BY EntriesBetween
<1>8. /\ IsBills(invoice)' /\ Sound(entries', deposit', invoice', loose)
      /\ \/ UNCHANGED invoice
         \/ \E i \in Invoices :
              /\ \A j \in Invoices : j # i => invoice'[j] = invoice[j]
              /\ Settled(entries', deposit', invoice', i, Deposit!OrderDeposits(deposit'))
  <2>1. CASE entries' = es /\ UNCHANGED invoice
    BY <1>6, <1>7, <2>1 DEF IsBills
  <2>2. CASE \E i \in Invoices :
               /\ Deposit!NewInvoice(i, Deposit!ToInvoice(rule.trigger, total), "posted")
               /\ entries' \in Deposit!TakesDeposits(es, deposit', i,
                                                     Deposit!ToInvoice(rule.trigger, total))
    <3> PICK a : a = Deposit!ToInvoice(rule.trigger, total)
      OBVIOUS
    <3>1. PICK i \in Invoices :
             /\ Deposit!NewInvoice(i, a, "posted")
             /\ entries' \in Deposit!TakesDeposits(es, deposit', i, a)
      BY <2>2
    <3>2. a \in Int
      <4>1. Deposit!Invoiced \in Nat
        BY <1>7, InvoicedIsNat DEF IsBills
      <4>2. order.delivered \in Nat
        BY EntriesBetween DEF OrderRows
      <4> QED BY <1>3, <4>1, <4>2 DEF Deposit!ToInvoice
    <3>3. /\ invoice[i] = None /\ a > 0
          /\ invoice' = [invoice EXCEPT ![i] = [amount |-> a, state |-> "posted"]]
      BY <3>1 DEF Deposit!NewInvoice
    <3>4. a \in Nat
      BY <3>2, <3>3
    <3> PICK ps : ps = deposit'
      OBVIOUS
    <3> PICK cs : cs = invoice'
      OBVIOUS
    <3> PICK x : x = entries'
      OBVIOUS
    <3>5. /\ Sound(es, ps, invoice, loose) /\ IsPayments(ps) /\ IsBills(invoice)
          /\ invoice[i] = None /\ a \in Nat /\ i \in Invoices
          /\ cs = [invoice EXCEPT ![i] = [amount |-> a, state |-> "posted"]]
          /\ x \in Deposit!TakesDeposits(es, ps, i, a)
      BY <1>5, <1>6, <1>7, <3>1, <3>3, <3>4
    <3>6. /\ IsBills(cs) /\ Sound(x, ps, cs, loose)
          /\ Settled(x, ps, cs, i, Deposit!OrderDeposits(ps))
      BY ONLY <3>5, NewInvoiceTakes
    <3>7. \A j \in Invoices : j # i => invoice'[j] = invoice[j]
      BY <1>7, <3>3 DEF IsBills
    <3> QED BY <3>6, <3>7
  <2> QED BY <1>2, <2>1, <2>2
<1>9. DepositTypes'
  <2>1. unchecked' \in BOOLEAN
    BY <1>1, Zenon DEF DepositInv, DepositTypes
  <2> QED BY <1>3, <1>4, <1>5, <1>8, <2>1 DEF DepositTypes
<1>10. Sound(entries, deposit, invoice, loose)'
  BY <1>1, <1>8
<1>11. unchecked' \/ Deposit!DepositTotal(deposit)' =< peak'
  BY <1>1, <1>5, Zenon
<1> QED BY <1>8, <1>9, <1>10, <1>11 DEF DepositInv

LEMMA DepositInit == Deposit!Init => DepositInv
<1> SUFFICES ASSUME Deposit!Init PROVE DepositInv
  OBVIOUS
<1>1. PICK t \in Deposit!Amounts :
         order = [state |-> "draft", total |-> t, delivered |-> 0] /\ peak = t
  BY DEF Deposit!Init
<1>2. /\ deposit = [d \in Peers |-> None] /\ invoice = [i \in Invoices |-> None]
      /\ entries = {} /\ unchecked = FALSE /\ loose = {}
  BY DEF Deposit!Init
<1>3. t \in Nat
  BY DepositFacts
<1>4. DepositTypes
  <2>1. unchecked \in BOOLEAN
    BY <1>2, Zenon
  <2> QED BY <1>1, <1>2, <1>3, <2>1 DEF DepositTypes, OrderRows, IsPayments, IsBills
<1>5. Sound(entries, deposit, invoice, loose)
  <2>1. Joined(entries, deposit, invoice, loose)
    BY <1>2, FS_EmptySet DEF Joined
  <2>2. Deposit!Posted(deposit) = {}
    BY <1>2 DEF Deposit!Posted
  <2>3. \A i \in Invoices : invoice[i] = None
    BY <1>2
  <2> QED BY <2>1, <2>2, <2>3 DEF Sound, Covered, NotOverpaid
<1>6. Deposit!DepositTotal(deposit) =< peak
  <2>1. Deposit!OrderDeposits(deposit) = {}
    BY <1>2 DEF Deposit!OrderDeposits, Deposit!Posted
  <2> QED BY <1>1, <1>3, <2>1, NoDeposit
<1>7. unchecked \/ Deposit!DepositTotal(deposit) =< peak
  BY <1>6, Zenon
<1> QED BY <1>4, <1>5, <1>7 DEF DepositInv

LEMMA DepositNext == DepositInv /\ Deposit!Next => DepositInv'
BY DepositNew, DepositEdit, DepositDraft, DepositReset, DepositsPost, InvoiceNew, InvoicePost,
   InvoiceDraft, InvoiceCancel, DepositAssign, EntryRemove, RuleSyncs, OrderMoves, OrderCancel
   DEF Deposit!Next

(* A step posts no invoice, or one that is then settled.                   *)
LEMMA SettledStep ==
    ASSUME NEW i \in Invoices, \A j \in Invoices : j # i => invoice'[j] = invoice[j],
           Settled(entries', deposit', invoice', i, Deposit!OrderDeposits(deposit'))
    PROVE  Deposit!InvoicePosted
<1>1. Deposit!PostedInvoices' \ Deposit!PostedInvoices \subseteq {i}
  BY DEF Deposit!PostedInvoices
<1>2. \A d : {e \in Deposit!EntriesOf(entries', d) : e.drawn} = DrawnOf(entries', d)
  BY DEF Deposit!EntriesOf, DrawnOf
<1>3. \/ Deposit!Due(entries, i)' = 0
      \/ \A d \in Deposit!OrderDeposits(deposit') : Deposit!Residual(entries, d)' = 0
  BY <1>2 DEF Settled, Deposit!Due, Deposit!Residual
<1> QED BY <1>1, <1>3 DEF Deposit!InvoicePosted

LEMMA NoneSettled ==
    ASSUME \A j \in Invoices : invoice'[j] = invoice[j] \/ invoice'[j] = None
                               \/ invoice'[j].state # "posted"
    PROVE  Deposit!InvoicePosted
<1>1. Deposit!PostedInvoices' \subseteq Deposit!PostedInvoices
  BY DEF Deposit!PostedInvoices
<1> QED BY <1>1 DEF Deposit!InvoicePosted

LEMMA DepositSettles == DepositInv /\ Deposit!Next => Deposit!InvoicePosted
<1> SUFFICES ASSUME DepositInv, Deposit!Next PROVE Deposit!InvoicePosted
  OBVIOUS
<1>0. IsBills(invoice)
  BY EntriesBetween
<1>1. CASE UNCHANGED invoice
  BY <1>1, NoneSettled
<1>2. ASSUME NEW i \in Invoices, Deposit!PostInvoice(i) PROVE Deposit!InvoicePosted
  BY <1>2, InvoicePost, SettledStep
<1>3. ASSUME NEW i \in Invoices, NEW q, q.state # "posted", invoice' = [invoice EXCEPT ![i] = q]
      PROVE  Deposit!InvoicePosted
  <2>1. \A j \in Invoices : invoice'[j] = invoice[j] \/ invoice'[j].state # "posted"
    BY <1>0, <1>3 DEF IsBills
  <2> QED BY <2>1, NoneSettled
<1>4. ASSUME NEW i \in Invoices, Deposit!CreateInvoice(i) PROVE Deposit!InvoicePosted
  <2>1. \E a : invoice' = [invoice EXCEPT ![i] = [amount |-> a, state |-> "draft"]]
    BY <1>4 DEF Deposit!CreateInvoice, Deposit!NewInvoice
  <2> QED BY <1>3, <2>1
<1>5. ASSUME NEW i \in Invoices, Deposit!DraftInvoice(i) \/ Deposit!CancelInvoice(i)
      PROVE  Deposit!InvoicePosted
  <2>1. invoice[i] # None /\ \E s \in {"draft", "cancel"} : invoice' = [invoice EXCEPT ![i].state = s]
    BY <1>5 DEF Deposit!DraftInvoice, Deposit!CancelInvoice
  <2> PICK s \in {"draft", "cancel"} : invoice' = [invoice EXCEPT ![i].state = s]
    BY <2>1
  <2> PICK q : q = [invoice[i] EXCEPT !.state = s]
    OBVIOUS
  <2>2. q.state # "posted"
    <3>1. invoice[i] \in Deposit!Bills
      BY <2>1, EntriesBetween
    <3> QED BY <3>1 DEF Deposit!Bills
  <2> QED BY <1>3, <2>2
<1>6. ASSUME Deposit!Cancel PROVE Deposit!InvoicePosted
  <2>1. \A i \in Invoices :
           \/ invoice'[i] = invoice[i]
           \/ invoice[i] # None /\ invoice'[i] = [invoice[i] EXCEPT !.state = "cancel"]
    <3>1. invoice' = [i \in Invoices |->
             IF invoice[i] # None /\ invoice[i].state = "draft"
             THEN [invoice[i] EXCEPT !.state = "cancel"] ELSE invoice[i]]
      BY <1>6 DEF Deposit!Cancel
    <3> QED BY ONLY <3>1
  <2>2. \A i \in Invoices : invoice[i] # None =>
           [invoice[i] EXCEPT !.state = "cancel"].state # "posted"
    <3>1. \A b \in Deposit!Bills : [b EXCEPT !.state = "cancel"].state # "posted"
      BY DEF Deposit!Bills
    <3> QED BY <3>1, EntriesBetween
  <2> QED BY <2>1, <2>2, NoneSettled
<1>7. ASSUME NEW t \in Deposit!Amounts, NEW rule, Deposit!Sync(t, rule)
      PROVE  Deposit!InvoicePosted
  BY <1>1, <1>7, RuleSyncs, SettledStep
<1>8. ASSUME NEW d \in Peers,
             Deposit!NewDeposit(d) \/ Deposit!EditDeposit(d) \/ Deposit!DraftDeposit(d)
             \/ Deposit!ResetMove(d)
      PROVE  Deposit!InvoicePosted
  BY <1>1, <1>8 DEF Deposit!NewDeposit, Deposit!EditDeposit, Deposit!DraftDeposit,
     Deposit!ResetMove
<1>9. ASSUME NEW ds \in SUBSET Peers, Deposit!PostDeposits(ds) PROVE Deposit!InvoicePosted
  BY <1>1, <1>9 DEF Deposit!PostDeposits
<1>10. ASSUME NEW d \in Peers, NEW i \in Invoices, Deposit!Assign(d, i)
       PROVE  Deposit!InvoicePosted
  BY <1>1, <1>10 DEF Deposit!Assign
<1>11. ASSUME NEW e \in entries, Deposit!RemoveEntry(e) PROVE Deposit!InvoicePosted
  BY <1>1, <1>11 DEF Deposit!RemoveEntry
<1>12. ASSUME Deposit!Confirm \/ Deposit!Redraft \/ Deposit!Deliver PROVE Deposit!InvoicePosted
  BY <1>1, <1>12 DEF Deposit!Confirm, Deposit!Redraft, Deposit!Deliver
<1> HIDE DEF Deposit!InvoicePosted
<1> QED BY <1>2, <1>4, <1>5, <1>6, <1>7, <1>8, <1>9, <1>10, <1>11, <1>12, ZenonT(60)
        DEF Deposit!Next

LEMMA DepositSteps ==
    [Next]_vars /\ part' = "deposits" =>
        part = "deposits" /\ (Deposit!Next \/ UNCHANGED <<peak, OfDeposits>>)
BY DEF Next, vars

LEMMA DepositStays == DepositInv /\ UNCHANGED <<peak, OfDeposits>> => DepositInv'
<1> SUFFICES ASSUME DepositInv, UNCHANGED <<peak, OfDeposits>> PROVE DepositInv'
  OBVIOUS
<1>1. UNCHANGED <<order, deposit, invoice, entries, unchecked, loose, peak>>
  BY DEF OfDeposits
<1>2. order' \in OrderRows /\ order'.total = order.total
  BY <1>1, EntriesBetween
<1> QED BY <1>1, <1>2, OrderStep

LEMMA DepositsAreSound == Spec => [](part = "deposits" => DepositInv)
<1> DEFINE I == part = "deposits" => DepositInv
<1>1. Init => I
  BY DepositInit DEF Init
<1>2. I /\ [Next]_vars => I'
  BY DepositSteps, DepositNext, DepositStays
<1> QED BY <1>1, <1>2, PTL DEF Spec

(* No money of a deposit is used twice, and no invoice takes more than it  *)
(* asks (_create_deposit_payment_entry, js_assign_outstanding_line,        *)
(* action_draft, button_draft).                                            *)
THEOREM MoneyIsConserved == Spec => []MoneyConserved
<1>1. ASSUME DepositInv PROVE Deposit!MoneyConserved
  <2>1. Sound(entries, deposit, invoice, loose)
    BY <1>1 DEF DepositInv
  <2>2. \A d \in Deposit!Posted(deposit) \ loose :
           Deposit!Sum(Deposit!EntriesOf(entries, d)) <= deposit[d].amount
    <3> TAKE d \in Deposit!Posted(deposit) \ loose
    <3>1. Deposit!EntriesOf(entries, d) = DrawnOf(entries, d)
      BY <1>1, EntriesBetween DEF Deposit!EntriesOf, DrawnOf
    <3> QED BY <2>1, <3>1 DEF Sound, Covered
  <2>3. \A i \in Deposit!PostedInvoices :
           Deposit!Sum(Deposit!EntriesFor(entries, i)) <= invoice[i].amount
    BY <2>1 DEF Sound, NotOverpaid, Deposit!PostedInvoices
  <2>4. \A e \in entries :
           /\ deposit[e.deposit] # None /\ invoice[e.invoice] # None
           /\ invoice[e.invoice].state = "posted"
           /\ e.deposit \notin loose => e.drawn /\ deposit[e.deposit].state = "posted"
    BY <1>1, EntriesBetween
  <2> QED BY <2>2, <2>3, <2>4 DEF Deposit!MoneyConserved
<1>2. (part = "deposits" => DepositInv) => MoneyConserved
  BY <1>1 DEF MoneyConserved
<1> QED BY <1>2, DepositsAreSound, PTL

(* The deposits of an order stay within it, whatever the rule, the         *)
(* cancellations and the changes of the order do (action_post).            *)
THEOREM DepositsStayWithin == Spec => []DepositsWithinOrder
<1>1. (part = "deposits" => DepositInv) => DepositsWithinOrder
  BY DEF DepositInv, DepositsWithinOrder, Deposit!DepositsWithinOrder
<1> QED BY <1>1, DepositsAreSound, PTL

(* An invoice that is posted takes what it needs of the order's deposits,  *)
(* those included that the rule has just made (account.move.action_post).  *)
THEOREM InvoicesArePaid == Spec => PaidWhenPosted
<1> DEFINE I == part = "deposits" => DepositInv
           A == part = "deposits" => Deposit!InvoicePosted
<1>1. I /\ [Next]_vars => [A]_vars
  <2> SUFFICES ASSUME I, [Next]_vars, part = "deposits", ~UNCHANGED vars
               PROVE  Deposit!InvoicePosted
    OBVIOUS
  <2>1. Deposit!Next
    BY DEF Next
  <2> QED BY <2>1, DepositSettles
<1>2. Spec => [][A]_vars
  BY <1>1, DepositsAreSound, PTL DEF Spec
<1> QED BY <1>2 DEF PaidWhenPosted

-----------------------------------------------------------------------------
(* Customers of orders and their contacts (Customers).                     *)

IsContact(k) ==
    /\ k = [key |-> k.key, type |-> k.type, email |-> k.email, parent |-> k.parent, place |-> k.place]
    /\ k.key \in Nat

(* The contacts of Odoo and those that transactions have made.             *)
AllContacts == contacts \cup UNION {r.made : r \in runs}

(* Two contacts for one customer, company or address.                      *)
Twins(k, l) ==
    /\ k.key # l.key /\ (k.email # None \/ k.type = "company")
    /\ k.type = l.type /\ k.email = l.email /\ k.parent = l.parent /\ k.place = l.place

(* The answers of an order, among the contacts S.                          *)
IsMain(main, email, S) == \E m \in S : m.key = main /\ m.email = email
IsCompany(parent, name, S) == \E c \in S : c.key = parent /\ c.type = "company" /\ c.place = name
IsAddressee(contact, type, address, main, S) ==
    \E c \in S :
        /\ c.key = contact /\ c.type = type /\ c.place = address.place /\ c.email = address.email
        /\ IF address.company = None THEN c.parent = main ELSE IsCompany(c.parent, address.company, S)
IsAnswer(contact, type, address, main, S) ==
    IF address = None THEN contact = main ELSE IsAddressee(contact, type, address, main, S)
Addressed(data, email, result, S) ==
    /\ IsMain(result.main, email, S)
    /\ IsAnswer(result.invoice, "invoice", data.invoice, result.main, S)
    /\ IsAnswer(result.delivery, "delivery", data.delivery, result.main, S)

ResultShape(result) == result = [main |-> result.main, invoice |-> result.invoice, delivery |-> result.delivery]
RunShape(r) ==
    /\ r = [order |-> r.order, data |-> r.data, kind |-> r.kind, step |-> r.step, saved |-> r.saved,
            seen |-> r.seen, old |-> r.old, made |-> r.made, result |-> r.result]
    /\ ResultShape(r.result)

(* What a transaction makes has new keys, and no twin that it could see.   *)
MadeFine(r) ==
    /\ IsFiniteSet(r.made)
    /\ \A k \in r.made : IsContact(k)
    /\ \A k \in r.made, l \in AllContacts \cup r.made : k.key = l.key => k = l
    /\ \A k \in r.made, l \in r.old \cup r.made : ~Twins(k, l)

OrderRunFine(r) ==
    /\ RunShape(r) /\ r.old \subseteq contacts /\ MadeFine(r)
    /\ r.step # "done" => r.made = {}
    /\ r.step = "done" => Addressed(r.data, Customer!MainEmail(r), r.result, r.old \cup r.made)

(* What is said of an order is found among the contacts S; what was said   *)
(* first and last of a delivery has one place, or there is an activity.    *)
SaidFine(said, S) == Addressed(said.data, said.email, said.result, S)
SamePlace(k, l, S) == \E c \in S, d \in S : c.key = k /\ d.key = l /\ c.place = d.place
OrderFine(o) ==
    /\ SaidFine(orders[o].first, contacts) /\ SaidFine(orders[o].latest, contacts)
    /\ \/ o \in warned
       \/ SamePlace(orders[o].first.result.delivery, orders[o].latest.result.delivery, contacts)

CustomerInv ==
    /\ IsFiniteSet(runs) /\ IsFiniteSet(contacts)
    /\ \A k \in contacts : IsContact(k)
    /\ \A k, l \in contacts : k.key = l.key => k = l
    /\ \A k, l \in contacts : Twins(k, l) => k.key \in unseen \/ l.key \in unseen
    /\ \A r \in runs : OrderRunFine(r)
    /\ orders = [o \in Orders |-> orders[o]]
    /\ \A j \in jobs : SaidFine(j.said, contacts)
    /\ \A o \in Orders : orders[o] # None => OrderFine(o)

(* The first of what is found.                                             *)
LEMMA FirstIs ==
    ASSUME NEW hits, hits # {}, \A k \in hits : IsContact(k)
    PROVE  \E k \in hits : Customer!First(hits) = k.key
<1> DEFINE S == {k.key : k \in hits}
<1>1. S \in SUBSET Nat /\ S # {}
  BY DEF IsContact
<1> HIDE DEF S
<1>2. PICK m \in S : \A n \in S : m =< n
  BY <1>1, SmallestNumber
<1>3. \E k \in hits : \A l \in hits : k.key <= l.key
  BY <1>2 DEF S
<1> QED BY <1>3 DEF Customer!First

LEMMA FreshNumber ==
    ASSUME NEW T, IsFiniteSet(T)
    PROVE  \E n \in 1..(Cardinality(T) + 1) : n \notin T
<1> DEFINE N == Cardinality(T)
<1>1. N \in Nat
  BY FS_CardinalityType
<1> SUFFICES ASSUME 1..(N + 1) \subseteq T PROVE FALSE
  OBVIOUS
<1> HIDE DEF N
<1>2. Cardinality(1..(N + 1)) = N + 1
  BY <1>1, FS_Interval
<1>3. Cardinality(1..(N + 1)) =< N
  BY FS_Subset DEF N
<1> QED BY <1>1, <1>2, <1>3

LEMMA KeysFinite ==
    ASSUME NEW S, IsFiniteSet(S)
    PROVE  IsFiniteSet({k.key : k \in S})
<1> DEFINE T == {k.key : k \in S}
<1>1. [k \in S |-> k.key] \in Surjection(S, T)
  BY DEF Surjection
<1> HIDE DEF T
<1>2. IsFiniteSet(T)
  BY <1>1, FS_Surjection
<1> QED BY <1>2 DEF T

LEMMA AllContactsFine ==
    ASSUME CustomerInv
    PROVE  IsFiniteSet(AllContacts) /\ \A k \in AllContacts : IsContact(k)
<1> DEFINE M == {r.made : r \in runs}
<1>1. [r \in runs |-> r.made] \in Surjection(runs, M)
  BY DEF Surjection
<1>2. \A T \in M : IsFiniteSet(T) /\ \A k \in T : IsContact(k)
  BY DEF CustomerInv, OrderRunFine, MadeFine
<1>3. AllContacts = contacts \cup UNION M
  BY DEF AllContacts
<1> HIDE DEF M
<1>4. IsFiniteSet(M)
  BY <1>1, FS_Surjection DEF CustomerInv
<1>5. IsFiniteSet(UNION M)
  BY <1>2, <1>4, FS_UNION
<1>6. IsFiniteSet(contacts) /\ \A k \in contacts : IsContact(k)
  BY DEF CustomerInv
<1> QED BY <1>2, <1>3, <1>5, <1>6, FS_Union

LEMMA FreshContact ==
    ASSUME CustomerInv, NEW r, IsFiniteSet(r.made)
    PROVE  Customer!Fresh(r) \in Nat /\ \A k \in AllContacts \cup r.made : k.key # Customer!Fresh(r)
<1> DEFINE S == AllContacts \cup r.made
           taken == {k.key : k \in S}
<1>1. Customer!Keys \cup {k.key : k \in r.made} = taken
  BY DEF Customer!Keys, AllContacts
<1>2. IsFiniteSet(S)
  BY AllContactsFine, FS_Union
<1>3. IsFiniteSet(taken)
  <2> HIDE DEF S
  <2> QED BY <1>2, KeysFinite
<1>4. Customer!Cardinality(taken) = Cardinality(taken)
  BY DEF Customer!Cardinality, Cardinality, Customer!IsFiniteSet, IsFiniteSet
<1>5. Customer!Fresh(r) = CHOOSE k \in 1..(Cardinality(taken) + 1) : k \notin taken
  BY <1>1, <1>4 DEF Customer!Fresh
<1>6. Cardinality(taken) \in Nat
  BY <1>3, FS_CardinalityType
<1>7. \E n \in 1..(Cardinality(taken) + 1) : n \notin taken
  BY <1>3, FreshNumber
<1> DEFINE n == Customer!Fresh(r)
           N == Cardinality(taken) + 1
<1>8. n \in 1..N /\ n \notin taken
  <2> HIDE DEF taken
  <2> QED BY <1>5, <1>7
<1>9. n \in Nat
  <2> HIDE DEF n
  <2> QED BY <1>6, <1>8
<1> QED BY <1>8, <1>9

(* A transaction after some of its steps.                                  *)
Works(r0, r) ==
    /\ RunShape(r) /\ r.order = r0.order /\ r.data = r0.data /\ r.saved = r0.saved /\ r.old = r0.old
    /\ r.old \subseteq contacts /\ MadeFine(r)

Alike(l, type, email, parent, place) ==
    /\ l.email # None \/ l.type = "company"
    /\ l.type = type /\ l.email = email /\ l.parent = parent /\ l.place = place

LEMMA MakesWorks ==
    ASSUME CustomerInv, NEW r0, NEW r, Works(r0, r),
           NEW type, NEW email, NEW parent, NEW place,
           \A l \in r.old \cup r.made : ~Alike(l, type, email, parent, place)
    PROVE  LET run == Customer!Makes(r, type, email, parent, place)
           IN  /\ Works(r0, run) /\ run.result = r.result
               /\ run.made = r.made \cup {Customer!Contact(Customer!Fresh(r), type, email, parent, place)}
<1> DEFINE n == Customer!Fresh(r)
           c == Customer!Contact(n, type, email, parent, place)
           run == Customer!Makes(r, type, email, parent, place)
<1>1. /\ IsFiniteSet(r.made) /\ \A k \in r.made : IsContact(k)
      /\ \A k \in r.made, l \in AllContacts \cup r.made : k.key = l.key => k = l
      /\ \A k \in r.made, l \in r.old \cup r.made : ~Twins(k, l)
      /\ r.old \subseteq AllContacts
  BY DEF Works, MadeFine, AllContacts
<1>2. n \in Nat /\ \A k \in AllContacts \cup r.made : k.key # n
  BY <1>1, FreshContact
<1>3. run = [order |-> r.order, data |-> r.data, kind |-> r.kind, step |-> r.step, saved |-> r.saved,
             seen |-> r.seen, old |-> r.old, made |-> r.made \cup {c}, result |-> r.result]
  <2>1. run = [r EXCEPT !.made = r.made \cup {c}]
    BY DEF Customer!Makes
  <2> HIDE DEF c, run
  <2> QED BY <2>1 DEF Works, RunShape
<1>4. c.key = n /\ c.type = type /\ c.email = email /\ c.parent = parent /\ c.place = place
  BY DEF Customer!Contact
<1>5. IsContact(c)
  <2> HIDE DEF n
  <2> QED BY <1>2 DEF IsContact, Customer!Contact
<1> HIDE DEF n, c, run
<1>6. IsFiniteSet(r.made \cup {c})
  BY <1>1, FS_AddElement
<1>7. \A k \in r.made \cup {c}, l \in AllContacts \cup (r.made \cup {c}) : k.key = l.key => k = l
  BY <1>1, <1>2, <1>4
<1>8. \A l \in r.old \cup r.made : ~Twins(c, l) /\ ~Twins(l, c)
  BY <1>4 DEF Twins, Alike
<1>9. \A k \in r.made \cup {c}, l \in r.old \cup (r.made \cup {c}) : ~Twins(k, l)
  BY <1>1, <1>8 DEF Twins
<1>10. MadeFine(run)
  BY <1>1, <1>3, <1>5, <1>6, <1>7, <1>9 DEF MadeFine
<1>11. Works(r0, run) /\ run.result = r.result /\ run.made = r.made \cup {c}
  BY <1>3, <1>10 DEF Works, RunShape
<1> QED BY <1>11 DEF run, c, n

Answered(r, f, x) == [r EXCEPT !.result[f] = x]

LEMMA AnsweredWorks ==
    ASSUME NEW r0, NEW r, Works(r0, r), NEW f \in {"main", "invoice", "delivery"}, NEW x
    PROVE  /\ Works(r0, Answered(r, f, x)) /\ Answered(r, f, x).made = r.made
           /\ Answered(r, f, x).result = [r.result EXCEPT ![f] = x]
<1> DEFINE run == Answered(r, f, x)
           result == [r.result EXCEPT ![f] = x]
<1>1. run = [order |-> r.order, data |-> r.data, kind |-> r.kind, step |-> r.step, saved |-> r.saved,
             seen |-> r.seen, old |-> r.old, made |-> r.made, result |-> result]
  BY DEF Answered, Works, RunShape
<1>2. ResultShape(result)
  BY DEF Works, RunShape, ResultShape
<1> HIDE DEF run, result
<1>3. Works(r0, run) /\ run.made = r.made /\ run.result = result
  BY <1>1, <1>2 DEF Works, RunShape, MadeFine
<1> QED BY <1>3 DEF run, result

LEMMA SeenContacts ==
    ASSUME CustomerInv, NEW r0, NEW r, Works(r0, r)
    PROVE  Customer!Sees(r) = r.old \cup r.made /\ \A k \in r.old \cup r.made : IsContact(k)
BY DEF CustomerInv, Works, MadeFine, Customer!Sees

LEMMA SameMainEmail ==
    ASSUME NEW r, NEW s, r.data = s.data, r.saved = s.saved
    PROVE  Customer!MainEmail(r) = Customer!MainEmail(s)
BY DEF Customer!MainEmail

(* The main contact is found or made.                                      *)
LEMMA MainWorks ==
    ASSUME CustomerInv, NEW r0, NEW r, Works(r0, r)
    PROVE  LET run == Customer!WithMain(r)
           IN  /\ Works(r0, run)
               /\ IsMain(run.result.main, Customer!MainEmail(r0), run.old \cup run.made)
<1> DEFINE run == Customer!WithMain(r)
           email == Customer!MainEmail(r)
           hits == Customer!Mains(r)
           new == Customer!Makes(r, "contact", email, 0, None)
           c == Customer!Contact(Customer!Fresh(r), "contact", email, 0, None)
<1>1. email = Customer!MainEmail(r0)
  BY SameMainEmail DEF Works
<1>2. Customer!Sees(r) = r.old \cup r.made /\ \A k \in r.old \cup r.made : IsContact(k)
  BY SeenContacts
<1>3. hits = {k \in r.old \cup r.made : k.type = "contact" /\ k.email # None /\ k.email = email}
  BY <1>2 DEF Customer!Mains
<1>4. CASE hits # {}
  <2>1. run = Answered(r, "main", Customer!First(hits))
    BY <1>4 DEF Customer!WithMain, Answered
  <2>2. PICK k \in hits : Customer!First(hits) = k.key
    <3>1. \A k \in hits : IsContact(k)
      BY <1>2, <1>3
    <3> HIDE DEF hits
    <3> QED BY <1>4, <3>1, FirstIs
  <2> HIDE DEF run, hits, email
  <2>3. Works(r0, run) /\ run.made = r.made /\ run.result = [r.result EXCEPT !["main"] = k.key]
    BY <2>1, <2>2, AnsweredWorks
  <2>4. run.result.main = k.key /\ run.old = r.old
    BY <2>3 DEF Works, RunShape, ResultShape
  <2>5. k \in run.old \cup run.made /\ k.email = email
    BY <1>3, <2>3, <2>4
  <2>6. IsMain(run.result.main, email, run.old \cup run.made)
    BY <2>4, <2>5 DEF IsMain
  <2> QED BY <1>1, <2>3, <2>6 DEF run
<1>5. CASE hits = {}
  <2>1. run = Answered(new, "main", Customer!Fresh(r))
    BY <1>5 DEF Customer!WithMain, Answered
  <2>2. \A l \in r.old \cup r.made : ~Alike(l, "contact", email, 0, None)
    BY <1>3, <1>5 DEF Alike
  <2>3. c.key = Customer!Fresh(r) /\ c.email = email
    BY DEF Customer!Contact
  <2> HIDE DEF run, email, hits
  <2>4. Works(r0, new) /\ new.result = r.result /\ new.made = r.made \cup {c}
    BY <2>2, MakesWorks
  <2> HIDE DEF new, c
  <2>5. Works(r0, run) /\ run.made = new.made /\ run.result = [new.result EXCEPT !["main"] = Customer!Fresh(r)]
    BY <2>1, <2>4, AnsweredWorks
  <2>6. run.result.main = c.key
    BY <2>3, <2>4, <2>5 DEF Works, RunShape, ResultShape
  <2>7. c \in run.old \cup run.made
    BY <2>4, <2>5
  <2>8. IsMain(run.result.main, email, run.old \cup run.made)
    BY <2>3, <2>6, <2>7 DEF IsMain
  <2> QED BY <1>1, <2>5, <2>8 DEF run
<1> QED BY <1>4, <1>5

LEMMA CompanyWorks ==
    ASSUME CustomerInv, NEW r0, NEW r, Works(r0, r), NEW name
    PROVE  LET run == Customer!WithCompany(r, name)
           IN  /\ Works(r0, run) /\ run.result = r.result /\ r.made \subseteq run.made
               /\ IsCompany(Customer!First(Customer!Companies(run, name)), name, run.old \cup run.made)
<1> DEFINE run == Customer!WithCompany(r, name)
           new == Customer!Makes(r, "company", None, 0, name)
           c == Customer!Contact(Customer!Fresh(r), "company", None, 0, name)
           hits == Customer!Companies(r, name)
           there == Customer!Companies(run, name)
<1>1. hits = {k \in r.old \cup r.made : k.type = "company" /\ k.place = name}
  BY SeenContacts DEF Customer!Companies
<1>2. Works(r0, run) /\ run.result = r.result /\ r.made \subseteq run.made /\ there # {}
  <2>1. CASE hits # {}
    BY <2>1 DEF Customer!WithCompany
  <2>2. CASE hits = {}
    <3>1. run = new
      BY <2>2 DEF Customer!WithCompany
    <3>2. \A l \in r.old \cup r.made : ~Alike(l, "company", None, 0, name)
      BY <1>1, <2>2 DEF Alike
    <3>3. c.type = "company" /\ c.place = name
      BY DEF Customer!Contact
    <3> HIDE DEF run, hits, there
    <3>4. Works(r0, new) /\ new.result = r.result /\ new.made = r.made \cup {c}
      BY <3>2, MakesWorks
    <3> HIDE DEF new, c
    <3>5. c \in Customer!Sees(run)
      BY <3>1, <3>4 DEF Customer!Sees
    <3>6. c \in there
      BY <3>3, <3>5 DEF there, Customer!Companies
    <3> QED BY <3>1, <3>4, <3>6
  <2> QED BY <2>1, <2>2
<1> HIDE DEF run, new, c, hits
<1>3. Customer!Sees(run) = run.old \cup run.made /\ \A k \in run.old \cup run.made : IsContact(k)
  BY <1>2, SeenContacts
<1>4. there = {k \in run.old \cup run.made : k.type = "company" /\ k.place = name}
  BY <1>3 DEF Customer!Companies
<1>5. PICK k \in there : Customer!First(there) = k.key
  <2>1. \A k \in there : IsContact(k)
    BY <1>3, <1>4
  <2> HIDE DEF there
  <2> QED BY <1>2, <2>1, FirstIs
<1>6. IsCompany(k.key, name, run.old \cup run.made)
  BY <1>4, <1>5 DEF IsCompany
<1> QED BY <1>2, <1>5, <1>6 DEF run

LEMMA MoreContacts ==
    ASSUME NEW S, NEW T, S \subseteq T, NEW main, NEW x, NEW y, NEW z
    PROVE  /\ IsMain(main, x, S) => IsMain(main, x, T)
           /\ IsAnswer(x, y, z, main, S) => IsAnswer(x, y, z, main, T)
BY DEF IsMain, IsAnswer, IsAddressee, IsCompany

(* A contact for an address is found or made, below parent.                *)
Below(parent, address, main, S) ==
    IF address.company = None THEN parent = main ELSE IsCompany(parent, address.company, S)

Sought(r, type, parent, address) ==
    LET hits == Customer!Matching(r, type, parent, address)
    IN  IF hits # {} THEN Answered(r, type, Customer!First(hits))
        ELSE Answered(Customer!Makes(r, type, address.email, parent, address.place), type, Customer!Fresh(r))

LEMMA AddresseeWorks ==
    ASSUME CustomerInv, NEW r0, NEW r, Works(r0, r), NEW type \in {"invoice", "delivery"},
           NEW address, address # None, NEW parent,
           Below(parent, address, r.result.main, r.old \cup r.made)
    PROVE  LET new == Sought(r, type, parent, address)
           IN  /\ Works(r0, new) /\ r.made \subseteq new.made
               /\ \E x : new.result = [r.result EXCEPT ![type] = x]
               /\ IsAnswer(new.result[type], type, address, r.result.main, new.old \cup new.made)
<1> DEFINE new == Sought(r, type, parent, address)
           hits == Customer!Matching(r, type, parent, address)
           more == Customer!Makes(r, type, address.email, parent, address.place)
           c == Customer!Contact(Customer!Fresh(r), type, address.email, parent, address.place)
           Right(k) == /\ k.type = type /\ k.place = address.place /\ k.email = address.email
                       /\ k.parent = parent
<1>1. Customer!Sees(r) = r.old \cup r.made /\ \A k \in r.old \cup r.made : IsContact(k)
  BY SeenContacts
<1>2. hits = {k \in r.old \cup r.made : Right(k)}
  BY <1>1 DEF Customer!Matching
<1> HIDE DEF new
<1>3. \E k : /\ Works(r0, new) /\ r.made \subseteq new.made /\ k \in new.old \cup new.made
             /\ Right(k) /\ new.result = [r.result EXCEPT ![type] = k.key]
  <2>1. CASE hits # {}
    <3>1. new = Answered(r, type, Customer!First(hits))
      BY <2>1 DEF Sought, new
    <3>2. PICK k \in hits : Customer!First(hits) = k.key
      <4>1. \A k \in hits : IsContact(k)
        BY <1>1, <1>2
      <4> HIDE DEF hits
      <4> QED BY <2>1, <4>1, FirstIs
    <3> HIDE DEF hits
    <3>3. type \in {"main", "invoice", "delivery"}
      OBVIOUS
    <3>4. /\ Works(r0, Answered(r, type, k.key)) /\ Answered(r, type, k.key).made = r.made
          /\ Answered(r, type, k.key).result = [r.result EXCEPT ![type] = k.key]
      BY ONLY <3>3, Works(r0, r), AnsweredWorks
    <3>5. new.old = r.old /\ k \in r.old \cup r.made /\ Right(k)
      BY <1>2, <3>1, <3>2, <3>4 DEF Works
    <3> HIDE DEF Right
    <3> QED BY <3>1, <3>2, <3>4, <3>5
  <2>2. CASE hits = {}
    <3>1. new = Answered(more, type, Customer!Fresh(r))
      BY <2>2 DEF Sought, new
    <3>2. \A l \in r.old \cup r.made : ~Alike(l, type, address.email, parent, address.place)
      BY <1>2, <2>2 DEF Alike
    <3>3. c.key = Customer!Fresh(r) /\ Right(c)
      BY DEF Customer!Contact
    <3> HIDE DEF hits, Right
    <3>4. Works(r0, more) /\ more.result = r.result /\ more.made = r.made \cup {c}
      BY <3>2, MakesWorks
    <3> HIDE DEF more, c
    <3>5. type \in {"main", "invoice", "delivery"}
      OBVIOUS
    <3>6. /\ Works(r0, Answered(more, type, c.key)) /\ Answered(more, type, c.key).made = more.made
          /\ Answered(more, type, c.key).result = [more.result EXCEPT ![type] = c.key]
      BY ONLY <3>4, <3>5, AnsweredWorks
    <3> QED BY <3>1, <3>3, <3>4, <3>6
  <2> QED BY <2>1, <2>2
<1> HIDE DEF hits, more, c
<1>4. PICK k : /\ Works(r0, new) /\ r.made \subseteq new.made /\ k \in new.old \cup new.made
               /\ Right(k) /\ new.result = [r.result EXCEPT ![type] = k.key]
  BY <1>3
<1>5. new.old = r.old /\ new.result[type] = k.key
  BY <1>4 DEF Works, RunShape, ResultShape
<1>6. IF address.company = None THEN k.parent = r.result.main
      ELSE IsCompany(k.parent, address.company, new.old \cup new.made)
  BY <1>4, <1>5 DEF IsCompany, Below
<1>7. IsAddressee(k.key, type, address, r.result.main, new.old \cup new.made)
  BY <1>4, <1>6 DEF IsAddressee
<1> QED BY <1>4, <1>5, <1>7 DEF IsAnswer, new

(* The contact for the invoice or the delivery.                            *)
LEMMA ContactWorks ==
    ASSUME CustomerInv, NEW r0, NEW r, Works(r0, r), NEW type \in {"invoice", "delivery"}
    PROVE  LET new == Customer!WithContact(r, type)
           IN  /\ Works(r0, new) /\ r.made \subseteq new.made
               /\ \E x : new.result = [r.result EXCEPT ![type] = x]
               /\ IsAnswer(new.result[type], type, r0.data[type], r.result.main, new.old \cup new.made)
<1> DEFINE new == Customer!WithContact(r, type)
           address == r.data[type]
           main == r.result.main
<1>1. address = r0.data[type]
  BY DEF Works
<1>2. CASE address = None
  <2>1. new = Answered(r, type, main)
    BY <1>2 DEF Customer!WithContact, Answered
  <2>2. type \in {"main", "invoice", "delivery"}
    OBVIOUS
  <2> HIDE DEF new
  <2>3. Works(r0, new) /\ new.made = r.made /\ new.result = [r.result EXCEPT ![type] = main]
    BY <2>1, <2>2, AnsweredWorks
  <2>4. new.result[type] = main
    BY <2>3 DEF Works, RunShape, ResultShape
  <2>5. IsAnswer(new.result[type], type, address, main, new.old \cup new.made)
    BY <1>2, <2>4 DEF IsAnswer
  <2> QED BY <1>1, <2>3, <2>5 DEF new
<1>3. CASE address # None
  <2> DEFINE run == IF address.company = None THEN r ELSE Customer!WithCompany(r, address.company)
             parent == IF address.company = None THEN r.result.main
                       ELSE Customer!First(Customer!Companies(run, address.company))
  <2>1. new = Sought(run, type, parent, address)
    BY <1>3 DEF Customer!WithContact, Answered, Sought
  <2>2. /\ Works(r0, run) /\ run.result = r.result /\ r.made \subseteq run.made
        /\ Below(parent, address, run.result.main, run.old \cup run.made)
    BY CompanyWorks DEF Below
  <2> HIDE DEF new, run, parent, address
  <2>3. /\ Works(r0, new) /\ run.made \subseteq new.made
        /\ \E x : new.result = [run.result EXCEPT ![type] = x]
        /\ IsAnswer(new.result[type], type, address, run.result.main, new.old \cup new.made)
    <3>1. CustomerInv /\ address # None /\ type \in {"invoice", "delivery"} /\ Works(r0, run)
      BY <1>3, <2>2
    <3>2. Below(parent, address, run.result.main, run.old \cup run.made)
      BY <2>2
    <3>3. LET made == Sought(run, type, parent, address)
          IN  /\ Works(r0, made) /\ run.made \subseteq made.made
              /\ \E x : made.result = [run.result EXCEPT ![type] = x]
              /\ IsAnswer(made.result[type], type, address, run.result.main, made.old \cup made.made)
      BY ONLY <3>1, <3>2, AddresseeWorks, ZenonT(30)
    <3> QED BY <2>1, <3>3
  <2> QED BY <1>1, <2>2, <2>3 DEF new
<1> QED BY <1>2, <1>3

(* determine_customer, from its begin to its end.                          *)
LEMMA DetermineWorks ==
    ASSUME CustomerInv, NEW r, Works(r, r)
    PROVE  LET run == Customer!WithContact(Customer!WithContact(Customer!WithMain(r), "invoice"), "delivery")
           IN  /\ Works(r, run)
               /\ Addressed(r.data, Customer!MainEmail(r), run.result, run.old \cup run.made)
<1> DEFINE a == Customer!WithMain(r)
           b == Customer!WithContact(a, "invoice")
           run == Customer!WithContact(b, "delivery")
           S(x) == x.old \cup x.made
<1>1. Works(r, a) /\ IsMain(a.result.main, Customer!MainEmail(r), S(a))
  BY MainWorks
<1> HIDE DEF a
<1>2. /\ Works(r, b) /\ a.made \subseteq b.made
      /\ \E x : b.result = [a.result EXCEPT !["invoice"] = x]
      /\ IsAnswer(b.result["invoice"], "invoice", r.data["invoice"], a.result.main, S(b))
  BY <1>1, ContactWorks
<1> HIDE DEF b
<1>3. /\ Works(r, run) /\ b.made \subseteq run.made
      /\ \E x : run.result = [b.result EXCEPT !["delivery"] = x]
      /\ IsAnswer(run.result["delivery"], "delivery", r.data["delivery"], b.result.main, S(run))
  BY <1>2, ContactWorks
<1> HIDE DEF run
<1>4. a.result.main = b.result.main
  BY <1>1, <1>2 DEF Works, RunShape, ResultShape
<1>5. run.result.main = b.result.main /\ run.result["invoice"] = b.result["invoice"]
  BY <1>2, <1>3 DEF Works, RunShape, ResultShape
<1>6. S(a) \subseteq S(b) /\ S(b) \subseteq S(run)
  BY <1>1, <1>2, <1>3 DEF Works
<1>7. IsMain(run.result.main, Customer!MainEmail(r), S(run))
  BY <1>1, <1>4, <1>5, <1>6, MoreContacts
<1>8. IsAnswer(run.result["invoice"], "invoice", r.data["invoice"], run.result.main, S(run))
  BY <1>2, <1>4, <1>5, <1>6, MoreContacts
<1>9. IsAnswer(run.result["delivery"], "delivery", r.data["delivery"], run.result.main, S(run))
  BY <1>3, <1>5
<1>10. Addressed(r.data, Customer!MainEmail(r), run.result, S(run))
  BY <1>7, <1>8, <1>9 DEF Addressed
<1> QED BY <1>3, <1>10 DEF run, b, a

-----------------------------------------------------------------------------
(* Steps.  The transactions that go on see what they saw.                  *)
LEMMA RunsKept ==
    ASSUME NEW r, OrderRunFine(r), contacts \subseteq contacts', AllContacts' \subseteq AllContacts
    PROVE  OrderRunFine(r)'
<1>1. MadeFine(r)'
  BY DEF OrderRunFine, MadeFine
<1> QED BY <1>1 DEF OrderRunFine

LEMMA CustomerInit == Customer!Init => CustomerInv
<1> SUFFICES ASSUME Customer!Init PROVE CustomerInv
  OBVIOUS
<1>1. contacts = {} /\ runs = {} /\ jobs = {} /\ orders = [o \in Orders |-> None]
  BY DEF Customer!Init
<1> QED BY <1>1, FS_EmptySet DEF CustomerInv

LEMMA CustomerStays ==
    CustomerInv /\ UNCHANGED <<runs, jobs, OfCustomers>> => CustomerInv'
<1> SUFFICES ASSUME CustomerInv, UNCHANGED <<runs, jobs, OfCustomers>> PROVE CustomerInv'
  OBVIOUS
<1>1. UNCHANGED <<runs, contacts, orders, jobs, warned, unseen>> /\ AllContacts' = AllContacts
  BY DEF OfCustomers, AllContacts
<1>2. \A r \in runs : OrderRunFine(r)'
  BY <1>1, RunsKept DEF CustomerInv
<1>3. \A o \in Orders : OrderFine(o)' <=> OrderFine(o)
  BY <1>1 DEF OrderFine
<1> QED BY <1>1, <1>2, <1>3 DEF CustomerInv

(* A transaction that goes on, or that ends with nothing.                  *)
LEMMA RunStep ==
    ASSUME CustomerInv, UNCHANGED <<contacts, orders, jobs, warned, unseen>>,
           NEW r \in runs, runs' = runs \ {r}
    PROVE  CustomerInv'
<1>1. AllContacts' \subseteq AllContacts
  BY DEF AllContacts
<1>2. \A x \in runs' : OrderRunFine(x)'
  BY <1>1, RunsKept DEF CustomerInv
<1>3. IsFiniteSet(runs')
  BY FS_Subset DEF CustomerInv
<1>4. \A o \in Orders : OrderFine(o)' <=> OrderFine(o)
  BY DEF OrderFine
<1> QED BY <1>2, <1>3, <1>4 DEF CustomerInv

LEMMA RunGoesOn ==
    ASSUME CustomerInv, UNCHANGED <<contacts, orders, jobs, warned, unseen>>,
           NEW R, NEW new, OrderRunFine(new), runs' = (runs \ R) \cup {new}
    PROVE  CustomerInv'
<1>1. AllContacts' \subseteq AllContacts \cup new.made
  BY DEF AllContacts
<1>2. \A k \in new.made, l \in AllContacts \cup new.made : k.key = l.key => k = l
  BY DEF OrderRunFine, MadeFine
<1>3. OrderRunFine(new)'
  <2>1. MadeFine(new)'
    BY <1>1, <1>2 DEF OrderRunFine, MadeFine
  <2> QED BY <2>1 DEF OrderRunFine
<1>4. ASSUME NEW x \in runs PROVE OrderRunFine(x)'
  <2>1. OrderRunFine(x) /\ MadeFine(x) /\ x.made \subseteq AllContacts
    BY DEF CustomerInv, OrderRunFine, AllContacts
  <2>2. \A k \in x.made, l \in AllContacts' \cup x.made : k.key = l.key => k = l
    BY <1>1, <1>2, <2>1 DEF MadeFine
  <2>3. MadeFine(x)'
    BY <2>1, <2>2 DEF MadeFine
  <2> QED BY <2>1, <2>3 DEF OrderRunFine
<1>5. IsFiniteSet(runs')
  <2>1. IsFiniteSet(runs \ R)
    BY FS_Subset DEF CustomerInv
  <2> QED BY <2>1, FS_AddElement
<1>6. \A o \in Orders : OrderFine(o)' <=> OrderFine(o)
  BY DEF OrderFine
<1> QED BY <1>3, <1>4, <1>5, <1>6 DEF CustomerInv

LEMMA CustomerBegins ==
    ASSUME CustomerInv, NEW o \in Orders, NEW data \in OrderData, Customer!BeginOrder(o, data)
    PROVE  CustomerInv'
<1> DEFINE kind == IF orders[o] = None THEN "create" ELSE "update"
           new == [order |-> o, data |-> data, kind |-> kind, step |-> "begun", saved |-> <<>>, seen |-> profiles,
                   old |-> contacts, made |-> {}, result |-> [main |-> 0, invoice |-> 0, delivery |-> 0]]
<1>1. runs' = (runs \ {}) \cup {new} /\ UNCHANGED <<contacts, orders, jobs, warned, unseen>>
  BY DEF Customer!BeginOrder
<1> HIDE DEF kind
<1>2. OrderRunFine(new)
  <2>1. RunShape(new)
    BY DEF RunShape, ResultShape
  <2>2. new.made = {} /\ new.old = contacts /\ new.step = "begun"
    OBVIOUS
  <2> HIDE DEF new
  <2> QED BY <2>1, <2>2, FS_EmptySet DEF OrderRunFine, MadeFine
<1> HIDE DEF new
<1> QED BY <1>1, <1>2, RunGoesOn

LEMMA SteppedFine ==
    ASSUME NEW r, OrderRunFine(r), r.step = "begun", NEW s
    PROVE  LET new == [r EXCEPT !.step = "customer"]
           IN  OrderRunFine(new) /\ OrderRunFine([new EXCEPT !.saved = s])
<1> DEFINE new == [r EXCEPT !.step = "customer"]
           more == [new EXCEPT !.saved = s]
<1>1. RunShape(r) /\ r.old \subseteq contacts /\ r.made = {}
  BY DEF OrderRunFine
<1>2. new = [order |-> r.order, data |-> r.data, kind |-> r.kind, step |-> "customer", saved |-> r.saved,
             seen |-> r.seen, old |-> r.old, made |-> r.made, result |-> r.result]
  BY <1>1 DEF RunShape
<1> HIDE DEF new
<1>3. RunShape(new) /\ new.old \subseteq contacts /\ new.made = {} /\ new.step = "customer"
  BY <1>1, <1>2 DEF RunShape
<1>4. more = [order |-> new.order, data |-> new.data, kind |-> new.kind, step |-> new.step, saved |-> s,
              seen |-> new.seen, old |-> new.old, made |-> new.made, result |-> new.result]
  BY <1>3 DEF RunShape
<1> HIDE DEF more
<1>5. RunShape(more) /\ more.old \subseteq contacts /\ more.made = {} /\ more.step = "customer"
  BY <1>3, <1>4 DEF RunShape
<1>6. OrderRunFine(new) /\ OrderRunFine(more)
  BY <1>3, <1>5, FS_EmptySet DEF OrderRunFine, MadeFine
<1> QED BY <1>6 DEF more, new

LEMMA CustomerFetched ==
    ASSUME CustomerInv, NEW r \in runs, Customer!FetchCustomer(r)
    PROVE  CustomerInv'
<1> DEFINE c == r.data.customer
           saved == [x \in {c} |-> store[c]]
           new == [r EXCEPT !.step = "customer"]
           more == [new EXCEPT !.saved = saved]
<1>1. r.step = "begun" /\ OrderRunFine(r) /\ UNCHANGED <<contacts, orders, jobs, warned, unseen>>
  BY DEF CustomerInv, Customer!FetchCustomer
<1>2. \/ runs' = runs \ {r}
      \/ runs' = (runs \ {r}) \cup {new}
      \/ runs' = (runs \ {r}) \cup {more}
  <2>1. more = [r EXCEPT !.step = "customer", !.saved = saved]
    OBVIOUS
  <2>2. runs' = (runs \ {r}) \cup IF c = 0 THEN {new} ELSE IF store[c] = None THEN {} ELSE {more}
    BY Zenon, <2>1 DEF Customer!FetchCustomer
  <2> HIDE DEF c, new, more
  <2> QED BY <2>2
<1>3. OrderRunFine(new) /\ OrderRunFine(more)
  <2> HIDE DEF saved
  <2> QED BY <1>1, SteppedFine
<1> HIDE DEF new, more
<1> QED BY <1>1, <1>2, <1>3, RunStep, RunGoesOn

LEMMA CustomerDetermined ==
    ASSUME CustomerInv, NEW r \in runs, Customer!Determine(r)
    PROVE  CustomerInv'
<1> DEFINE run == Customer!WithContact(Customer!WithContact(Customer!WithMain(r), "invoice"), "delivery")
           new == [run EXCEPT !.step = "done"]
<1>1. OrderRunFine(r)
  BY DEF CustomerInv
<1>2. runs' = (runs \ {r}) \cup {new} /\ UNCHANGED <<contacts, orders, jobs, warned, unseen>>
  BY DEF Customer!Determine
<1>3. Works(r, r)
  BY <1>1 DEF Works, OrderRunFine
<1>4. Works(r, run) /\ Addressed(r.data, Customer!MainEmail(r), run.result, run.old \cup run.made)
  BY <1>3, DetermineWorks
<1> HIDE DEF run
<1>5. new = [order |-> run.order, data |-> run.data, kind |-> run.kind, step |-> "done", saved |-> run.saved,
             seen |-> run.seen, old |-> run.old, made |-> run.made, result |-> run.result]
  BY <1>4 DEF Works, RunShape
<1> HIDE DEF new
<1>6. /\ RunShape(new) /\ new.step = "done" /\ new.old = run.old /\ new.made = run.made
      /\ new.data = r.data /\ new.saved = r.saved /\ new.result = run.result
  BY <1>4, <1>5 DEF Works, RunShape
<1>7. Customer!MainEmail(new) = Customer!MainEmail(r)
  BY <1>6, SameMainEmail
<1>8. new.old \subseteq contacts /\ MadeFine(new)
  BY <1>4, <1>6 DEF Works, MadeFine
<1>9. OrderRunFine(new)
  BY <1>4, <1>6, <1>7, <1>8 DEF OrderRunFine
<1> QED BY <1>2, <1>9, RunGoesOn

LEMMA MoreSaid ==
    ASSUME NEW said, NEW S, NEW T, S \subseteq T, SaidFine(said, S)
    PROVE  SaidFine(said, T)
BY MoreContacts DEF SaidFine, Addressed

LEMMA CustomerEnds ==
    ASSUME CustomerInv, NEW r \in runs, Customer!EndOrder(r)
    PROVE  CustomerInv'
<1> DEFINE queued == [order |-> r.order, kind |-> r.kind, said |-> Customer!Said(r)]
<1>1. OrderRunFine(r) /\ r.step = "done" /\ runs' = runs \ {r} /\ UNCHANGED <<orders, warned>>
  BY DEF CustomerInv, Customer!EndOrder
<1>2. CASE UNCHANGED <<profiles, contacts, jobs, unseen>>
  BY <1>1, <1>2, RunStep
<1>3. CASE /\ contacts' = contacts \cup r.made
           /\ jobs' = jobs \/ jobs' = jobs \cup {queued}
           /\ unseen' = unseen \cup IF contacts = r.old THEN {} ELSE {k.key : k \in r.made}
  <2>1. AllContacts' \subseteq AllContacts /\ contacts \subseteq contacts' /\ contacts' \subseteq AllContacts
    BY <1>1, <1>3 DEF AllContacts
  <2>2. \A x \in runs' : OrderRunFine(x)'
    BY <1>1, <2>1, RunsKept DEF CustomerInv
  <2>3. MadeFine(r) /\ r.old \subseteq contacts
    BY <1>1 DEF OrderRunFine
  <2>4. IsFiniteSet(runs') /\ IsFiniteSet(contacts')
    <3>1. IsFiniteSet(runs')
      BY <1>1, FS_Subset DEF CustomerInv
    <3>2. IsFiniteSet(contacts \cup r.made)
      BY <2>3, FS_Union DEF CustomerInv, MadeFine
    <3> QED BY <1>3, <3>1, <3>2
  <2>5. /\ \A k \in contacts' : IsContact(k)
        /\ \A k, l \in contacts' : k.key = l.key => k = l
    BY <1>3, <2>3 DEF CustomerInv, MadeFine, AllContacts
  <2>6. \A k, l \in contacts' : Twins(k, l) => k.key \in unseen' \/ l.key \in unseen'
    <3> SUFFICES ASSUME NEW k \in contacts', NEW l \in contacts', Twins(k, l)
                 PROVE  k.key \in unseen' \/ l.key \in unseen'
      OBVIOUS
    <3>1. CASE k \in contacts /\ l \in contacts
      BY <1>3, <3>1 DEF CustomerInv
    <3>2. CASE k \in r.made \/ l \in r.made
      <4>1. Twins(l, k)
        BY DEF Twins
      <4>2. contacts # r.old
        <5> SUFFICES ASSUME contacts = r.old PROVE FALSE
          OBVIOUS
        <5>1. k \in r.old \cup r.made /\ l \in r.old \cup r.made
          BY <1>3
        <5> QED BY <2>3, <3>2, <4>1, <5>1 DEF MadeFine
      <4> QED BY <1>3, <3>2, <4>2
    <3> QED BY <1>3, <3>1, <3>2
  <2>7. ASSUME NEW j \in jobs' PROVE SaidFine(j.said, contacts')
    <3>1. CASE j \in jobs
      <4>1. SaidFine(j.said, contacts)
        BY <3>1 DEF CustomerInv
      <4> QED BY <2>1, <4>1, MoreSaid
    <3>2. CASE j = queued
      <4>1. SaidFine(Customer!Said(r), r.old \cup r.made)
        BY <1>1 DEF OrderRunFine, SaidFine, Customer!Said
      <4>2. r.old \cup r.made \subseteq contacts'
        BY <1>3, <2>3
      <4> QED BY <3>2, <4>1, <4>2, MoreSaid
    <3> QED BY <1>3, <3>1, <3>2
  <2>8. ASSUME NEW o \in Orders, orders'[o] # None PROVE OrderFine(o)'
    <3>1. orders[o] # None /\ OrderFine(o) /\ UNCHANGED <<orders, warned>>
      BY <1>1, <2>8 DEF CustomerInv
    <3>2. /\ SaidFine(orders[o].first, contacts') /\ SaidFine(orders[o].latest, contacts')
          /\ o \in warned \/ SamePlace(orders[o].first.result.delivery, orders[o].latest.result.delivery, contacts')
      BY <2>1, <3>1, MoreSaid DEF OrderFine, SamePlace
    <3> QED BY <3>1, <3>2 DEF OrderFine
  <2>9. orders' = [o \in Orders |-> orders'[o]]
    BY <1>1 DEF CustomerInv
  <2> QED BY <2>2, <2>4, <2>5, <2>6, <2>7, <2>8, <2>9 DEF CustomerInv
<1> QED BY <1>2, <1>3 DEF Customer!EndOrder

LEMMA OfIs ==
    ASSUME CustomerInv, NEW k \in contacts
    PROVE  Customer!Of(k.key) = k
BY DEF CustomerInv, Customer!Of

(* What an order is delivered to is a contact.                             *)
LEMMA DeliveryIs ==
    ASSUME NEW said, NEW S, SaidFine(said, S)
    PROVE  \E c \in S : c.key = said.result.delivery
<1>1. /\ IsMain(said.result.main, said.email, S)
      /\ IsAnswer(said.result.delivery, "delivery", said.data.delivery, said.result.main, S)
  BY DEF SaidFine, Addressed
<1> QED BY <1>1 DEF IsMain, IsAnswer, IsAddressee

LEMMA CustomerSaves ==
    ASSUME CustomerInv, NEW j \in jobs, Customer!SaveOrder(j)
    PROVE  CustomerInv'
<1>1. jobs' = jobs \ {j} /\ UNCHANGED <<runs, contacts, unseen>>
  BY DEF Customer!SaveOrder
<1>2. AllContacts' = AllContacts
  BY <1>1 DEF AllContacts
<1>3. \A x \in runs : OrderRunFine(x)'
  BY <1>1, <1>2, RunsKept DEF CustomerInv
<1>4. SaidFine(j.said, contacts) /\ orders = [o \in Orders |-> orders[o]]
  BY DEF CustomerInv
<1>5. orders' = [o \in Orders |-> orders'[o]]
  BY <1>4 DEF Customer!SaveOrder
<1>6. ASSUME NEW o \in Orders, orders'[o] # None PROVE OrderFine(o)'
  <2>1. PICK c \in contacts : c.key = j.said.result.delivery
    BY <1>4, DeliveryIs
  <2>2. CASE o = j.order /\ orders[o] = None /\ orders' # orders
    <3>1. orders' = [orders EXCEPT ![j.order] = [first |-> j.said, latest |-> j.said]]
      BY <2>2 DEF Customer!SaveOrder
    <3>2. orders'[o].first = j.said /\ orders'[o].latest = j.said
      BY <1>4, <2>2, <3>1
    <3>3. SamePlace(j.said.result.delivery, j.said.result.delivery, contacts)
      BY <2>1 DEF SamePlace
    <3> QED BY <1>1, <1>4, <3>2, <3>3 DEF OrderFine
  <2>3. CASE o = j.order /\ orders[o] # None /\ orders' # orders
    <3> DEFINE first == orders[o].first
               newest == orders[o].latest
    <3>1. /\ orders' = [orders EXCEPT ![j.order] = [first |-> @.first, latest |-> j.said]]
          /\ warned' = IF Customer!Of(j.said.result.delivery).place = Customer!Of(orders[j.order].latest.result.delivery).place
                       THEN warned ELSE warned \cup {j.order}
      BY <2>3 DEF Customer!SaveOrder
    <3>2. orders'[o].first = first /\ orders'[o].latest = j.said
      BY <1>4, <2>3, <3>1
    <3>3. OrderFine(o)
      BY <2>3 DEF CustomerInv
    <3>4. o \in warned' \/ SamePlace(first.result.delivery, j.said.result.delivery, contacts)
      <4> SUFFICES ASSUME o \notin warned'
                   PROVE  SamePlace(first.result.delivery, j.said.result.delivery, contacts)
        OBVIOUS
      <4>1. /\ Customer!Of(j.said.result.delivery).place = Customer!Of(newest.result.delivery).place
            /\ o \notin warned
        BY <2>3, <3>1
      <4>2. PICK a \in contacts, d \in contacts :
               a.key = first.result.delivery /\ d.key = newest.result.delivery /\ a.place = d.place
        BY <3>3, <4>1 DEF OrderFine, SamePlace
      <4>3. Customer!Of(d.key) = d /\ Customer!Of(c.key) = c
        BY OfIs
      <4> QED BY <2>1, <4>1, <4>2, <4>3 DEF SamePlace
    <3> QED BY <1>1, <1>4, <3>2, <3>3, <3>4 DEF OrderFine
  <2>4. CASE o # j.order \/ orders' = orders
    <3>1. orders'[o] = orders[o] /\ (o \in warned => o \in warned')
      BY <1>4, <2>4 DEF Customer!SaveOrder
    <3>2. OrderFine(o)
      BY <1>6, <3>1 DEF CustomerInv
    <3> QED BY <1>1, <3>1, <3>2 DEF OrderFine
  <2> QED BY <2>2, <2>3, <2>4
<1> QED BY <1>1, <1>3, <1>5, <1>6 DEF CustomerInv

LEMMA CustomerNext == CustomerInv /\ Customer!Next => CustomerInv'
<1> SUFFICES ASSUME CustomerInv, Customer!Next PROVE CustomerInv'
  OBVIOUS
<1>1. CASE UNCHANGED <<runs, jobs, OfCustomers>>
  BY <1>1, CustomerStays
<1>2. ASSUME NEW c, Customer!CustomerLeaves(c) \/ \E e : Customer!CustomerChanges(c, e)
      PROVE  UNCHANGED <<runs, jobs, OfCustomers>>
  BY <1>2 DEF Customer!CustomerLeaves, Customer!CustomerChanges, OfCustomers
<1> QED BY <1>1, <1>2, CustomerBegins, CustomerFetched, CustomerDetermined, CustomerEnds,
       CustomerSaves DEF Customer!Next

LEMMA CustomerReuses == CustomerInv => Customer!ContactsReused
<1> SUFFICES ASSUME CustomerInv, NEW k \in contacts, NEW l \in contacts,
                    k.key # l.key, k.email # None \/ k.type = "company",
                    [k EXCEPT !.key = 0] = [l EXCEPT !.key = 0]
             PROVE  k.key \in unseen \/ l.key \in unseen
  BY DEF Customer!ContactsReused
<1>1. ASSUME NEW m \in contacts
      PROVE  [m EXCEPT !.key = 0]
                = [key |-> 0, type |-> m.type, email |-> m.email, parent |-> m.parent, place |-> m.place]
  BY DEF CustomerInv, IsContact
<1>2. k.type = l.type /\ k.email = l.email /\ k.parent = l.parent /\ k.place = l.place
  <2> DEFINE a == [k EXCEPT !.key = 0]
             b == [l EXCEPT !.key = 0]
  <2>1. /\ a.type = k.type /\ a.email = k.email /\ a.parent = k.parent /\ a.place = k.place
        /\ b.type = l.type /\ b.email = l.email /\ b.parent = l.parent /\ b.place = l.place
    BY <1>1
  <2> HIDE DEF a, b
  <2>2. a = b
    BY DEF a, b
  <2> QED BY <2>1, <2>2
<1> QED BY <1>2 DEF CustomerInv, Twins

LEMMA CustomerAddresses == CustomerInv => Customer!OrdersAddressed
<1> SUFFICES ASSUME CustomerInv PROVE Customer!OrdersAddressed
  OBVIOUS
<1>1. ASSUME NEW contact, NEW type, NEW address, NEW main, NEW email, IsMain(main, email, contacts),
             IsAnswer(contact, type, address, main, contacts)
      PROVE  Customer!HasAddress(contact, type, address, main)
  <2>1. CASE address = None
    BY <1>1, <2>1 DEF IsAnswer, Customer!HasAddress
  <2>2. CASE address # None
    <3>1. PICK c \in contacts :
             /\ c.key = contact /\ c.type = type /\ c.place = address.place /\ c.email = address.email
             /\ IF address.company = None THEN c.parent = main ELSE IsCompany(c.parent, address.company, contacts)
      BY <1>1, <2>2 DEF IsAnswer, IsAddressee
    <3>2. Customer!Of(contact) = c
      BY <3>1, OfIs
    <3>3. address.company # None =>
             Customer!Of(c.parent).type = "company" /\ Customer!Of(c.parent).place = address.company
      BY <3>1, OfIs DEF IsCompany
    <3> QED BY <2>2, <3>1, <3>2, <3>3 DEF Customer!HasAddress
  <2> QED BY <2>1, <2>2
<1>2. ASSUME NEW said, SaidFine(said, contacts)
      PROVE  /\ Customer!Of(said.result.main).email = said.email
             /\ Customer!HasAddress(said.result.invoice, "invoice", said.data.invoice, said.result.main)
             /\ Customer!HasAddress(said.result.delivery, "delivery", said.data.delivery, said.result.main)
  <2>1. /\ IsMain(said.result.main, said.email, contacts)
        /\ IsAnswer(said.result.invoice, "invoice", said.data.invoice, said.result.main, contacts)
        /\ IsAnswer(said.result.delivery, "delivery", said.data.delivery, said.result.main, contacts)
    BY <1>2 DEF SaidFine, Addressed
  <2>2. Customer!Of(said.result.main).email = said.email
    BY <2>1, OfIs DEF IsMain
  <2> QED BY <1>1, <2>1, <2>2
<1>3. ASSUME NEW k, NEW l, SamePlace(k, l, contacts)
      PROVE  Customer!Of(k).place = Customer!Of(l).place
  BY <1>3, OfIs DEF SamePlace
<1>4. ASSUME NEW o \in Orders, orders[o] # None PROVE OrderFine(o)
  BY <1>4 DEF CustomerInv
<1> QED BY <1>2, <1>3, <1>4 DEF Customer!OrdersAddressed, OrderFine

LEMMA CustomerSteps ==
    [Next]_vars /\ part' = "customers" =>
        part = "customers" /\ (Customer!Next \/ UNCHANGED <<runs, jobs, OfCustomers>>)
BY DEF Next, vars

(* Contacts are used again, and an order is addressed to whom it says, its *)
(* delivery to where it said first, in whatever order imports and jobs     *)
(* fetch, determine, commit and save (get_customer_partner,                *)
(* determine_customer, compare_address, _update_in_queue_job), for any     *)
(* orders and customers.                                                   *)
THEOREM ContactsAreRight == Spec => []ContactsOfOrders
<1> DEFINE I == part = "customers" => CustomerInv
<1>1. Init => I
  BY CustomerInit DEF Init
<1>2. I /\ [Next]_vars => I'
  BY CustomerSteps, CustomerNext, CustomerStays
<1>3. I => ContactsOfOrders
  BY CustomerReuses, CustomerAddresses DEF ContactsOfOrders
<1> QED BY <1>1, <1>2, <1>3, PTL DEF Spec

-----------------------------------------------------------------------------
(* Transfers of services (ServiceTransfers).                               *)

ServiceMoves ==
    [picking : Nat, line : Peers, demand : Nat, done : Nat, state : {"draft", "done", "cancel"}]

(* Drafts are in one transfer, which has nothing else, one for each line.  *)
MovesFine(mvs) ==
    /\ IsFiniteSet(mvs) /\ mvs \subseteq ServiceMoves
    /\ \A m, n \in mvs :
          m.state = "draft" /\ n.state = "draft" => m.picking = n.picking /\ (m.line = n.line => m = n)
    /\ \A m, n \in mvs : m.state = "draft" /\ n.picking = m.picking => n.state = "draft"
    /\ \A m \in mvs : m.state = "draft" => m.demand > 0

ServiceInv ==
    /\ sale \in {"draft", "sale", "done", "cancel"}
    /\ qty \in [Peers -> Nat] /\ delivered \in [Peers -> Nat] /\ peak \in [Peers -> Nat]
    /\ \A l \in Peers : qty[l] =< peak[l]
    /\ MovesFine(moves)
    /\ sale \in {"draft", "cancel"} => uncovered = Peers /\ \A m \in moves : m.state # "draft"
    /\ Service!DeliveredIsDone /\ Service!NothingTwice /\ Service!NothingLeftOut

LEMMA ServiceSum ==
    ASSUME NEW S, IsFiniteSet(S), NEW f
    PROVE  /\ (\A m \in S : f[m] = m.done) => Service!Total(S) = Total(f, S)
           /\ (\A m \in S : f[m] = m.demand) => Service!Demanded(S) = Total(f, S)
<1>1. PICK h : IsSum(h, f, S)
  BY SumExists
<1>2. ASSUME \A m \in S : f[m] = m.done PROVE Service!Total(S) = Total(f, S)
  <2> DEFINE g == CHOOSE it : it = [s \in SUBSET S |->
                    IF s = {} THEN 0
                    ELSE (CHOOSE x \in s : TRUE).done + it[s \ {CHOOSE x \in s : TRUE}]]
  <2>1. \A s \in SUBSET S : s # {} => f[CHOOSE x \in s : TRUE] = (CHOOSE x \in s : TRUE).done
    BY <1>2
  <2>2. h = [s \in SUBSET S |->
               IF s = {} THEN 0
               ELSE (CHOOSE x \in s : TRUE).done + h[s \ {CHOOSE x \in s : TRUE}]]
    BY <1>1, <2>1 DEF IsSum, PickFrom
  <2>3. g = [s \in SUBSET S |->
               IF s = {} THEN 0
               ELSE (CHOOSE x \in s : TRUE).done + g[s \ {CHOOSE x \in s : TRUE}]]
    BY <2>2
  <2> HIDE DEF g
  <2>4. IsSum(g, f, S)
    BY <2>1, <2>3 DEF IsSum, PickFrom
  <2>5. Service!Total(S) = g[S]
    BY DEF g, Service!Total, Service!MapThenSumSet, Service!MapThenFoldSet
  <2>6. PICK k : IsSum(k, f, S) /\ Total(f, S) = k[S]
    BY TotalIs
  <2> QED BY <2>4, <2>5, <2>6, SumUnique
<1>3. ASSUME \A m \in S : f[m] = m.demand PROVE Service!Demanded(S) = Total(f, S)
  <2> DEFINE g == CHOOSE it : it = [s \in SUBSET S |->
                    IF s = {} THEN 0
                    ELSE (CHOOSE x \in s : TRUE).demand + it[s \ {CHOOSE x \in s : TRUE}]]
  <2>1. \A s \in SUBSET S : s # {} => f[CHOOSE x \in s : TRUE] = (CHOOSE x \in s : TRUE).demand
    BY <1>3
  <2>2. h = [s \in SUBSET S |->
               IF s = {} THEN 0
               ELSE (CHOOSE x \in s : TRUE).demand + h[s \ {CHOOSE x \in s : TRUE}]]
    BY <1>1, <2>1 DEF IsSum, PickFrom
  <2>3. g = [s \in SUBSET S |->
               IF s = {} THEN 0
               ELSE (CHOOSE x \in s : TRUE).demand + g[s \ {CHOOSE x \in s : TRUE}]]
    BY <2>2
  <2> HIDE DEF g
  <2>4. IsSum(g, f, S)
    BY <2>1, <2>3 DEF IsSum, PickFrom
  <2>5. Service!Demanded(S) = g[S]
    BY DEF g, Service!Demanded, Service!MapThenSumSet, Service!MapThenFoldSet
  <2>6. PICK k : IsSum(k, f, S) /\ Total(f, S) = k[S]
    BY TotalIs
  <2> QED BY <2>4, <2>5, <2>6, SumUnique
<1> QED BY <1>2, <1>3

(* What is done, of part of the moves and of one more.                     *)
LEMMA DoneParts ==
    ASSUME NEW S, IsFiniteSet(S), \A m \in S : m.done \in Nat
    PROVE  /\ Service!Total(S) \in Nat
           /\ \A T \in SUBSET S : Service!Total(T) \in Nat /\ Service!Total(T) =< Service!Total(S)
           /\ \A m \in S : Service!Total(S) = Service!Total(S \ {m}) + m.done
<1> PICK f : f = [m \in S |-> m.done]
  OBVIOUS
<1>1. \A m \in S : f[m] = m.done /\ f[m] \in Nat
  OBVIOUS
<1>2. \A T \in SUBSET S : Service!Total(T) = Total(f, T)
  <2> TAKE T \in SUBSET S
  <2>1. IsFiniteSet(T) /\ \A m \in T : f[m] = m.done
    BY <1>1, FS_Subset
  <2> QED BY <2>1, ServiceSum
<1>3. \A T \in SUBSET S :
         /\ Total(f, T) \in Nat /\ Total(f, S \ T) \in Nat /\ Total(f, S) \in Nat
         /\ Total(f, S) = Total(f, T) + Total(f, S \ T)
  BY <1>1, TotalParts
<1>4. \A T \in SUBSET S : Total(f, T) =< Total(f, S)
  <2> TAKE T \in SUBSET S
  <2> DEFINE a == Total(f, T)
             b == Total(f, S \ T)
             c == Total(f, S)
  <2>1. a \in Nat /\ b \in Nat /\ c = a + b
    BY <1>3
  <2> HIDE DEF a, b, c
  <2>2. a =< c
    BY <2>1
  <2> QED BY <2>2 DEF a, c
<1>5. \A m \in S : Total(f, S) = f[m] + Total(f, S \ {m}) /\ Total(f, S \ {m}) \in Nat
  <2>1. \A m \in S : Total(f, S) = f[m] + Total(f, S \ {m})
    BY <1>1, TotalTake
  <2>2. \A m \in S : S \ {m} \in SUBSET S
    OBVIOUS
  <2> QED BY <1>3, <2>1, <2>2
<1>6. ASSUME NEW m \in S PROVE Service!Total(S) = Service!Total(S \ {m}) + m.done
  <2> DEFINE a == Total(f, S \ {m})
             b == m.done
  <2>1. Total(f, S) = b + a /\ a \in Nat /\ b \in Nat
    BY <1>1, <1>5
  <2>2. Service!Total(S \ {m}) = a /\ Service!Total(S) = Total(f, S)
    BY <1>2
  <2> HIDE DEF a, b
  <2>3. Service!Total(S) = Service!Total(S \ {m}) + b
    BY <2>1, <2>2
  <2> QED BY <2>3 DEF b
<1> QED BY <1>2, <1>3, <1>4, <1>6

LEMMA DemandOf ==
    /\ Service!Demanded({}) = 0
    /\ \A m : m.demand \in Nat => Service!Demanded({m}) = m.demand
<1>1. Service!Demanded({}) = 0
  <2>1. Service!Demanded({}) = Total([m \in {} |-> 0], {})
    BY ServiceSum, FS_EmptySet
  <2>2. Total([m \in {} |-> 0], {}) = 0
    BY TotalTake, FS_EmptySet
  <2> QED BY <2>1, <2>2
<1>2. ASSUME NEW m, m.demand \in Nat PROVE Service!Demanded({m}) = m.demand
  <2> PICK f : f = [x \in {m} |-> x.demand]
    OBVIOUS
  <2>1. IsFiniteSet({m}) /\ \A x \in {m} : f[x] = x.demand /\ f[x] \in Nat
    BY <1>2, FS_Singleton
  <2>2. Service!Demanded({m}) = Total(f, {m})
    BY <2>1, ServiceSum
  <2>3. Total(f, {m}) = f[m] + Total(f, {m} \ {m}) /\ Total(f, {}) = 0
    BY <2>1, TotalTake
  <2>4. {m} \ {m} = {}
    OBVIOUS
  <2> QED BY <1>2, <2>1, <2>2, <2>3, <2>4
<1> QED BY <1>1, <1>2

(* What is planned of a line and done, with at most one draft.             *)
LEMMA AssignedIs ==
    ASSUME NEW l \in Peers, NEW mvs, MovesFine(mvs)
    PROVE  /\ Service!Done(l, mvs) \in Nat /\ Service!Assigned(l, mvs) \in Nat
           /\ Service!Of(l, "draft", mvs) = {} => Service!Assigned(l, mvs) = Service!Done(l, mvs)
           /\ \A d \in mvs : d.state = "draft" /\ d.line = l =>
                 /\ Service!Of(l, "draft", mvs) = {d}
                 /\ Service!Assigned(l, mvs) = d.demand + Service!Done(l, mvs)
<1> DEFINE D == Service!Of(l, "draft", mvs)
           n == Service!Done(l, mvs)
           a == Service!Assigned(l, mvs)
<1>1. n \in Nat
  <2> DEFINE S == Service!Of(l, "done", mvs)
  <2>1. IsFiniteSet(S) /\ \A m \in S : m.done \in Nat
    BY FS_Subset DEF Service!Of, MovesFine, ServiceMoves
  <2> HIDE DEF S
  <2>2. Service!Total(S) \in Nat
    BY <2>1, DoneParts
  <2> QED BY <2>2 DEF S, Service!Done
<1>2. a = Service!Demanded(D) + n
  BY DEF Service!Assigned
<1>3. \A d \in mvs : d.state = "draft" /\ d.line = l => D = {d} /\ d.demand \in Nat
  BY DEF Service!Of, MovesFine, ServiceMoves
<1>4. D # {} => \E d \in mvs : d.state = "draft" /\ d.line = l
  BY DEF Service!Of
<1> HIDE DEF D, n, a
<1>5. D = {} => a = n
  BY <1>1, <1>2, DemandOf
<1>6. \A d \in mvs : d.state = "draft" /\ d.line = l => D = {d} /\ a = d.demand + n /\ d.demand \in Nat
  BY <1>2, <1>3, DemandOf
<1>7. a \in Nat
  BY <1>1, <1>4, <1>5, <1>6
<1> QED BY <1>1, <1>5, <1>6, <1>7 DEF D, n, a

LEMMA GreatestNumber ==
    ASSUME NEW S, IsFiniteSet(S), S # {}, S \subseteq Nat
    PROVE  Service!Max(S) \in S /\ \A x \in S : Service!Max(S) >= x
<1> DEFINE C == {T \in SUBSET S : T # {} /\ \A x \in T : \E y \in T : ~(x >= y)}
<1>1. C = {}
  <2> SUFFICES ASSUME C # {} PROVE FALSE
    OBVIOUS
  <2>1. PICK T \in C : \A U \in C : U \subseteq T => U = T
    <3>1. C \in SUBSET SUBSET S /\ C # {} /\ IsFiniteSet(S)
      OBVIOUS
    <3> HIDE DEF C
    <3> QED BY ONLY <3>1, SmallestPart
  <2>2. T \in SUBSET S /\ T # {} /\ \A x \in T : \E y \in T : ~(x >= y)
    OBVIOUS
  <2>3. PICK x \in T : TRUE
    BY <2>2
  <2>4. T \ {x} \notin C
    <3> HIDE DEF C
    <3>1. T \ {x} \subseteq T /\ T \ {x} # T
      BY <2>3
    <3> QED BY <2>1, <3>1
  <2>5. PICK y \in T : ~(x >= y)
    BY <2>2
  <2>6. T \ {x} # {}
    BY <2>2, <2>3, <2>5
  <2>7. PICK z \in (T \ {x}) : \A w \in (T \ {x}) : z >= w
    BY <2>2, <2>4, <2>6
  <2>8. PICK w \in T : ~(z >= w)
    BY <2>2, <2>7
  <2>9. z \in Nat /\ w \in Nat /\ x \in Nat /\ y \in Nat /\ y # x
    BY <2>2, <2>3, <2>5, <2>7, <2>8
  <2> HIDE DEF C
  <2>10. z >= y /\ w = x
    BY <2>5, <2>7, <2>8, <2>9
  <2> QED BY <2>5, <2>8, <2>9, <2>10
<1>2. \E x \in S : \A y \in S : x >= y
  BY <1>1
<1> QED BY <1>2 DEF Service!Max

LEMMA GreaterOf ==
    ASSUME NEW a \in Nat, NEW b \in Nat
    PROVE  /\ Service!Max({a, b}) \in Nat
           /\ a =< Service!Max({a, b}) /\ b =< Service!Max({a, b})
BY DEF Service!Max

(* A transfer of its own for the drafts of mvs, and for those that may be  *)
(* made.                                                                   *)
ForDrafts(p, mvs) == p \in Nat /\ \A m \in mvs : m.picking = p <=> m.state = "draft"

NewMove(l, p, mvs) ==
    [picking |-> p, line |-> l, state |-> "draft", done |-> 0, demand |-> qty[l] - Service!Assigned(l, mvs)]

LEMMA ImageOf ==
    ASSUME NEW S, IsFiniteSet(S), NEW f
    PROVE  IsFiniteSet({f[x] : x \in S})
<1> DEFINE T == {f[x] : x \in S}
           g == [x \in S |-> f[x]]
<1>1. g \in Surjection(S, T)
  BY DEF Surjection
<1> HIDE DEF g, T
<1>2. IsFiniteSet(T)
  BY <1>1, FS_Surjection
<1> QED BY <1>2 DEF T

LEMMA ServiceFacts == IsFiniteSet(Peers) /\ MaxQty \in Nat
<1>1. Service!IsFiniteSet(Peers) /\ MaxQty \in Nat
  BY ServicesGiven DEF Service!ServiceTransfersAssumption
<1> QED BY <1>1 DEF Service!IsFiniteSet, IsFiniteSet

CanMake(S, p, mvs) ==
    /\ qty \in [Peers -> Nat] /\ MovesFine(mvs) /\ ForDrafts(p, mvs) /\ S \in SUBSET Peers
    /\ \A l \in S : Service!Of(l, "draft", mvs) = {} /\ Service!Assigned(l, mvs) < qty[l]

(* Moves made for what lines lack that have no draft.                      *)
LEMMA MadeMovesFine ==
    ASSUME NEW mvs, NEW p, NEW S, CanMake(S, p, mvs)
    PROVE  LET all == mvs \cup Service!NewMoves(S, p, mvs)
           IN  /\ MovesFine(all)
               /\ \A l \in Peers :
                     /\ Service!Of(l, "done", all) = Service!Of(l, "done", mvs)
                     /\ Service!Done(l, all) = Service!Done(l, mvs)
                     /\ Service!Assigned(l, all) = IF l \in S THEN qty[l] ELSE Service!Assigned(l, mvs)
<1> USE DEF CanMake
<1> DEFINE new == Service!NewMoves(S, p, mvs)
           all == mvs \cup new
<1>1. new = {NewMove(l, p, mvs) : l \in S}
  BY DEF Service!NewMoves, NewMove
<1>2. ASSUME NEW l \in S
      PROVE  /\ NewMove(l, p, mvs) \in ServiceMoves
             /\ NewMove(l, p, mvs).picking = p /\ NewMove(l, p, mvs).line = l
             /\ NewMove(l, p, mvs).state = "draft" /\ NewMove(l, p, mvs).demand > 0
             /\ NewMove(l, p, mvs).demand + Service!Done(l, mvs) = qty[l]
  <2> DEFINE a == Service!Assigned(l, mvs)
             d == qty[l] - a
             n == Service!Done(l, mvs)
  <2>1. a \in Nat /\ a < qty[l] /\ qty[l] \in Nat /\ a = n
    BY AssignedIs
  <2> HIDE DEF a, n
  <2>2. d \in Nat /\ d > 0 /\ d + n = qty[l]
    BY <2>1
  <2>3. NewMove(l, p, mvs) = [picking |-> p, line |-> l, state |-> "draft", done |-> 0, demand |-> d]
    BY DEF NewMove, a
  <2> HIDE DEF d
  <2> QED BY <2>2, <2>3 DEF ServiceMoves, ForDrafts, n
<1>3. IsFiniteSet(new)
  <2> PICK f : f = [l \in S |-> NewMove(l, p, mvs)]
    OBVIOUS
  <2>1. new = {f[l] : l \in S}
    BY <1>1
  <2>2. IsFiniteSet(S)
    BY ServiceFacts, FS_Subset
  <2> HIDE DEF new
  <2> QED BY <2>1, <2>2, ImageOf
<1>4. /\ \A m \in new : /\ m \in ServiceMoves /\ m.picking = p /\ m.state = "draft" /\ m.demand > 0
                        /\ m.line \in S
      /\ \A m, n \in new : m.line = n.line => m = n
  BY <1>1, <1>2
<1> HIDE DEF new
<1>5. \A m \in mvs : m.state = "draft" => m.line \notin S
  BY DEF Service!Of
<1>6. MovesFine(all)
  <2>1. IsFiniteSet(all)
    BY <1>3, FS_Union DEF MovesFine
  <2>2. \A m, n \in all :
           m.state = "draft" /\ n.state = "draft" => m.picking = n.picking /\ (m.line = n.line => m = n)
    BY <1>4, <1>5 DEF MovesFine, ForDrafts
  <2>3. \A m, n \in all : m.state = "draft" /\ n.picking = m.picking => n.state = "draft"
    BY <1>4 DEF ForDrafts
  <2> QED BY <1>4, <2>1, <2>2, <2>3 DEF MovesFine
<1>7. ASSUME NEW l \in Peers
      PROVE  /\ Service!Of(l, "done", all) = Service!Of(l, "done", mvs)
             /\ Service!Done(l, all) = Service!Done(l, mvs)
             /\ Service!Assigned(l, all) = IF l \in S THEN qty[l] ELSE Service!Assigned(l, mvs)
  <2>1. Service!Of(l, "done", all) = Service!Of(l, "done", mvs)
    BY <1>4 DEF Service!Of
  <2>2. Service!Done(l, all) = Service!Done(l, mvs)
    BY <2>1 DEF Service!Done
  <2>3. CASE l \in S
    <3>1. NewMove(l, p, mvs) \in all
      BY <1>1, <2>3
    <3>2. Service!Assigned(l, all) = NewMove(l, p, mvs).demand + Service!Done(l, all)
      BY <1>2, <1>6, <2>3, <3>1, AssignedIs
    <3> QED BY <1>2, <2>1, <2>2, <2>3, <3>2
  <2>4. CASE l \notin S
    <3>1. Service!Of(l, "draft", all) = Service!Of(l, "draft", mvs)
      BY <1>4, <2>4 DEF Service!Of
    <3> QED BY <2>1, <2>2, <2>4, <3>1 DEF Service!Assigned
  <2> QED BY <2>1, <2>2, <2>3, <2>4
<1> QED BY <1>6, <1>7 DEF new

(* Fewer moves.                                                            *)
LEMMA FewerMoves ==
    ASSUME NEW l \in Peers, NEW mvs, MovesFine(mvs), NEW new, MovesFine(new),
           Service!Of(l, "draft", new) \subseteq Service!Of(l, "draft", mvs),
           Service!Of(l, "done", new) \subseteq Service!Of(l, "done", mvs)
    PROVE  Service!Assigned(l, new) =< Service!Assigned(l, mvs)
<1> DEFINE a == Service!Assigned(l, new)
           b == Service!Assigned(l, mvs)
           m == Service!Done(l, new)
           n == Service!Done(l, mvs)
<1>1. m =< n /\ m \in Nat /\ n \in Nat
  <2> DEFINE S == Service!Of(l, "done", mvs)
             T == Service!Of(l, "done", new)
  <2>1. IsFiniteSet(S) /\ \A x \in S : x.done \in Nat
    BY FS_Subset DEF Service!Of, MovesFine, ServiceMoves
  <2> HIDE DEF S, T
  <2>2. T \in SUBSET S
    BY DEF S, T
  <2>3. Service!Total(T) =< Service!Total(S)
    BY <2>1, <2>2, DoneParts
  <2> QED BY <2>3, AssignedIs DEF S, T, Service!Done
<1>2. a \in Nat /\ b \in Nat
  BY AssignedIs
<1>3. Service!Of(l, "draft", new) = {} => a = m
  BY AssignedIs
<1>4. b >= n
  <2>1. CASE Service!Of(l, "draft", mvs) = {}
    BY <1>1, <2>1, AssignedIs
  <2>2. ASSUME NEW d \in Service!Of(l, "draft", mvs) PROVE b >= n
    <3>1. d \in mvs /\ d.state = "draft" /\ d.line = l /\ d.demand \in Nat
      BY DEF Service!Of, MovesFine, ServiceMoves
    <3>2. b = d.demand + n
      BY <3>1, AssignedIs
    <3> HIDE DEF b, n
    <3> QED BY <1>1, <3>1, <3>2
  <2> QED BY <2>1, <2>2
<1>5. CASE Service!Of(l, "draft", new) = {}
  <2> HIDE DEF a, b, m, n
  <2>1. a =< b
    BY <1>1, <1>2, <1>3, <1>4, <1>5
  <2> QED BY <2>1 DEF a, b
<1>6. ASSUME NEW d \in Service!Of(l, "draft", new) PROVE a =< b
  <2>1. d \in new /\ d \in mvs /\ d.state = "draft" /\ d.line = l /\ d.demand \in Nat
    BY DEF Service!Of, MovesFine, ServiceMoves
  <2>2. a = d.demand + m /\ b = d.demand + n
    BY <2>1, AssignedIs
  <2> HIDE DEF a, b, m, n
  <2> QED BY <1>1, <2>1, <2>2
<1> QED BY <1>5, <1>6

LEMMA DraftTransfers ==
    ASSUME ServiceInv
    PROVE  /\ \A p \in Service!Drafts : ForDrafts(p, moves)
           /\ \A m \in moves : m.state = "draft" => m.picking \in Service!Drafts
           /\ IsFiniteSet(Service!Pickings) /\ Service!Pickings \subseteq Nat
           /\ \A m \in moves : m.picking \in Service!Pickings
<1>1. \A p \in Service!Drafts : \E m \in moves : m.picking = p /\ m.state = "draft"
  BY DEF Service!Drafts, Service!StateOf, Service!In
<1>2. \A m \in moves : m.state = "draft" => m.picking \in Service!Drafts
  BY DEF Service!Drafts, Service!StateOf, Service!In, Service!Pickings
<1>3. \A p \in Service!Drafts : ForDrafts(p, moves)
  BY <1>1 DEF ForDrafts, ServiceInv, MovesFine, ServiceMoves
<1>4. IsFiniteSet(Service!Pickings)
  <2> PICK f : f = [m \in moves |-> m.picking]
    OBVIOUS
  <2>1. Service!Pickings = {f[m] : m \in moves}
    BY DEF Service!Pickings
  <2>2. IsFiniteSet({f[m] : m \in moves})
    BY ImageOf DEF ServiceInv, MovesFine
  <2> QED BY <2>1, <2>2
<1> QED BY <1>2, <1>3, <1>4 DEF Service!Pickings, ServiceInv, MovesFine, ServiceMoves

LEMMA NewTransfer ==
    ASSUME ServiceInv
    PROVE  /\ LET p == Service!Max(Service!Pickings \cup {0}) + 1
              IN  p \in Nat /\ \A m \in moves : m.picking # p
           /\ Service!Pickings # {} =>
              LET p == Service!Max(Service!Pickings) + 1
              IN  p \in Nat /\ \A m \in moves : m.picking # p
<1> DEFINE S == Service!Pickings
           T == Service!Pickings \cup {0}
<1>1. IsFiniteSet(S) /\ S \subseteq Nat /\ \A m \in moves : m.picking \in S
  BY DraftTransfers
<1>2. IsFiniteSet(T) /\ T \subseteq Nat /\ T # {} /\ S \subseteq T
  BY <1>1, FS_AddElement
<1> HIDE DEF S, T
<1>3. Service!Max(T) \in T /\ \A x \in T : Service!Max(T) >= x
  BY <1>2, GreatestNumber
<1>4. S # {} => Service!Max(S) \in S /\ \A x \in S : Service!Max(S) >= x
  BY <1>1, GreatestNumber
<1>5. Service!Max(T) + 1 \in Nat /\ \A x \in T : x # Service!Max(T) + 1
  <2> PICK t : t = Service!Max(T)
    OBVIOUS
  <2>1. t \in Nat /\ \A x \in T : x \in Nat /\ t >= x
    BY <1>2, <1>3
  <2>2. t + 1 \in Nat /\ \A x \in T : x # t + 1
    BY ONLY <2>1
  <2> QED BY <2>2
<1>6. S # {} => Service!Max(S) + 1 \in Nat /\ \A x \in S : x # Service!Max(S) + 1
  <2> PICK t : t = Service!Max(S)
    OBVIOUS
  <2> SUFFICES ASSUME S # {} PROVE t + 1 \in Nat /\ \A x \in S : x # t + 1
    OBVIOUS
  <2>1. t \in Nat /\ \A x \in S : x \in Nat /\ t >= x
    BY <1>1, <1>4
  <2> QED BY ONLY <2>1
<1> QED BY <1>1, <1>2, <1>5, <1>6 DEF S, T

LEMMA ServiceConfirms ==
    ASSUME ServiceInv, Service!Confirm
    PROVE  ServiceInv'
<1> DEFINE p == IF Service!Drafts # {} THEN Service!Max(Service!Drafts)
                ELSE Service!Max(Service!Pickings \cup {0}) + 1
           bare == {l \in Service!Lacking(moves) : Service!Of(l, "draft", moves) = {}}
<1>1. ForDrafts(p, moves)
  <2>1. CASE Service!Drafts # {}
    <3>1. Service!Drafts \in SUBSET Service!Pickings
      BY DEF Service!Drafts
    <3>2. IsFiniteSet(Service!Drafts) /\ Service!Drafts \subseteq Nat
      BY <3>1, DraftTransfers, FS_Subset
    <3>3. Service!Max(Service!Drafts) \in Service!Drafts
      BY <2>1, <3>2, GreatestNumber
    <3> QED BY <2>1, <3>3, DraftTransfers
  <2>2. CASE Service!Drafts = {}
    <3>1. p \in Nat /\ \A m \in moves : m.picking # p
      BY <2>2, NewTransfer
    <3>2. \A m \in moves : m.state # "draft"
      BY <2>2, DraftTransfers
    <3> HIDE DEF p
    <3> QED BY <3>1, <3>2 DEF ForDrafts
  <2> QED BY <2>1, <2>2
<1>2. /\ moves' = Service!Placed(Service!Lacking(moves), p) \cup Service!NewMoves(bare, p, moves)
      /\ sale \in {"draft", "sale"} /\ sale' = "sale"
      /\ uncovered' = uncovered \ {l \in Peers : Service!Of(l, "draft", moves) = {}}
      /\ UNCHANGED <<qty, delivered, dropped, peak, edits>>
  BY DEF Service!Confirm
<1> HIDE DEF p
<1>3. Service!Placed(Service!Lacking(moves), p) = moves
  <2>1. \A m \in moves : m.state = "draft" => [m EXCEPT !.picking = p] = m
    BY <1>1 DEF ForDrafts, ServiceInv, MovesFine, ServiceMoves
  <2> QED BY <2>1 DEF Service!Placed
<1>4. /\ bare \in SUBSET Peers
      /\ \A l \in bare : Service!Of(l, "draft", moves) = {} /\ Service!Assigned(l, moves) < qty[l]
      /\ \A l \in Peers \ bare : Service!Of(l, "draft", moves) = {} => ~(Service!Assigned(l, moves) < qty[l])
  BY DEF Service!Lacking
<1> HIDE DEF bare
<1>5. /\ MovesFine(moves')
      /\ \A l \in Peers :
            /\ Service!Done(l, moves') = Service!Done(l, moves)
            /\ Service!Assigned(l, moves') = IF l \in bare THEN qty[l] ELSE Service!Assigned(l, moves)
  <2> DEFINE all == moves \cup Service!NewMoves(bare, p, moves)
  <2>1. CanMake(bare, p, moves)
    BY <1>1, <1>4 DEF ServiceInv, CanMake
  <2>2. /\ MovesFine(all)
        /\ \A l \in Peers :
              /\ Service!Done(l, all) = Service!Done(l, moves)
              /\ Service!Assigned(l, all) = IF l \in bare THEN qty[l] ELSE Service!Assigned(l, moves)
    BY ONLY <2>1, MadeMovesFine
  <2>3. moves' = all
    BY <1>2, <1>3
  <2> QED BY <2>2, <2>3
<1>6. Service!DeliveredIsDone'
  BY <1>2, <1>5 DEF ServiceInv, Service!DeliveredIsDone
<1>7. Service!NothingTwice'
  BY <1>2, <1>5 DEF ServiceInv, Service!NothingTwice
<1>8. ASSUME NEW l \in Peers \ uncovered' PROVE Service!Assigned(l, moves') >= qty[l]
  <2>1. qty[l] \in Nat /\ Service!Assigned(l, moves) \in Nat
    BY AssignedIs DEF ServiceInv
  <2>2. CASE l \in bare
    BY <1>5, <2>1, <2>2
  <2>3. CASE l \notin bare /\ Service!Of(l, "draft", moves) = {}
    BY <1>4, <1>5, <2>1, <2>3
  <2>4. CASE l \notin bare /\ Service!Of(l, "draft", moves) # {}
    <3>1. l \notin uncovered
      BY <1>2, <2>4
    <3>2. sale = "sale"
      BY <1>2, <2>4 DEF ServiceInv, Service!Of
    <3>3. Service!Assigned(l, moves) >= qty[l]
      BY <3>1, <3>2 DEF ServiceInv, Service!NothingLeftOut
    <3> QED BY <1>5, <2>4, <3>3
  <2> QED BY <2>2, <2>3, <2>4
<1>9. Service!NothingLeftOut'
  BY <1>2, <1>8 DEF Service!NothingLeftOut
<1> QED BY <1>2, <1>5, <1>6, <1>7, <1>9 DEF ServiceInv

(* What validation makes of a draft, n of it done.                         *)
EndedMove(d, n) ==
    [picking |-> d.picking, line |-> d.line, demand |-> d.demand, done |-> n,
     state |-> IF n = 0 THEN "cancel" ELSE "done"]

EndedWith(p, f) == Service!Ended(p, Service!Typed(p, f))

LEMMA EndedIs ==
    ASSUME ServiceInv, NEW p \in Service!Drafts, NEW f
    PROVE  EndedWith(p, f)
             = {IF m.state = "draft" THEN EndedMove(m, f[m.line]) ELSE m : m \in moves}
<1> DEFINE typed(m) == IF m.state = "draft" THEN [m EXCEPT !.done = f[m.line]] ELSE m
           ended(m) == IF m.picking = p /\ m.state = "draft"
                       THEN [m EXCEPT !.state = IF m.done = 0 THEN "cancel" ELSE "done"] ELSE m
           both(m) == IF m.state = "draft" THEN EndedMove(m, f[m.line]) ELSE m
<1>1. \A m \in moves : m \in ServiceMoves /\ (m.picking = p <=> m.state = "draft")
  BY DraftTransfers DEF ForDrafts, ServiceInv, MovesFine
<1>2. Service!Typed(p, f) = {typed(m) : m \in moves}
  BY <1>1 DEF Service!Typed
<1>3. ASSUME NEW m \in moves PROVE ended(typed(m)) = both(m)
  <2>1. CASE m.state = "draft"
    <3> DEFINE n == f[m.line]
               t == [m EXCEPT !.done = n]
               state == IF n = 0 THEN "cancel" ELSE "done"
    <3>1. m = [picking |-> p, line |-> m.line, demand |-> m.demand, done |-> m.done, state |-> "draft"]
      BY <1>1, <2>1 DEF ServiceMoves
    <3> HIDE DEF n
    <3>2. t = [picking |-> p, line |-> m.line, demand |-> m.demand, done |-> n, state |-> "draft"]
      BY <3>1
    <3>3. typed(m) = t
      BY <2>1 DEF n
    <3> HIDE DEF t
    <3>4. t.done = n /\ t.picking = p /\ t.state = "draft"
      BY <3>2
    <3>5. ended(t) = [t EXCEPT !.state = state]
      BY <3>4
    <3> HIDE DEF state
    <3>6. [t EXCEPT !.state = state]
             = [picking |-> p, line |-> m.line, demand |-> m.demand, done |-> n, state |-> state]
      BY <3>2
    <3>7. both(m) = [picking |-> p, line |-> m.line, demand |-> m.demand, done |-> n, state |-> state]
      BY <1>1, <2>1 DEF EndedMove, n, state
    <3> HIDE DEF ended, typed, both
    <3> QED BY <3>3, <3>5, <3>6, <3>7
  <2>2. CASE m.state # "draft"
    BY <2>2
  <2> QED BY <2>1, <2>2
<1>4. EndedWith(p, f) = {ended(t) : t \in Service!Typed(p, f)}
  BY DEF EndedWith, Service!Ended
<1> HIDE DEF ended, typed, both
<1>5. EndedWith(p, f) = {both(m) : m \in moves}
  BY <1>2, <1>3, <1>4
<1> QED BY <1>5 DEF both

LEMMA EndedFine ==
    ASSUME ServiceInv, NEW p \in Service!Drafts, NEW f, \A l \in Service!LinesOf(p) : f[l] \in Nat
    PROVE  LET all == EndedWith(p, f)
           IN  /\ MovesFine(all)
               /\ \A m \in all : m.state # "draft" /\ \E n \in moves : n.picking = m.picking
<1> DEFINE both(m) == IF m.state = "draft" THEN EndedMove(m, f[m.line]) ELSE m
           all == EndedWith(p, f)
<1>1. all = {both(m) : m \in moves}
  BY EndedIs
<1>2. \A m \in moves : m \in ServiceMoves /\ (m.state = "draft" => f[m.line] \in Nat)
  BY DraftTransfers DEF ForDrafts, ServiceInv, MovesFine, Service!LinesOf, Service!In
<1>3. ASSUME NEW m \in moves
      PROVE  both(m) \in ServiceMoves /\ both(m).state # "draft" /\ both(m).picking = m.picking
  <2>1. CASE m.state = "draft"
    <3> DEFINE n == f[m.line]
    <3>1. n \in Nat /\ both(m) = EndedMove(m, n)
      BY <1>2, <2>1
    <3> HIDE DEF n, both
    <3>2. EndedMove(m, n) \in ServiceMoves /\ EndedMove(m, n).state # "draft" /\ EndedMove(m, n).picking = m.picking
      BY <1>2, <3>1 DEF EndedMove, ServiceMoves
    <3> QED BY <3>1, <3>2
  <2>2. CASE m.state # "draft"
    BY <1>2, <2>2
  <2> QED BY <2>1, <2>2
<1>4. IsFiniteSet(all)
  <2> PICK g : g = [m \in moves |-> both(m)]
    OBVIOUS
  <2> HIDE DEF both, all
  <2>1. all = {g[m] : m \in moves}
    BY <1>1
  <2>2. IsFiniteSet({g[m] : m \in moves})
    BY ImageOf DEF ServiceInv, MovesFine
  <2> QED BY <2>1, <2>2
<1> HIDE DEF both, all
<1>5. MovesFine(all) /\ \A m \in all : m.state # "draft" /\ \E n \in moves : n.picking = m.picking
  BY <1>1, <1>3, <1>4 DEF MovesFine
<1> QED BY <1>5 DEF all

(* What is done of each line then.                                         *)
LEMMA EndedDone ==
    ASSUME ServiceInv, NEW p \in Service!Drafts, NEW f, \A l \in Service!LinesOf(p) : f[l] \in Nat,
           NEW l \in Peers
    PROVE  LET all == EndedWith(p, f)
           IN  /\ l \notin Service!LinesOf(p) =>
                     /\ Service!Of(l, "draft", moves) = {}
                     /\ Service!Done(l, all) = Service!Done(l, moves)
               /\ l \in Service!LinesOf(p) =>
                     \E d \in moves :
                        /\ d.picking = p /\ d.state = "draft" /\ d.line = l
                        /\ Service!Done(l, all) = Service!Done(l, moves) + f[l]
<1> DEFINE all == EndedWith(p, f)
           both(m) == IF m.state = "draft" THEN EndedMove(m, f[m.line]) ELSE m
<1>1. all = {both(m) : m \in moves}
  BY EndedIs
<1>2. \A m \in moves : m.picking = p <=> m.state = "draft"
  BY DraftTransfers DEF ForDrafts
<1>3. CASE l \notin Service!LinesOf(p)
  <2>1. \A m \in moves : m.state = "draft" => m.line # l
    BY <1>2, <1>3 DEF Service!LinesOf, Service!In
  <2>2. \A m \in moves : m.state = "draft" => both(m).line # l
    BY <2>1 DEF EndedMove
  <2>3. \A m \in moves : m.state # "draft" => both(m) = m
    OBVIOUS
  <2> HIDE DEF both, all
  <2>4. Service!Of(l, "done", all) = Service!Of(l, "done", moves)
    BY <1>1, <2>2, <2>3 DEF Service!Of
  <2>5. Service!Done(l, all) = Service!Done(l, moves) /\ Service!Of(l, "draft", moves) = {}
    BY <2>1, <2>4 DEF Service!Done, Service!Of
  <2> QED BY <1>3, <2>5 DEF all
<1>4. CASE l \in Service!LinesOf(p)
  <2>1. PICK d \in moves : d.picking = p /\ d.state = "draft" /\ d.line = l
    BY <1>2, <1>4 DEF Service!LinesOf, Service!In
  <2> DEFINE n == f[l]
             e == EndedMove(d, n)
             S == Service!Of(l, "done", all)
             T == Service!Of(l, "done", moves)
  <2>2. n \in Nat
    BY <1>4
  <2>3. \A m \in moves : m.state = "draft" /\ m.line = l => m = d
    BY <2>1 DEF ServiceInv, MovesFine
  <2>4. both(d) = e /\ \A m \in moves : m.state # "draft" => both(m) = m
    BY <2>1
  <2>5. \A m \in moves : m.state = "draft" /\ m # d => both(m).line # l
    BY <2>3 DEF EndedMove
  <2>6. e.picking = p /\ e.line = l /\ e.done = n /\ e.state = (IF n = 0 THEN "cancel" ELSE "done")
    BY <2>1 DEF EndedMove
  <2> HIDE DEF both, e, n, all
  <2>7. e \notin moves
    BY <1>2, <2>6
  <2>8. S = IF n = 0 THEN T ELSE T \cup {e}
    BY <1>1, <2>1, <2>4, <2>5, <2>6 DEF Service!Of
  <2>9. MovesFine(all)
    BY EndedFine DEF all
  <2>10. IsFiniteSet(S) /\ \A m \in S : m.done \in Nat
    BY <2>9, FS_Subset DEF Service!Of, MovesFine, ServiceMoves
  <2>11. e \notin T
    BY <2>7 DEF Service!Of
  <2> HIDE DEF S, T
  <2>12. Service!Total(T) \in Nat /\ Service!Total(S) = Service!Total(T) + n
    <3>1. CASE n = 0
      <4>1. S = T
        BY <2>8, <3>1
      <4>2. Service!Total(S) \in Nat
        BY <2>10, DoneParts
      <4> QED BY <3>1, <4>1, <4>2
    <3>2. CASE n # 0
      <4>1. e \in S /\ S \ {e} = T /\ T \in SUBSET S
        BY <2>8, <2>11, <3>2
      <4>2. Service!Total(S) = Service!Total(S \ {e}) + e.done /\ Service!Total(T) \in Nat
        BY <2>10, <4>1, DoneParts
      <4> QED BY <2>6, <4>1, <4>2
    <3> QED BY <3>1, <3>2
  <2>13. Service!Done(l, all) = Service!Done(l, moves) + n
    BY <2>12 DEF Service!Done, S, T
  <2> QED BY <1>4, <2>1, <2>13 DEF n, all
<1> QED BY <1>3, <1>4

(* What any end of a transfer does but for the moves it makes.             *)
LEMMA ServiceCloses ==
    ASSUME ServiceInv, NEW p \in Service!Drafts, NEW f, \A l \in Service!LinesOf(p) : f[l] \in Nat,
           NEW more, Service!Close(p, EndedWith(p, f), more)
    PROVE  /\ sale \in {"sale", "done"} /\ sale' \in {"sale", "done"}
           /\ moves' = EndedWith(p, f) \cup more /\ qty' = qty
           /\ delivered' \in [Peers -> Nat] /\ peak' \in [Peers -> Nat]
           /\ \A l \in Peers : /\ qty[l] =< peak'[l] /\ peak[l] =< peak'[l]
                               /\ Service!Done(l, EndedWith(p, f)) =< peak'[l]
                               /\ l \notin dropped' => delivered'[l] = Service!Done(l, EndedWith(p, f))
<1> DEFINE E == EndedWith(p, f)
           done(l) == Service!Done(l, E)
           dlv == Service!Recounted(Service!LinesOf(p), E)
<1>1. /\ delivered' = dlv
      /\ sale' = IF Service!Shipped(dlv) THEN "done" ELSE sale
      /\ moves' = E \cup more
      /\ dropped' = dropped \ Service!LinesOf(p)
      /\ peak' = [l \in Peers |-> Service!Max({peak[l], done(l)})]
      /\ UNCHANGED <<qty, edits>>
  BY DEF Service!Close
<1>2. dlv = [l \in Peers |-> IF l \in Service!LinesOf(p) THEN done(l) ELSE delivered[l]]
  BY DEF Service!Recounted
<1>3. MovesFine(E)
  BY EndedFine
<1>4. \A l \in Peers : l \notin Service!LinesOf(p) => done(l) = Service!Done(l, moves)
  BY EndedDone
<1> HIDE DEF E
<1>5. \A l \in Peers : done(l) \in Nat
  BY <1>3, AssignedIs
<1> HIDE DEF done
<1>6. sale \in {"sale", "done"}
  BY DEF ServiceInv, Service!Drafts, Service!StateOf, Service!In
<1>7. /\ peak' \in [Peers -> Nat]
      /\ \A l \in Peers : peak[l] =< peak'[l] /\ done(l) =< peak'[l] /\ qty[l] =< peak'[l]
  <2>1. \A l \in Peers : peak[l] \in Nat /\ qty[l] \in Nat /\ qty[l] =< peak[l]
    BY DEF ServiceInv
  <2>2. ASSUME NEW l \in Peers
        PROVE  peak'[l] \in Nat /\ peak[l] =< peak'[l] /\ done(l) =< peak'[l] /\ qty[l] =< peak'[l]
    <3> PICK a, b, c, q : a = peak[l] /\ b = done(l) /\ c = peak'[l] /\ q = qty[l]
      OBVIOUS
    <3>1. a \in Nat /\ b \in Nat /\ c = Service!Max({a, b})
      BY <1>1, <1>5, <2>1
    <3>2. c \in Nat /\ a =< c /\ b =< c
      BY <3>1, GreaterOf
    <3>3. q \in Nat /\ q =< a
      BY <2>1
    <3>4. q =< c
      BY ONLY <3>1, <3>2, <3>3
    <3> QED BY <3>2, <3>4
  <2> QED BY <1>1, <2>2
<1>8. delivered' \in [Peers -> Nat]
  BY <1>1, <1>2, <1>5 DEF ServiceInv
<1>9. \A l \in Peers : l \notin dropped' => delivered'[l] = done(l)
  BY <1>1, <1>2, <1>4 DEF ServiceInv, Service!DeliveredIsDone
<1> QED BY <1>1, <1>6, <1>7, <1>8, <1>9 DEF E, done

LEMMA ServiceValidates ==
    ASSUME ServiceInv, NEW p \in Service!Drafts, Service!Validate(p)
    PROVE  ServiceInv'
<1>1. PICK f \in [Service!LinesOf(p) -> 0..MaxQty] :
         Service!Close(p, EndedWith(p, f), Service!Successor(EndedWith(p, f))) /\ uncovered' = {}
  BY DEF Service!Validate, EndedWith
<1>2. \A l \in Service!LinesOf(p) : f[l] \in Nat
  BY ServiceFacts
<1> DEFINE E == EndedWith(p, f)
           next == Service!Max(Service!Pickings) + 1
           S == Service!Lacking(E)
<1>3. MovesFine(E) /\ \A m \in E : m.state # "draft" /\ \E n \in moves : n.picking = m.picking
  BY <1>2, EndedFine
<1>4. ForDrafts(next, E)
  <2>1. Service!Pickings # {}
    BY DEF Service!Drafts
  <2>2. next \in Nat /\ \A m \in moves : m.picking # next
    BY <2>1, NewTransfer
  <2> HIDE DEF E, next
  <2> QED BY <1>3, <2>2 DEF ForDrafts
<1>5. /\ sale' \in {"sale", "done"}
      /\ moves' = E \cup Service!Successor(E) /\ qty' = qty
      /\ delivered' \in [Peers -> Nat] /\ peak' \in [Peers -> Nat]
      /\ \A l \in Peers : /\ qty[l] =< peak'[l]
                          /\ Service!Done(l, E) =< peak'[l]
                          /\ l \notin dropped' => delivered'[l] = Service!Done(l, E)
  BY <1>1, <1>2, ServiceCloses
<1>6. Service!Successor(E) = Service!NewMoves(S, next, E)
  BY DEF Service!Successor
<1> HIDE DEF E, next
<1>7. \A l \in Peers : Service!Of(l, "draft", E) = {}
  BY <1>3 DEF Service!Of
<1>8. S \in SUBSET Peers /\ \A l \in Peers : l \in S <=> Service!Assigned(l, E) < qty[l]
  BY DEF Service!Lacking
<1> HIDE DEF S
<1>9. /\ MovesFine(moves')
      /\ \A l \in Peers :
            /\ Service!Done(l, moves') = Service!Done(l, E)
            /\ Service!Assigned(l, moves') = IF l \in S THEN qty[l] ELSE Service!Assigned(l, E)
  <2> DEFINE all == E \cup Service!NewMoves(S, next, E)
  <2>1. CanMake(S, next, E)
    BY <1>3, <1>4, <1>7, <1>8 DEF ServiceInv, CanMake
  <2>2. /\ MovesFine(all)
        /\ \A l \in Peers :
              /\ Service!Done(l, all) = Service!Done(l, E)
              /\ Service!Assigned(l, all) = IF l \in S THEN qty[l] ELSE Service!Assigned(l, E)
    BY ONLY <2>1, MadeMovesFine
  <2>3. moves' = all
    BY <1>5, <1>6
  <2> QED BY <2>2, <2>3
<1>10. ASSUME NEW l \in Peers
       PROVE  Service!Assigned(l, moves') =< peak'[l] /\ Service!Assigned(l, moves') >= qty[l]
  <2>1. Service!Assigned(l, E) = Service!Done(l, E) /\ Service!Done(l, E) \in Nat
    BY <1>3, <1>7, AssignedIs
  <2>2. qty[l] \in Nat /\ peak'[l] \in Nat
    BY <1>5 DEF ServiceInv
  <2>3. CASE l \in S
    BY <1>5, <1>9, <2>2, <2>3
  <2>4. CASE l \notin S
    BY <1>5, <1>8, <1>9, <2>1, <2>2, <2>4
  <2> QED BY <2>3, <2>4
<1>11. Service!DeliveredIsDone' /\ Service!NothingTwice' /\ Service!NothingLeftOut'
  BY <1>5, <1>9, <1>10 DEF Service!DeliveredIsDone, Service!NothingTwice, Service!NothingLeftOut
<1>12. /\ sale' \in {"sale", "done"} /\ qty' \in [Peers -> Nat]
       /\ \A l \in Peers : qty'[l] =< peak'[l]
  BY <1>5 DEF ServiceInv
<1> QED BY <1>5, <1>9, <1>11, <1>12 DEF ServiceInv

LEMMA ServiceProcesses ==
    ASSUME ServiceInv, NEW p \in Service!Drafts, Service!Process(p)
    PROVE  ServiceInv'
<1> DEFINE f == [l \in Service!LinesOf(p) |->
                   Service!Max({m.demand : m \in {n \in Service!In(p) : n.line = l}})]
           E == EndedWith(p, f)
<1>1. Service!Close(p, E, {}) /\ uncovered' = uncovered
  BY DEF Service!Process, EndedWith
<1>2. ASSUME NEW d \in moves, d.picking = p, d.state = "draft"
      PROVE  f[d.line] = d.demand /\ d.demand \in Nat
  <2>1. d.line \in Service!LinesOf(p) /\ d.demand \in Nat
    BY <1>2 DEF Service!LinesOf, Service!In, ServiceInv, MovesFine, ServiceMoves
  <2>2. {n \in Service!In(p) : n.line = d.line} = {d}
    <3>1. \A m \in moves : m.picking = p => m.state = "draft"
      BY DraftTransfers DEF ForDrafts
    <3>2. \A m \in moves : m.picking = p /\ m.line = d.line => m = d
      BY <1>2, <3>1 DEF ServiceInv, MovesFine
    <3> QED BY <1>2, <3>2 DEF Service!In
  <2>3. {m.demand : m \in {n \in Service!In(p) : n.line = d.line}} = {d.demand}
    BY <2>2
  <2>4. Service!Max({d.demand}) = d.demand
    BY <2>1 DEF Service!Max
  <2> QED BY <2>1, <2>3, <2>4
<1>3. \A l \in Service!LinesOf(p) : \E d \in moves : d.picking = p /\ d.state = "draft" /\ d.line = l
  BY DraftTransfers DEF ForDrafts, Service!LinesOf, Service!In
<1> HIDE DEF f
<1>4. \A l \in Service!LinesOf(p) : f[l] \in Nat
  BY <1>2, <1>3
<1>5. MovesFine(E) /\ \A m \in E : m.state # "draft"
  BY <1>4, EndedFine
<1>6. ASSUME NEW l \in Peers PROVE Service!Done(l, E) = Service!Assigned(l, moves)
  <2>1. CASE l \notin Service!LinesOf(p)
    <3>1. Service!Of(l, "draft", moves) = {} /\ Service!Done(l, E) = Service!Done(l, moves)
      BY <1>4, <2>1, EndedDone
    <3> QED BY <3>1, AssignedIs DEF ServiceInv
  <2>2. CASE l \in Service!LinesOf(p)
    <3>1. PICK d \in moves : /\ d.picking = p /\ d.state = "draft" /\ d.line = l
                             /\ Service!Done(l, E) = Service!Done(l, moves) + f[l]
      BY <1>4, <2>2, EndedDone
    <3>2. f[l] = d.demand /\ d.demand \in Nat
      BY <1>2, <3>1
    <3>3. Service!Assigned(l, moves) = d.demand + Service!Done(l, moves) /\ Service!Done(l, moves) \in Nat
      BY <3>1, AssignedIs DEF ServiceInv
    <3> PICK a, b, n : a = d.demand /\ b = Service!Done(l, moves) /\ n = Service!Done(l, E)
      OBVIOUS
    <3>4. n = b + a /\ Service!Assigned(l, moves) = a + b /\ a \in Nat /\ b \in Nat
      BY <3>1, <3>2, <3>3
    <3>5. n = Service!Assigned(l, moves)
      BY ONLY <3>4
    <3> QED BY <3>5
  <2> QED BY <2>1, <2>2
<1>7. /\ sale \in {"sale", "done"} /\ sale' \in {"sale", "done"}
      /\ moves' = E \cup {} /\ qty' = qty
      /\ delivered' \in [Peers -> Nat] /\ peak' \in [Peers -> Nat]
      /\ \A l \in Peers : /\ qty[l] =< peak'[l]
                          /\ Service!Done(l, E) =< peak'[l]
                          /\ l \notin dropped' => delivered'[l] = Service!Done(l, E)
  BY <1>1, <1>4, ServiceCloses
<1> HIDE DEF E
<1>8. \A l \in Peers : Service!Assigned(l, E) = Service!Done(l, E)
  <2>1. \A l \in Peers : Service!Of(l, "draft", E) = {}
    BY <1>5 DEF Service!Of
  <2> QED BY <1>5, <2>1, AssignedIs
<1>9. moves' = E
  BY <1>7
<1>10. Service!DeliveredIsDone' /\ Service!NothingTwice'
  BY <1>7, <1>8, <1>9 DEF Service!DeliveredIsDone, Service!NothingTwice
<1>11. Service!NothingLeftOut'
  BY <1>1, <1>6, <1>7, <1>8, <1>9 DEF ServiceInv, Service!NothingLeftOut
<1>12. /\ sale' \in {"sale", "done"} /\ qty' \in [Peers -> Nat] /\ MovesFine(moves')
       /\ \A l \in Peers : qty'[l] =< peak'[l]
  BY <1>5, <1>7, <1>9 DEF ServiceInv
<1> QED BY <1>7, <1>10, <1>11, <1>12 DEF ServiceInv

(* The moves S are gone, or count for nothing.                             *)
Loses(new, S) ==
    /\ MovesFine(new)
    /\ \A l \in Peers : /\ Service!Of(l, "draft", new) = Service!Of(l, "draft", moves) \ S
                        /\ Service!Of(l, "done", new) = Service!Of(l, "done", moves) \ S

LEMMA ServiceLoses ==
    ASSUME ServiceInv, NEW new, NEW S, Loses(new, S)
    PROVE  \A l \in Peers :
              /\ Service!Assigned(l, new) =< peak[l] /\ Service!Done(l, new) \in Nat
              /\ (\A m \in S : m.line # l) =>
                    /\ Service!Done(l, new) = Service!Done(l, moves)
                    /\ Service!Assigned(l, new) = Service!Assigned(l, moves)
<1> TAKE l \in Peers
<1>1. MovesFine(moves) /\ MovesFine(new)
  BY DEF ServiceInv, Loses
<1>2. Service!Assigned(l, new) =< Service!Assigned(l, moves)
  BY <1>1, FewerMoves DEF Loses
<1>3. Service!Assigned(l, new) \in Nat /\ Service!Assigned(l, moves) \in Nat /\ Service!Done(l, new) \in Nat
  BY <1>1, AssignedIs
<1>4. Service!Assigned(l, moves) =< peak[l] /\ peak[l] \in Nat
  BY DEF ServiceInv, Service!NothingTwice
<1>5. Service!Assigned(l, new) =< peak[l]
  BY <1>2, <1>3, <1>4
<1>6. ASSUME \A m \in S : m.line # l
      PROVE  /\ Service!Done(l, new) = Service!Done(l, moves)
             /\ Service!Assigned(l, new) = Service!Assigned(l, moves)
  <2>1. /\ Service!Of(l, "draft", new) = Service!Of(l, "draft", moves)
        /\ Service!Of(l, "done", new) = Service!Of(l, "done", moves)
    BY <1>6 DEF Loses, Service!Of
  <2> QED BY <2>1 DEF Service!Done, Service!Assigned
<1> QED BY <1>3, <1>5, <1>6

LEMMA CancelledLoses ==
    ASSUME ServiceInv, NEW S \in SUBSET moves,
           \A m \in moves : m.state = "draft" => m \in S \/ \A n \in S : n.picking # m.picking
    PROVE  /\ Loses(Service!Cancelled(S), S)
           /\ \A m \in Service!Cancelled(S) : m.state = "draft" => m \in moves /\ m \notin S
<1> DEFINE it(m) == IF m \in S THEN [m EXCEPT !.state = "cancel"] ELSE m
           new == Service!Cancelled(S)
<1>1. new = {it(m) : m \in moves}
  BY DEF Service!Cancelled
<1>2. MovesFine(moves)
  BY DEF ServiceInv
<1>3. ASSUME NEW m \in S
      PROVE  it(m) \in ServiceMoves /\ it(m).state = "cancel" /\ it(m).picking = m.picking
  BY <1>2 DEF MovesFine, ServiceMoves
<1>4. \A m \in moves \ S : it(m) = m
  OBVIOUS
<1>5. IsFiniteSet(new)
  <2> PICK g : g = [m \in moves |-> it(m)]
    OBVIOUS
  <2> HIDE DEF it, new
  <2>1. new = {g[m] : m \in moves}
    BY <1>1
  <2>2. IsFiniteSet({g[m] : m \in moves})
    BY <1>2, ImageOf DEF MovesFine
  <2> QED BY <2>1, <2>2
<1> HIDE DEF it, new
<1>6. \A x \in new : \/ x \in moves /\ x \notin S
                     \/ x \in ServiceMoves /\ x.state = "cancel" /\ \E n \in S : n.picking = x.picking
  BY <1>1, <1>3, <1>4
<1>7. \A x \in moves \ S : x \in new
  BY <1>1, <1>4
<1>8. MovesFine(new)
  <2>1. new \subseteq ServiceMoves
    BY <1>2, <1>6 DEF MovesFine
  <2>2. \A x \in new : x.state = "draft" => x \in moves /\ x \notin S
    BY <1>6
  <2>3. \A x, y \in new :
           x.state = "draft" /\ y.state = "draft" => x.picking = y.picking /\ (x.line = y.line => x = y)
    BY <1>2, <2>2 DEF MovesFine
  <2>4. \A x, y \in new : x.state = "draft" /\ y.picking = x.picking => y.state = "draft"
    BY <1>2, <1>6, <2>2 DEF MovesFine
  <2>5. \A x \in new : x.state = "draft" => x.demand > 0
    BY <1>2, <2>2 DEF MovesFine
  <2> QED BY <1>5, <2>1, <2>3, <2>4, <2>5 DEF MovesFine
<1>9. ASSUME NEW l \in Peers, NEW state \in {"draft", "done"}
      PROVE  Service!Of(l, state, new) = Service!Of(l, state, moves) \ S
  BY <1>6, <1>7 DEF Service!Of
<1> QED BY <1>6, <1>8, <1>9 DEF Loses, new

LEMMA ServiceCancels ==
    ASSUME ServiceInv, NEW p, Service!Cancel(p)
    PROVE  ServiceInv'
<1> DEFINE S == Service!In(p)
<1>1. /\ moves' = Service!Cancelled(S)
      /\ delivered' = Service!Recounted(Service!LinesOf(p), moves')
      /\ uncovered' = uncovered \cup Service!LinesOf(p)
      /\ dropped' = dropped \ Service!LinesOf(p)
      /\ UNCHANGED <<sale, qty, peak>>
  BY DEF Service!Cancel
<1>2. Loses(moves', S) /\ \A m \in moves' : m.state = "draft" => m \in moves
  <2>1. S \in SUBSET moves
    BY DEF Service!In
  <2>2. \A m \in moves : m.state = "draft" => m \in S \/ \A n \in S : n.picking # m.picking
    BY DEF Service!In
  <2> HIDE DEF S
  <2>3. /\ Loses(Service!Cancelled(S), S)
        /\ \A m \in Service!Cancelled(S) : m.state = "draft" => m \in moves /\ m \notin S
    BY <2>1, <2>2, CancelledLoses
  <2> QED BY <1>1, <2>3
<1>3. Service!LinesOf(p) \subseteq Peers
  BY DEF Service!LinesOf, Service!In, ServiceInv, MovesFine, ServiceMoves
<1>4. \A l \in Peers : l \notin Service!LinesOf(p) => \A m \in S : m.line # l
  BY DEF Service!LinesOf
<1> HIDE DEF S
<1>5. \A l \in Peers :
         /\ Service!Assigned(l, moves') =< peak[l] /\ Service!Done(l, moves') \in Nat
         /\ l \notin Service!LinesOf(p) =>
               /\ Service!Done(l, moves') = Service!Done(l, moves)
               /\ Service!Assigned(l, moves') = Service!Assigned(l, moves)
  BY <1>2, <1>4, ServiceLoses
<1>6. \A l \in Peers : delivered'[l] = IF l \in Service!LinesOf(p) THEN Service!Done(l, moves') ELSE delivered[l]
  BY <1>1 DEF Service!Recounted
<1>7. delivered' \in [Peers -> Nat]
  BY <1>1, <1>5 DEF ServiceInv, Service!Recounted
<1>8. Service!DeliveredIsDone'
  BY <1>1, <1>5, <1>6 DEF ServiceInv, Service!DeliveredIsDone
<1>9. Service!NothingTwice' /\ Service!NothingLeftOut'
  BY <1>1, <1>5 DEF ServiceInv, Service!NothingTwice, Service!NothingLeftOut
<1>10. sale' \in {"draft", "cancel"} => uncovered' = Peers /\ \A m \in moves' : m.state # "draft"
  BY <1>1, <1>2, <1>3 DEF ServiceInv
<1>11. MovesFine(moves')
  BY <1>2 DEF Loses
<1> QED BY <1>1, <1>7, <1>8, <1>9, <1>10, <1>11 DEF ServiceInv

LEMMA ServiceUnlinks ==
    ASSUME ServiceInv, NEW p, Service!Unlink(p)
    PROVE  ServiceInv'
<1> DEFINE S == Service!In(p)
<1>1. /\ moves' = moves \ S
      /\ uncovered' = uncovered \cup Service!LinesOf(p)
      /\ dropped' = dropped \cup {m.line : m \in {n \in S : n.state = "done"}}
      /\ UNCHANGED <<sale, qty, delivered, peak>>
  BY DEF Service!Unlink
<1>2. Service!LinesOf(p) \subseteq Peers
  BY DEF Service!LinesOf, Service!In, ServiceInv, MovesFine, ServiceMoves
<1>3. \A l \in Peers : l \notin Service!LinesOf(p) => \A m \in S : m.line # l
  BY DEF Service!LinesOf
<1> HIDE DEF S
<1>4. MovesFine(moves')
  <2>1. MovesFine(moves) /\ IsFiniteSet(moves \ S)
    BY FS_Difference DEF ServiceInv, MovesFine
  <2>2. moves' \subseteq moves
    BY <1>1
  <2> QED BY <1>1, <2>1, <2>2 DEF MovesFine
<1>5. Loses(moves', S)
  BY <1>1, <1>4 DEF Loses, Service!Of
<1>6. \A l \in Peers :
         /\ Service!Assigned(l, moves') =< peak[l]
         /\ l \notin Service!LinesOf(p) => Service!Assigned(l, moves') = Service!Assigned(l, moves)
  BY <1>3, <1>5, ServiceLoses
<1>7. ASSUME NEW l \in Peers \ dropped' PROVE delivered'[l] = Service!Done(l, moves')
  <2>1. \A m \in S : m.state = "done" => m.line # l
    BY <1>1, <1>7
  <2>2. Service!Of(l, "done", moves') = Service!Of(l, "done", moves)
    BY <1>1, <2>1 DEF Service!Of
  <2>3. l \notin dropped /\ delivered[l] = Service!Done(l, moves)
    BY <1>1, <1>7 DEF ServiceInv, Service!DeliveredIsDone
  <2> QED BY <1>1, <2>2, <2>3 DEF Service!Done
<1>8. Service!DeliveredIsDone'
  BY <1>7 DEF Service!DeliveredIsDone
<1>9. Service!NothingTwice' /\ Service!NothingLeftOut'
  BY <1>1, <1>6 DEF ServiceInv, Service!NothingTwice, Service!NothingLeftOut
<1>10. sale' \in {"draft", "cancel"} => uncovered' = Peers /\ \A m \in moves' : m.state # "draft"
  BY <1>1, <1>2 DEF ServiceInv
<1> QED BY <1>1, <1>4, <1>8, <1>9, <1>10 DEF ServiceInv

LEMMA ServiceCancelsOrder ==
    ASSUME ServiceInv, Service!CancelOrder
    PROVE  ServiceInv'
<1> DEFINE S == {m \in moves : m.state = "draft"}
           lines == {m.line : m \in moves}
<1>1. /\ sale' = "cancel"
      /\ moves' = Service!Cancelled(S)
      /\ delivered' = Service!Recounted(lines, moves')
      /\ uncovered' = Peers /\ dropped' = dropped \ lines
      /\ UNCHANGED <<qty, peak>>
  BY DEF Service!CancelOrder
<1>2. Loses(moves', S) /\ \A m \in moves' : m.state # "draft"
  <2>1. S \in SUBSET moves
    OBVIOUS
  <2>2. \A m \in moves : m.state = "draft" => m \in S
    OBVIOUS
  <2> HIDE DEF S
  <2>3. /\ Loses(Service!Cancelled(S), S)
        /\ \A m \in Service!Cancelled(S) : m.state = "draft" => m \in moves /\ m \notin S
    BY <2>1, <2>2, CancelledLoses
  <2> QED BY <1>1, <2>2, <2>3
<1>3. \A l \in Peers : l \notin lines => \A m \in S : m.line # l
  OBVIOUS
<1> HIDE DEF S, lines
<1>4. \A l \in Peers :
         /\ Service!Assigned(l, moves') =< peak[l] /\ Service!Done(l, moves') \in Nat
         /\ l \notin lines => Service!Done(l, moves') = Service!Done(l, moves)
  BY <1>2, <1>3, ServiceLoses
<1>5. \A l \in Peers : delivered'[l] = IF l \in lines THEN Service!Done(l, moves') ELSE delivered[l]
  BY <1>1 DEF Service!Recounted
<1>6. delivered' \in [Peers -> Nat]
  BY <1>1, <1>4 DEF ServiceInv, Service!Recounted
<1>7. Service!DeliveredIsDone'
  BY <1>1, <1>4, <1>5 DEF ServiceInv, Service!DeliveredIsDone
<1>8. Service!NothingTwice' /\ Service!NothingLeftOut'
  BY <1>1, <1>4 DEF ServiceInv, Service!NothingTwice, Service!NothingLeftOut
<1>9. MovesFine(moves')
  BY <1>2 DEF Loses
<1> QED BY <1>1, <1>2, <1>6, <1>7, <1>8, <1>9 DEF ServiceInv

LEMMA ServiceReopens == ServiceInv /\ Service!Reopen => ServiceInv'
BY DEF ServiceInv, Service!Reopen, Service!DeliveredIsDone, Service!NothingTwice, Service!NothingLeftOut

LEMMA ServiceChanges ==
    ASSUME ServiceInv, NEW l \in Peers, NEW q \in 1..MaxQty, Service!ChangeQuantity(l, q)
    PROVE  ServiceInv'
<1>1. /\ qty' = [qty EXCEPT ![l] = q]
      /\ peak' = [peak EXCEPT ![l] = Service!Max({peak[l], q})]
      /\ uncovered' = IF q > qty[l] THEN uncovered \cup {l} ELSE uncovered
      /\ UNCHANGED <<sale, delivered, moves, dropped>>
  BY DEF Service!ChangeQuantity
<1>2. q \in Nat /\ qty \in [Peers -> Nat] /\ peak \in [Peers -> Nat] /\ \A k \in Peers : qty[k] =< peak[k]
  BY ServiceFacts DEF ServiceInv
<1>3. /\ Service!Max({peak[l], q}) \in Nat
      /\ peak[l] =< Service!Max({peak[l], q}) /\ q =< Service!Max({peak[l], q})
  BY <1>2, GreaterOf
<1>4. /\ qty' \in [Peers -> Nat] /\ peak' \in [Peers -> Nat]
      /\ \A k \in Peers : qty'[k] =< peak'[k] /\ peak[k] =< peak'[k]
  BY <1>1, <1>2, <1>3
<1>5. \A k \in Peers : Service!Assigned(k, moves) \in Nat
  BY AssignedIs DEF ServiceInv
<1>6. ASSUME NEW k \in Peers PROVE Service!Assigned(k, moves) =< peak'[k]
  <2>1. Service!Assigned(k, moves) =< peak[k] /\ peak[k] \in Nat /\ peak'[k] \in Nat
    BY <1>2, <1>4 DEF ServiceInv, Service!NothingTwice
  <2> QED BY <1>4, <1>5, <2>1
<1>7. ASSUME NEW k \in Peers \ uncovered', sale \in {"sale", "done"}
      PROVE  Service!Assigned(k, moves) >= qty'[k]
  <2>1. k \notin uncovered /\ (k = l => ~(q > qty[l]))
    BY <1>1, <1>7
  <2>2. Service!Assigned(k, moves) >= qty[k]
    BY <1>7, <2>1 DEF ServiceInv, Service!NothingLeftOut
  <2>3. qty'[k] \in Nat /\ qty[k] \in Nat /\ qty'[k] =< qty[k]
    BY <1>1, <1>2, <2>1
  <2> QED BY <1>5, <2>2, <2>3
<1>8. Service!DeliveredIsDone' /\ Service!NothingTwice' /\ Service!NothingLeftOut'
  BY <1>1, <1>6, <1>7 DEF ServiceInv, Service!DeliveredIsDone, Service!NothingTwice, Service!NothingLeftOut
<1>9. sale' \in {"draft", "cancel"} => uncovered' = Peers /\ \A m \in moves' : m.state # "draft"
  BY <1>1 DEF ServiceInv
<1> QED BY <1>1, <1>4, <1>8, <1>9 DEF ServiceInv

LEMMA ServiceInit == Service!Init => ServiceInv
<1> SUFFICES ASSUME Service!Init PROVE ServiceInv
  OBVIOUS
<1>1. /\ sale = "draft" /\ qty \in [Peers -> 1..MaxQty] /\ delivered = [l \in Peers |-> 0]
      /\ moves = {} /\ uncovered = Peers /\ peak = qty
  BY DEF Service!Init
<1>2. qty \in [Peers -> Nat]
  BY <1>1, ServiceFacts
<1>3. MovesFine(moves)
  BY <1>1, FS_EmptySet DEF MovesFine
<1>4. \A l \in Peers : Service!Done(l, moves) = 0 /\ Service!Assigned(l, moves) = 0
  <2>1. Service!Total({}) = 0
    <3>1. Service!Total({}) = Total([m \in {} |-> 0], {})
      BY ServiceSum, FS_EmptySet
    <3>2. Total([m \in {} |-> 0], {}) = 0
      BY TotalTake, FS_EmptySet
    <3> QED BY <3>1, <3>2
  <2>2. \A l \in Peers : Service!Of(l, "done", moves) = {} /\ Service!Of(l, "draft", moves) = {}
    BY <1>1 DEF Service!Of
  <2>3. \A l \in Peers : Service!Done(l, moves) = 0
    BY <2>1, <2>2 DEF Service!Done
  <2> QED BY <1>3, <2>2, <2>3, AssignedIs
<1>5. \A l \in Peers : qty[l] =< peak[l] /\ Service!Assigned(l, moves) =< peak[l]
  BY <1>1, <1>2, <1>4
<1>6. Service!DeliveredIsDone /\ Service!NothingTwice /\ Service!NothingLeftOut
  BY <1>1, <1>4, <1>5 DEF Service!DeliveredIsDone, Service!NothingTwice, Service!NothingLeftOut
<1>7. delivered \in [Peers -> Nat] /\ peak \in [Peers -> Nat]
  BY <1>1, <1>2
<1> QED BY <1>1, <1>2, <1>3, <1>5, <1>6, <1>7 DEF ServiceInv

LEMMA ServiceStays == ServiceInv /\ UNCHANGED <<peak, OfServices>> => ServiceInv'
BY DEF ServiceInv, OfServices, Service!DeliveredIsDone, Service!NothingTwice, Service!NothingLeftOut

LEMMA ServiceNext == ServiceInv /\ Service!Next => ServiceInv'
<1> SUFFICES ASSUME ServiceInv, Service!Next PROVE ServiceInv'
  OBVIOUS
<1>1. CASE Service!Confirm
  BY <1>1, ServiceConfirms
<1>2. CASE \E p \in Service!Drafts : Service!Validate(p)
  BY <1>2, ServiceValidates
<1>3. CASE \E p \in Service!Drafts : Service!Process(p)
  BY <1>3, ServiceProcesses
<1>4. CASE \E p \in Service!Pickings : Service!Cancel(p)
  BY <1>4, ServiceCancels
<1>5. CASE \E p \in Service!Pickings : Service!Unlink(p)
  BY <1>5, ServiceUnlinks
<1>6. CASE Service!CancelOrder
  BY <1>6, ServiceCancelsOrder
<1>7. CASE Service!Reopen
  BY <1>7, ServiceReopens
<1>8. CASE \E l \in Peers, q \in 1..MaxQty : Service!ChangeQuantity(l, q)
  <2>1. PICK l \in Peers, q \in 1..MaxQty : Service!ChangeQuantity(l, q)
    BY <1>8
  <2> QED BY <2>1, ServiceChanges
<1> QED BY <1>1, <1>2, <1>3, <1>4, <1>5, <1>6, <1>7, <1>8, Zenon DEF Service!Next

LEMMA ServiceSteps ==
    [Next]_vars /\ part' = "services" =>
        part = "services" /\ (Service!Next \/ UNCHANGED <<peak, OfServices>>)
BY DEF Next, vars

(* The services of an order are planned once, none is left out, and what   *)
(* lines are said to have delivered is done, through any validations,      *)
(* cancellations and changes (action_done, _get_assigned_service_qty,      *)
(* calculate_shipped_service_quantity), for any lines, quantities and      *)
(* number of transfers.                                                    *)
THEOREM ServicesAreAccounted == Spec => []ServicesAccounted
<1> DEFINE I == part = "services" => ServiceInv
<1>1. Init => I
  BY ServiceInit DEF Init
<1>2. I /\ [Next]_vars => I'
  BY ServiceSteps, ServiceNext, ServiceStays
<1>3. I => ServicesAccounted
  BY DEF ServiceInv, ServicesAccounted
<1> QED BY <1>1, <1>2, <1>3, PTL DEF Spec

-----------------------------------------------------------------------------
(* The store's client (StoreClient).                                       *)

ClientModels == V2Models \cup V3Models
Paged == {"all", "next_v2", "next_v3"}
NextOnes == {"next_v2", "next_v3"}

Resources == [kind : {"nil", "one", "many"}, data : Seq(Client!Data), key : Client!Ids \cup {None}]
Composites == [model : ClientModels, res : Resources, response : Client!Responses \cup {None}]
Attributes ==
    [model : ClientModels \cup {None}, key : Client!Ids \cup {None}, json : Client!Data \cup {None},
     params : Nat \cup {None}, url : ClientModels \cup {None}]

(* A resource of one record; the id in its data is the one it goes by.     *)
OwnId(d, key) == d.body # None => d.id = key
ResourceFine(res) == res.kind = "one" => Len(res.data) = 1 /\ OwnId(res.data[1], res.key)

StoreFine(s) ==
    /\ s = [m \in ClientModels |-> s[m]]
    /\ \A m \in ClientModels : s[m] \in [DOMAIN InitialData[m] -> Client!Contents]

(* The records of a model, and those beyond the first n of them.           *)
Records(s, m) == {id \in DOMAIN s[m] : s[m][id] # None}
Rank(S, id) == Cardinality({j \in S : j =< id})
After(S, n) == {id \in S : Rank(S, id) > n}

(* A call: what it asks, and what its builder has when it was filled.      *)
AskFine(a) ==
    /\ IF a.method \in Client!NoBody THEN a.json = None ELSE a.json \in Client!Data
    /\ a.method \in Paged => a.params \in Nat \ {0}
    /\ a.method = "put" => OwnId(a.json, a.key)
FilledFine(m, b) ==
    /\ b.model \in ClientModels
    /\ m \notin Client!NoBody => b.json \in Client!Data
    /\ m \in Paged => b.params \in Nat \ {0}
RequestOf(m, b) ==
    [method |-> m, model |-> IF b.url # None THEN b.url ELSE b.model,
     key |-> b.key, json |-> b.json, params |-> b.params]
CallFine(c, met, model, b) ==
    /\ AskFine(c.asked) /\ model \in ClientModels
    /\ c.built => FilledFine(c.asked.method, b)
    /\ met => c.shared
    /\ ~c.shared => model = c.asked.model /\ (c.built => RequestOf(c.asked.method, b) = c.asked)

(* Another thread is in the method of t.                                   *)
Met(t, cs) == \E u \in Threads \ {t} : cs[u] # None /\ cs[u].asked.method = cs[t].asked.method

ListingRecord(l) ==
    l = [due |-> l.due, seen |-> l.seen, broken |-> l.broken, done |-> l.done] /\ l.broken \in BOOLEAN
ListingFine(l, c, k, s) ==
    /\ c \in Composites
    /\ IF k # None
       THEN /\ k.asked.method \in Paged /\ k.asked.model = c.model
            /\ l.due \subseteq l.seen \cup After(Records(s, c.model), (k.asked.params - 1) * PageSize)
       ELSE /\ c.response \in Client!Responses /\ c.response.page \in Nat \ {0}
            /\ l.due \subseteq l.seen \cup After(Records(s, c.model), c.response.page * PageSize)
            /\ l.done \/ (c.model \in V3Models /\ ~c.response.more) => l.due \subseteq l.seen

ClientInv ==
    /\ StoreFine(store)
    /\ held = [t \in Threads |-> held[t]]
    /\ \A t \in Threads : held[t] # None => held[t] \in Composites /\ ResourceFine(held[t].res)
    /\ call \in [Threads -> Client!Calls \cup {None}]
    /\ \A t \in Threads : call[t] # None => held[t] # None
    /\ \A t \in Threads :
          call[t] # None =>
             LET m == call[t].asked.method IN CallFine(call[t], Met(t, call), owner[m], builder[m])
    /\ owner \in [Client!Methods -> ClientModels \cup {None}]
    /\ builder \in [Client!Methods -> Attributes]
    /\ \A m \in Client!Methods : /\ m \in Client!NoBody => builder[m].json = None
                                 /\ m \notin NextOnes => builder[m].url = None
    /\ listing = [t \in Threads |-> listing[t]]
    /\ \A t \in Threads :
          listing[t] # None =>
             /\ ListingRecord(listing[t])
             /\ ~listing[t].broken => ListingFine(listing[t], held[t], call[t], store)
    /\ Client!RequestsAsAsked /\ Client!PutsOwnRecord

(* The records of a model in ascending order, and how many are below one.  *)
LEMMA RankIs ==
    ASSUME NEW S, IsFiniteSet(S), S \subseteq Nat
    PROVE  /\ \A id \in S : Rank(S, id) \in 1..Cardinality(S)
           /\ \A i, j \in S : i < j => Rank(S, i) < Rank(S, j)
           /\ \A k \in 1..Cardinality(S) : \E id \in S : Rank(S, id) = k
<1> DEFINE N == Cardinality(S)
           Low(id) == {j \in S : j =< id}
           r == [id \in S |-> Rank(S, id)]
<1>1. \A id \in S : Rank(S, id) = Cardinality(Low(id))
  BY DEF Rank
<1>2. N \in Nat /\ \A id \in S : IsFiniteSet(Low(id)) /\ Cardinality(Low(id)) \in Nat /\ Cardinality(Low(id)) =< N
  <2>1. \A id \in S : Low(id) \in SUBSET S
    OBVIOUS
  <2> HIDE DEF Low
  <2> QED BY <2>1, FS_Subset, FS_CardinalityType
<1>3. ASSUME NEW i \in S, NEW j \in S, i < j PROVE Rank(S, i) < Rank(S, j)
  <2>1. i \in Nat /\ j \in Nat
    OBVIOUS
  <2>2. Low(i) \in SUBSET Low(j) /\ j \in Low(j) /\ j \notin Low(i)
    <3>1. \A x \in S : x \in Nat /\ (x =< i => x =< j)
      BY <1>3, <2>1
    <3>2. j =< j /\ ~(j =< i)
      BY <1>3, <2>1
    <3> QED BY <3>1, <3>2
  <2> DEFINE a == Cardinality(Low(i))
             b == Cardinality(Low(j))
  <2> HIDE DEF Low
  <2>3. a =< b /\ a # b
    BY <1>2, <2>2, FS_Subset
  <2>4. a \in Nat /\ b \in Nat
    BY <1>2
  <2> HIDE DEF a, b
  <2>5. a < b
    BY <2>3, <2>4
  <2> QED BY <1>1, <2>5 DEF a, b
<1>4. ASSUME NEW id \in S PROVE Rank(S, id) \in 1..N
  <2>1. id \in Low(id)
    OBVIOUS
  <2> DEFINE a == Cardinality(Low(id))
  <2> HIDE DEF Low
  <2>2. a # 0 /\ a \in Nat /\ a =< N
    BY <1>2, <2>1, FS_EmptySet
  <2> HIDE DEF a, N
  <2>3. a \in 1..N
    BY <1>2, <2>2
  <2> QED BY <1>1, <2>3 DEF a
<1>5. \A i, j \in S : i # j => Rank(S, i) # Rank(S, j)
  <2> SUFFICES ASSUME NEW i \in S, NEW j \in S, i # j PROVE Rank(S, i) # Rank(S, j)
    OBVIOUS
  <2>1. i < j \/ j < i
    OBVIOUS
  <2>2. Rank(S, i) \in Nat /\ Rank(S, j) \in Nat
    BY <1>4
  <2> QED BY <1>3, <2>1, <2>2
<1>6. r \in Injection(S, 1..N)
  BY <1>4, <1>5 DEF Injection, IsInjective
<1>7. IsFiniteSet(1..N) /\ Cardinality(1..N) = N
  BY <1>2, FS_Interval
<1> HIDE DEF r, N
<1>8. r \in Surjection(S, 1..N)
  BY <1>6, <1>7, FS_Injection DEF N
<1>9. \A k \in 1..N : \E id \in S : r[id] = k
  BY <1>8 DEF Surjection
<1>10. \A k \in 1..N : \E id \in S : Rank(S, id) = k
  BY <1>9 DEF r
<1> QED BY <1>3, <1>4, <1>10 DEF N

Ascending(s, S) ==
    s \in [1..Cardinality(S) -> S] /\ \A i, j \in 1..Cardinality(S) : i < j => s[i] < s[j]

LEMMA AscendingExists ==
    ASSUME NEW S, IsFiniteSet(S), S \subseteq Nat
    PROVE  \E s : Ascending(s, S)
<1> DEFINE N == Cardinality(S)
           s == [k \in 1..N |-> CHOOSE id \in S : Rank(S, id) = k]
<1>1. \A k \in 1..N : s[k] \in S /\ Rank(S, s[k]) = k
  BY RankIs
<1>2. ASSUME NEW i \in 1..N, NEW j \in 1..N, i < j PROVE s[i] < s[j]
  <2> PICK a, b : a = s[i] /\ b = s[j]
    OBVIOUS
  <2>1. a \in S /\ b \in S /\ Rank(S, a) = i /\ Rank(S, b) = j /\ a \in Nat /\ b \in Nat
    BY <1>1
  <2>2. ~(b < a)
    <3>1. b < a => Rank(S, b) < Rank(S, a)
      BY <2>1, RankIs
    <3>2. i \in Nat /\ j \in Nat
      OBVIOUS
    <3> QED BY <1>2, <2>1, <3>1, <3>2
  <2>3. a # b
    BY <1>2, <2>1
  <2>4. a < b
    BY <2>1, <2>2, <2>3
  <2> QED BY <2>4
<1> HIDE DEF s
<1>3. s \in [1..N -> S]
  BY <1>1 DEF s
<1> QED BY <1>2, <1>3 DEF Ascending

(* A record is where its rank says.                                        *)
LEMMA AscendingRank ==
    ASSUME NEW S, IsFiniteSet(S), S \subseteq Nat, NEW s, Ascending(s, S)
    PROVE  \A id \in S : Rank(S, id) \in 1..Cardinality(S) /\ s[Rank(S, id)] = id
<1> DEFINE N == Cardinality(S)
<1>1. N \in Nat /\ s \in [1..N -> S] /\ \A i, j \in 1..N : i < j => s[i] < s[j]
  BY FS_CardinalityType DEF Ascending
<1> HIDE DEF N
<1>2. \A i, j \in 1..N : i # j => s[i] # s[j]
  <2> SUFFICES ASSUME NEW i \in 1..N, NEW j \in 1..N, i # j PROVE s[i] # s[j]
    OBVIOUS
  <2>1. i < j \/ j < i
    BY <1>1
  <2>2. s[i] \in Nat /\ s[j] \in Nat
    BY <1>1
  <2> QED BY <1>1, <2>1, <2>2
<1>3. s \in Injection(1..N, S)
  BY <1>1, <1>2 DEF Injection, IsInjective
<1>4. IsFiniteSet(1..N) /\ Cardinality(1..N) = Cardinality(S)
  BY <1>1, FS_Interval DEF N
<1>5. s \in Surjection(1..N, S)
  BY <1>3, <1>4, FS_Injection
<1>6. ASSUME NEW k \in 1..N PROVE Rank(S, s[k]) = k
  <2> DEFINE T == {j \in S : j =< s[k]}
             f == [i \in 1..k |-> s[i]]
  <2>1. \A i \in 1..N : s[i] =< s[k] <=> i \in 1..k
    <3> TAKE i \in 1..N
    <3>1. s[i] \in Nat /\ s[k] \in Nat
      BY <1>1
    <3>2. i < k => s[i] < s[k]
      BY <1>1
    <3>3. k < i => s[k] < s[i]
      BY <1>1
    <3>4. i < k \/ i = k \/ k < i
      BY <1>1
    <3> QED BY <1>1, <3>1, <3>2, <3>3, <3>4
  <2>2. \A i \in 1..k : i \in 1..N
    BY <1>1
  <2>3. \A t \in T : \E i \in 1..k : s[i] = t
    <3>1. \A t \in S : \E i \in 1..N : s[i] = t
      BY <1>5 DEF Surjection
    <3> QED BY <2>1, <3>1
  <2>4. \A i \in 1..k : s[i] \in T
    BY <1>1, <2>1, <2>2
  <2> HIDE DEF T
  <2>5. f \in Bijection(1..k, T)
    BY <1>2, <2>2, <2>3, <2>4 DEF Bijection, Injection, Surjection, IsInjective
  <2> HIDE DEF f
  <2>6. IsFiniteSet(1..k) /\ Cardinality(1..k) = k
    BY <1>1, FS_Interval
  <2>7. Cardinality(T) = k
    BY <2>5, <2>6, FS_Bijection DEF ExistsBijection
  <2> QED BY <2>7 DEF T, Rank
<1>7. \A id \in S : \E k \in 1..N : s[k] = id
  BY <1>5 DEF Surjection
<1> QED BY <1>6, <1>7 DEF N

LEMMA ClientFacts ==
    /\ PageSize \in Nat \ {0}
    /\ \A m \in ClientModels : IsFiniteSet(DOMAIN InitialData[m]) /\ DOMAIN InitialData[m] \subseteq Nat
    /\ None \notin Nat /\ None \notin Client!Calls /\ None \notin Client!Responses /\ None \notin Client!Data
    /\ StoreFine(InitialData)
    /\ ClientModels = Client!Models
<1>1. ClientModels = Client!Models
  BY DEF ClientModels, Client!Models
<1>2. \A S : Client!IsFiniteSet(S) = IsFiniteSet(S)
  BY DEF Client!IsFiniteSet, IsFiniteSet
<1>3. /\ InitialData = [m \in ClientModels |-> [id \in DOMAIN InitialData[m] |-> InitialData[m][id]]]
      /\ \A m \in ClientModels : IsFiniteSet(DOMAIN InitialData[m]) /\ DOMAIN InitialData[m] \subseteq Nat
      /\ PageSize \in Nat \ {0}
      /\ None \notin Nat /\ None \notin Client!Calls /\ None \notin Client!Responses /\ None \notin Client!Data
  BY <1>1, <1>2, ClientGiven DEF Client!StoreClientAssumption
<1>4. \A m \in ClientModels : InitialData[m] = [id \in DOMAIN InitialData[m] |-> InitialData[m][id]]
  BY <1>3
<1>5. \A m \in ClientModels : \A id \in DOMAIN InitialData[m] : InitialData[m][id] \in Client!Contents
  BY <1>1 DEF Client!Contents
<1>6. InitialData = [m \in ClientModels |-> InitialData[m]]
  BY <1>3
<1>7. \A m \in ClientModels : InitialData[m] \in [DOMAIN InitialData[m] -> Client!Contents]
  BY <1>4, <1>5
<1> QED BY <1>1, <1>3, <1>6, <1>7 DEF StoreFine

LEMMA RecordSets ==
    ASSUME NEW s, StoreFine(s), NEW m \in ClientModels
    PROVE  /\ DOMAIN s[m] = DOMAIN InitialData[m]
           /\ IsFiniteSet(Records(s, m)) /\ Records(s, m) \subseteq Nat
           /\ \A id \in DOMAIN s[m] : id \in Client!Ids /\ s[m][id] \in Client!Contents
<1>1. DOMAIN s[m] = DOMAIN InitialData[m] /\ \A id \in DOMAIN s[m] : s[m][id] \in Client!Contents
  BY DEF StoreFine
<1>2. Records(s, m) \in SUBSET DOMAIN InitialData[m]
  BY <1>1 DEF Records
<1>3. IsFiniteSet(Records(s, m)) /\ Records(s, m) \subseteq Nat
  BY <1>2, ClientFacts, FS_Subset
<1>4. \A id \in DOMAIN s[m] : id \in Client!Ids
  BY <1>1, ClientFacts DEF Client!Ids
<1> QED BY <1>1, <1>3, <1>4

LEMMA ListedIs ==
    ASSUME StoreFine(store), NEW m \in ClientModels
    PROVE  /\ Ascending(Client!Listed(m), Records(store, m))
           /\ Len(Client!Listed(m)) = Cardinality(Records(store, m))
           /\ Cardinality(Records(store, m)) \in Nat
<1> DEFINE S == Records(store, m)
           N == Cardinality(S)
           s == Client!Listed(m)
<1>1. IsFiniteSet(S) /\ S \subseteq Nat
  BY RecordSets
<1>2. N \in Nat /\ Client!Cardinality(S) = N
  BY <1>1, FS_CardinalityType DEF Client!Cardinality, Cardinality, Client!IsFiniteSet, IsFiniteSet
<1>3. s = CHOOSE t \in [1..Client!Cardinality(S) -> S] : \A i, j \in DOMAIN t : i < j => t[i] < t[j]
  BY DEF Client!Listed, Records
<1> HIDE DEF S, N, s
<1>4. \E t \in [1..N -> S] : \A i, j \in DOMAIN t : i < j => t[i] < t[j]
  <2>1. PICK t : Ascending(t, S)
    BY <1>1, AscendingExists
  <2>2. t \in [1..N -> S] /\ \A i, j \in 1..N : i < j => t[i] < t[j]
    BY <2>1 DEF Ascending, N
  <2> QED BY <2>2
<1>5. s \in [1..N -> S] /\ \A i, j \in DOMAIN s : i < j => s[i] < s[j]
  BY <1>2, <1>3, <1>4
<1>6. Ascending(s, S)
  BY <1>5 DEF Ascending, N
<1>7. Len(s) = N
  BY <1>2, <1>5
<1> QED BY <1>2, <1>6, <1>7 DEF S, N, s

LEMMA PageIs ==
    ASSUME StoreFine(store), NEW m \in ClientModels, NEW n \in Nat \ {0}
    PROVE  LET p == Client!Page(m, n)
               S == Records(store, m)
           IN  /\ p \in Seq(Client!Data)
               /\ After(S, (n - 1) * PageSize) \subseteq {p[i].id : i \in DOMAIN p} \cup After(S, n * PageSize)
               /\ p = <<>> => After(S, (n - 1) * PageSize) = {}
               /\ ~(n * PageSize < Len(Client!Listed(m))) => After(S, n * PageSize) = {}
<1> DEFINE S == Records(store, m)
           N == Cardinality(S)
           s == Client!Listed(m)
           a == (n - 1) * PageSize
           b == n * PageSize
           last == IF b < N THEN b ELSE N
           K == last - a
           p == Client!Page(m, n)
           it(i) == Client!Datum(s[a + i], store[m][s[a + i]])
<1>1. Ascending(s, S) /\ Len(s) = N /\ N \in Nat
  BY ListedIs
<1>2. p = [i \in 1..K |-> it(i)]
  BY <1>1 DEF Client!Page
<1>3. a \in Nat /\ b \in Nat /\ a < b
  <2>1. PageSize \in Nat \ {0}
    BY ClientFacts
  <2>2. n - 1 \in Nat /\ n * PageSize = (n - 1) * PageSize + PageSize
    BY <2>1
  <2>3. a \in Nat /\ b \in Nat
    BY <2>1, <2>2
  <2> HIDE DEF a, b
  <2>4. b = a + PageSize
    BY <2>2 DEF a, b
  <2> QED BY <2>1, <2>3, <2>4
<1>4. IsFiniteSet(S) /\ S \subseteq Nat
  BY RecordSets
<1> HIDE DEF S, s, a, b
<1>5. \A id \in S : Rank(S, id) \in 1..N /\ s[Rank(S, id)] = id
  BY <1>1, <1>4, AscendingRank
<1> HIDE DEF N
<1>6. s \in [1..N -> S]
  BY <1>1 DEF Ascending, N
<1>7. K \in Int /\ K =< N - a /\ K =< b - a
  BY <1>1, <1>3
<1>8. \A i \in 1..K : a + i \in 1..N
  BY <1>1, <1>3, <1>7
<1>9. \A i \in 1..K : it(i) \in Client!Data /\ it(i).id = s[a + i]
  <2> TAKE i \in 1..K
  <2> PICK id : id = s[a + i]
    OBVIOUS
  <2>1. id \in S
    BY <1>6, <1>8
  <2>2. id \in Client!Ids /\ store[m][id] \in Client!Contents
    BY <2>1, RecordSets DEF S, Records
  <2> QED BY <2>2 DEF Client!Datum, Client!Data
<1>10. \A k \in Nat : a < k /\ k =< N /\ ~(b < k) => k - a \in 1..K /\ a + (k - a) = k
  BY <1>1, <1>3
<1>11. K \in Nat \/ 1..K = 1..0
  BY <1>7
<1> HIDE DEF K, it
<1>12. p \in Seq(Client!Data)
  <2>1. \E k \in Nat : 1..K = 1..k
    BY <1>11
  <2>2. PICK k \in Nat : 1..K = 1..k
    BY <2>1
  <2>3. p \in [1..k -> Client!Data]
    BY <1>2, <1>9, <2>2
  <2> QED BY <2>3
<1>13. DOMAIN p = 1..K /\ \A i \in 1..K : p[i] = it(i)
  BY <1>2
<1>14. ASSUME NEW id \in After(S, a), id \notin After(S, b)
       PROVE  \E i \in 1..K : p[i].id = id
  <2> PICK k : k = Rank(S, id)
    OBVIOUS
  <2>1. id \in S /\ k > a /\ ~(k > b)
    BY <1>14 DEF After
  <2>2. k \in 1..N /\ s[k] = id
    BY <1>5, <2>1
  <2>3. k \in Nat /\ a < k /\ k =< N /\ ~(b < k)
    BY <1>1, <1>3, <2>1, <2>2
  <2>4. k - a \in 1..K /\ a + (k - a) = k
    BY <1>10, <2>3
  <2>5. p[k - a].id = id
    BY <1>9, <1>13, <2>2, <2>4
  <2> QED BY <2>4, <2>5
<1>15. p = <<>> => After(S, a) = {}
  <2> SUFFICES ASSUME p = <<>>, NEW id \in After(S, a) PROVE FALSE
    OBVIOUS
  <2>1. 1..K = {}
    BY <1>13
  <2>2. id \in After(S, b) /\ id \in S
    BY <1>14, <2>1 DEF After
  <2> PICK k : k = Rank(S, id)
    OBVIOUS
  <2>3. k > b /\ k \in 1..N
    BY <1>5, <2>2 DEF After
  <2>4. b \in Nat /\ a < b /\ b =< N /\ ~(b < b)
    BY <1>1, <1>3, <2>3
  <2>5. b - a \in 1..K
    BY <1>10, <2>4
  <2> QED BY <2>1, <2>5
<1>16. ~(b < Len(s)) => After(S, b) = {}
  <2> SUFFICES ASSUME ~(b < Len(s)), NEW id \in After(S, b) PROVE FALSE
    OBVIOUS
  <2> PICK k : k = Rank(S, id)
    OBVIOUS
  <2>1. k > b /\ k \in 1..N
    BY <1>5 DEF After
  <2> QED BY <1>1, <1>3, <2>1
<1>17. After(S, a) \subseteq {p[i].id : i \in DOMAIN p} \cup After(S, b)
  BY <1>13, <1>14
<1> HIDE DEF p
<1> QED BY <1>12, <1>15, <1>16, <1>17 DEF a, b, s, S, p

(* Where no record leaves, those to come stay to come or were seen.        *)
LEMMA AfterGrows ==
    ASSUME NEW T, IsFiniteSet(T), NEW S \in SUBSET T, NEW n
    PROVE  T \subseteq Nat /\ n \in Nat => After(S, n) \subseteq After(T, n)
<1> SUFFICES ASSUME T \subseteq Nat, n \in Nat, NEW id \in After(S, n) PROVE id \in After(T, n)
  OBVIOUS
<1> DEFINE A == {j \in S : j =< id}
           B == {j \in T : j =< id}
<1>1. A \in SUBSET B /\ B \in SUBSET T
  OBVIOUS
<1> HIDE DEF A, B
<1>2. IsFiniteSet(B) /\ IsFiniteSet(A)
  BY <1>1, FS_Subset
<1>3. Cardinality(A) =< Cardinality(B) /\ Cardinality(A) \in Nat /\ Cardinality(B) \in Nat
  BY <1>1, <1>2, FS_Subset, FS_CardinalityType
<1>4. id \in S /\ Cardinality(A) > n
  BY DEF After, Rank, A
<1>5. id \in T /\ Cardinality(B) > n
  BY <1>3, <1>4
<1> QED BY <1>5 DEF After, Rank, B

LEMMA ClientHolds ==
    ASSUME ClientInv, NEW t \in Threads, NEW c, held' = [held EXCEPT ![t] = c], call[t] = None,
           c # None => c \in Composites /\ ResourceFine(c.res),
           sent' = None, UNCHANGED <<store, call, owner, builder>>,
           listing' = [u \in Threads |-> listing'[u]], \A u \in Threads \ {t} : listing'[u] = listing[u],
           listing'[t] # None => ListingRecord(listing'[t]) /\ listing'[t].broken
    PROVE  ClientInv'
<1>1. held' = [u \in Threads |-> held'[u]] /\ \A u \in Threads : held'[u] = IF u = t THEN c ELSE held[u]
  BY DEF ClientInv
<1>2. \A u \in Threads : held'[u] # None => held'[u] \in Composites /\ ResourceFine(held'[u].res)
  BY <1>1 DEF ClientInv
<1>3. ASSUME NEW u \in Threads, listing'[u] # None
      PROVE  /\ ListingRecord(listing'[u])
             /\ ~listing'[u].broken => ListingFine(listing'[u], held'[u], call'[u], store')
  <2>1. CASE u = t
    BY <1>3, <2>1
  <2>2. CASE u # t
    BY <1>1, <1>3, <2>2 DEF ClientInv
  <2> QED BY <2>1, <2>2
<1>4. Client!RequestsAsAsked' /\ Client!PutsOwnRecord'
  BY DEF Client!RequestsAsAsked, Client!PutsOwnRecord
<1>5. \A u \in Threads : call'[u] # None => held'[u] # None
  BY <1>1 DEF ClientInv
<1> QED BY <1>1, <1>2, <1>3, <1>4, <1>5 DEF ClientInv

LEMMA ClientTakes ==
    ASSUME ClientInv, NEW t \in Threads, NEW m \in ClientModels, Client!Take(t, m)
    PROVE  ClientInv'
<1>1. PICK res \in {Client!Nil} \cup {[Client!Singular(Client!Empty) EXCEPT !.key = id] : id \in DOMAIN store[m]}
                       \cup {Client!Singular(Client!Datum(None, b)) : b \in {"b"}} :
         Client!Holds(t, Client!Composite(m, res, None))
  BY DEF Client!Take
<1>2. listing' = listing /\ listing[t] = None /\ call[t] = None
  BY DEF Client!Take, Client!Idle
<1> DEFINE c == Client!Composite(m, res, None)
<1>3. res \in Resources /\ ResourceFine(res)
  <2>1. CASE res = Client!Nil
    BY <2>1 DEF Client!Nil, Resources, ResourceFine
  <2>2. ASSUME NEW id \in DOMAIN store[m], res = [Client!Singular(Client!Empty) EXCEPT !.key = id]
        PROVE  res \in Resources /\ ResourceFine(res)
    <3>1. Client!Empty = [id |-> None, body |-> None] /\ Client!Empty \in Client!Data
      BY DEF Client!Empty, Client!Datum, Client!Data, Client!Contents
    <3>2. id \in Client!Ids
      BY RecordSets DEF ClientInv
    <3>3. res = [kind |-> "one", data |-> <<Client!Empty>>, key |-> id]
      BY <2>2 DEF Client!Singular
    <3> QED BY <3>1, <3>2, <3>3 DEF Resources, ResourceFine, OwnId
  <2>3. ASSUME res = Client!Singular(Client!Datum(None, "b")) PROVE res \in Resources /\ ResourceFine(res)
    <3> DEFINE d == Client!Datum(None, "b")
    <3>1. d \in Client!Data /\ d.id = None
      BY DEF Client!Datum, Client!Data, Client!Contents
    <3> HIDE DEF d
    <3>2. res = [kind |-> "one", data |-> <<d>>, key |-> None]
      BY <2>3, <3>1 DEF Client!Singular, d
    <3> QED BY <3>1, <3>2 DEF Resources, ResourceFine, OwnId
  <2> QED BY <1>1, <2>1, <2>2, <2>3
<1>4. c \in Composites /\ ResourceFine(c.res)
  BY <1>3 DEF Client!Composite, Composites
<1>5. held' = [held EXCEPT ![t] = c] /\ sent' = None /\ UNCHANGED <<store, call, owner, builder>>
  BY <1>1 DEF Client!Holds
<1>6. listing = [u \in Threads |-> listing[u]]
  BY DEF ClientInv
<1> HIDE DEF c
<1> QED BY <1>2, <1>4, <1>5, <1>6, ClientHolds

LEMMA ClientAssigns ==
    ASSUME ClientInv, NEW t \in Threads, NEW id \in Client!Ids \cup {None}, NEW b \in {"b"},
           Client!Assign(t, Client!Datum(id, b))
    PROVE  ClientInv'
<1> DEFINE d == Client!Datum(id, b)
           res == held[t].res
           key == IF id = None THEN res.key ELSE id
           new == [d EXCEPT !.id = key]
           as == Client!Assigned(res, d)
           c == [held[t] EXCEPT !.res = as]
<1>1. /\ held[t] \in Composites /\ res \in Resources /\ res.kind = "one"
      /\ listing' = listing /\ listing[t] = None /\ call[t] = None
      /\ held' = [held EXCEPT ![t] = c] /\ sent' = None /\ UNCHANGED <<store, call, owner, builder>>
  BY DEF Client!Idle, Client!Assign, Client!Holds, ClientInv, Composites
<1>2. d = [id |-> id, body |-> b] /\ d.id = id
  BY DEF Client!Datum
<1>3. key \in Client!Ids \cup {None}
  BY <1>1 DEF Resources
<1>4. as = [res EXCEPT !.key = key, !.data = <<new>>]
  BY <1>2 DEF Client!Assigned
<1>5. new = [id |-> key, body |-> b] /\ new \in Client!Data
  BY <1>2, <1>3 DEF Client!Data, Client!Contents
<1> HIDE DEF d, key, new, as, res
<1>6. as = [kind |-> "one", data |-> <<new>>, key |-> key]
  BY <1>1, <1>4 DEF Resources
<1>7. as \in Resources /\ ResourceFine(as)
  BY <1>3, <1>5, <1>6 DEF Resources, ResourceFine, OwnId
<1>8. c \in Composites /\ c.res = as
  BY <1>1, <1>7 DEF Composites
<1>9. listing = [u \in Threads |-> listing[u]]
  BY DEF ClientInv
<1> HIDE DEF c
<1> QED BY <1>1, <1>7, <1>8, <1>9, ClientHolds

LEMMA SingularFine ==
    ASSUME NEW d \in Client!Data
    PROVE  Client!Singular(d) \in Resources /\ ResourceFine(Client!Singular(d)) /\ Client!Singular(d).kind = "one"
<1>1. Client!Singular(d) = [kind |-> "one", data |-> <<d>>, key |-> d.id] /\ d.id \in Client!Ids \cup {None}
  BY DEF Client!Singular, Client!Data
<1> QED BY <1>1 DEF Resources, ResourceFine, OwnId

LEMMA ClientIterates ==
    ASSUME ClientInv, NEW t \in Threads, Client!Iterate(t)
    PROVE  ClientInv'
<1> DEFINE res == held[t].res
<1>1. /\ held[t] \in Composites /\ res \in Resources
      /\ listing' = listing /\ listing[t] = None /\ call[t] = None
  BY DEF Client!Idle, Client!Iterate, ClientInv, Composites
<1>2. PICK i \in DOMAIN res.data : Client!Holds(t, [held[t] EXCEPT !.res = Client!Singular(res.data[i])])
  BY DEF Client!Iterate
<1> DEFINE one == Client!Singular(res.data[i])
           c == [held[t] EXCEPT !.res = one]
<1>3. res.data[i] \in Client!Data
  BY <1>1 DEF Resources
<1>4. one \in Resources /\ ResourceFine(one)
  BY <1>3, SingularFine
<1>5. held' = [held EXCEPT ![t] = c] /\ sent' = None /\ UNCHANGED <<store, call, owner, builder>>
  BY <1>2 DEF Client!Holds
<1> HIDE DEF one, res
<1>6. c \in Composites /\ c.res = one
  BY <1>1, <1>4 DEF Composites
<1>7. listing = [u \in Threads |-> listing[u]]
  BY DEF ClientInv
<1> HIDE DEF c
<1> QED BY <1>1, <1>4, <1>5, <1>6, <1>7, ClientHolds

LEMMA BrokenRecord ==
    ASSUME NEW l, ListingRecord(l)
    PROVE  /\ ListingRecord([l EXCEPT !.broken = TRUE]) /\ [l EXCEPT !.broken = TRUE].broken
<1>1. PICK v : v = TRUE
  OBVIOUS
<1> DEFINE b == [l EXCEPT !.broken = v]
<1>2. PICK d, s, k, o : l = [due |-> d, seen |-> s, broken |-> k, done |-> o]
  BY DEF ListingRecord
<1>3. b = [due |-> d, seen |-> s, broken |-> v, done |-> o]
  BY <1>2
<1> HIDE DEF b
<1>4. b = [due |-> b.due, seen |-> b.seen, broken |-> b.broken, done |-> b.done] /\ b.broken = v
  BY <1>3
<1>5. ListingRecord(b) /\ b.broken
  BY <1>1, <1>4 DEF ListingRecord
<1> QED BY <1>1, <1>5 DEF b

LEMMA ClientEnriches ==
    ASSUME ClientInv, NEW t \in Threads, Client!Enrich(t)
    PROVE  ClientInv'
<1> DEFINE c == [held[t] EXCEPT !.response = None]
           l == IF listing[t] = None THEN None ELSE [listing[t] EXCEPT !.broken = TRUE]
<1>1. /\ held[t] \in Composites /\ ResourceFine(held[t].res)
      /\ held' = [held EXCEPT ![t] = c] /\ sent' = None /\ UNCHANGED <<store, call, owner, builder>>
      /\ listing' = [listing EXCEPT ![t] = l] /\ call[t] = None
  BY DEF Client!Idle, Client!Enrich, Client!Holds, ClientInv
<1>2. c \in Composites /\ c.res = held[t].res
  BY <1>1 DEF Composites
<1>3. /\ listing' = [u \in Threads |-> listing'[u]] /\ listing'[t] = l
      /\ \A u \in Threads \ {t} : listing'[u] = listing[u]
  BY <1>1 DEF ClientInv
<1>4. l # None => ListingRecord(l) /\ l.broken
  BY BrokenRecord DEF ClientInv
<1> HIDE DEF c, l
<1> QED BY <1>1, <1>2, <1>3, <1>4, ClientHolds

LEMMA ClientEndsListing ==
    ASSUME ClientInv, NEW t \in Threads, Client!EndListing(t)
    PROVE  ClientInv'
<1>1. /\ held' = [held EXCEPT ![t] = None] /\ sent' = None /\ UNCHANGED <<store, call, owner, builder>>
      /\ listing' = [listing EXCEPT ![t] = None] /\ call[t] = None
  BY DEF Client!EndListing, Client!Over
<1>2. /\ listing' = [u \in Threads |-> listing'[u]] /\ listing'[t] = None
      /\ \A u \in Threads \ {t} : listing'[u] = listing[u]
  BY <1>1 DEF ClientInv
<1> QED BY <1>1, <1>2, ClientHolds

LEMMA StoreSet ==
    ASSUME NEW s, StoreFine(s), NEW m \in ClientModels, NEW id \in DOMAIN s[m], NEW x \in Client!Contents
    PROVE  LET n == [s EXCEPT ![m][id] = x]
           IN  StoreFine(n) /\ (x # None => \A k \in ClientModels : Records(s, k) \in SUBSET Records(n, k))
<1> DEFINE f == [s[m] EXCEPT ![id] = x]
           n == [s EXCEPT ![m] = f]
<1>1. s = [k \in ClientModels |-> s[k]] /\ \A k \in ClientModels : s[k] \in [DOMAIN InitialData[k] -> Client!Contents]
  BY DEF StoreFine
<1>2. f \in [DOMAIN InitialData[m] -> Client!Contents]
  BY <1>1
<1>3. \A j \in DOMAIN s[m] : f[j] = IF j = id THEN x ELSE s[m][j]
  BY <1>1
<1> HIDE DEF f
<1>4. n = [k \in ClientModels |-> n[k]] /\ \A k \in ClientModels : n[k] = IF k = m THEN f ELSE s[k]
  BY <1>1
<1> HIDE DEF n
<1>5. StoreFine(n)
  BY <1>1, <1>2, <1>4 DEF StoreFine
<1>6. ASSUME x # None, NEW k \in ClientModels PROVE Records(s, k) \in SUBSET Records(n, k)
  BY <1>1, <1>2, <1>3, <1>4, <1>6 DEF Records
<1> QED BY <1>5, <1>6 DEF n, f

LEMMA DisturbedAre ==
    ASSUME ClientInv
    PROVE  /\ Client!Disturbed = [t \in Threads |-> Client!Disturbed[t]]
           /\ \A t \in Threads : Client!Disturbed[t] # None =>
                 ListingRecord(Client!Disturbed[t]) /\ Client!Disturbed[t].broken
<1>1. Client!Disturbed = [t \in Threads |-> IF listing[t] = None THEN None ELSE [listing[t] EXCEPT !.broken = TRUE]]
  BY DEF Client!Disturbed
<1> DEFINE b(t) == [listing[t] EXCEPT !.broken = TRUE]
<1>2. ASSUME NEW t \in Threads, Client!Disturbed[t] # None
      PROVE  ListingRecord(Client!Disturbed[t]) /\ Client!Disturbed[t].broken
  <2>1. listing[t] # None /\ Client!Disturbed[t] = b(t)
    BY <1>1, <1>2
  <2>2. ListingRecord(listing[t])
    BY <2>1 DEF ClientInv
  <2>3. ListingRecord(b(t)) /\ b(t).broken
    BY <2>2, BrokenRecord
  <2> HIDE DEF b
  <2> QED BY <2>1, <2>3
<1> QED BY <1>1, <1>2

LEMMA ClientRemoves ==
    ASSUME ClientInv, NEW m \in ClientModels, NEW id \in DOMAIN store[m], Client!StaffRemoves(m, id)
    PROVE  ClientInv'
<1>1. /\ store' = [store EXCEPT ![m][id] = None] /\ listing' = Client!Disturbed /\ sent' = None
      /\ UNCHANGED <<held, call, owner, builder>>
  BY DEF Client!StaffRemoves
<1>2. None \in Client!Contents
  BY DEF Client!Contents
<1>3. StoreFine(store')
  <2> PICK n : n = [store EXCEPT ![m][id] = None]
    OBVIOUS
  <2>1. StoreFine(n)
    BY <1>2, StoreSet DEF ClientInv
  <2> QED BY <1>1, <2>1
<1>4. /\ listing' = [t \in Threads |-> listing'[t]]
      /\ \A t \in Threads : listing'[t] # None => ListingRecord(listing'[t]) /\ listing'[t].broken
  BY <1>1, DisturbedAre
<1>5. Client!RequestsAsAsked' /\ Client!PutsOwnRecord'
  BY <1>1 DEF Client!RequestsAsAsked, Client!PutsOwnRecord
<1>6. \A t \in Threads : Met(t, call)' = Met(t, call)
  BY <1>1 DEF Met
<1> QED BY <1>1, <1>3, <1>4, <1>5, <1>6 DEF ClientInv

LEMMA FilledIs ==
    ASSUME NEW old \in Attributes, NEW a \in Client!Requests, AskFine(a), NEW model \in ClientModels,
           a.method \in Client!NoBody => old.json = None,
           a.method \notin NextOnes => old.url = None
    PROVE  LET b == Client!Filled(old, a, model)
           IN  /\ b \in Attributes
               /\ a.method \in Client!NoBody => b.json = None
               /\ a.method \notin NextOnes => b.url = None
               /\ FilledFine(a.method, b)
               /\ model = a.model => RequestOf(a.method, b) = a
<1> DEFINE json == IF a.method \in Client!NoBody THEN old.json ELSE a.json
           url == IF a.method \in NextOnes THEN a.model ELSE old.url
           b == Client!Filled(old, a, model)
<1>1. /\ old = [model |-> old.model, key |-> old.key, json |-> old.json, params |-> old.params, url |-> old.url]
      /\ old.json \in Client!Data \cup {None} /\ old.url \in ClientModels \cup {None}
  BY DEF Attributes
<1>2. b = [old EXCEPT !.model = model, !.key = a.key, !.params = a.params, !.json = json, !.url = url]
  BY DEF Client!Filled, NextOnes
<1>3. /\ a = [method |-> a.method, model |-> a.model, key |-> a.key, json |-> a.json, params |-> a.params]
      /\ a.method \in Client!Methods /\ a.model \in ClientModels /\ a.key \in Client!Ids \cup {None}
      /\ a.json \in Client!Data \cup {None} /\ a.params \in Nat \cup {None}
  BY ClientFacts DEF Client!Requests
<1>4. json \in Client!Data \cup {None} /\ url \in ClientModels \cup {None}
  BY <1>1, <1>3
<1>5. /\ a.method \in Client!NoBody => json = None /\ a.json = None
      /\ a.method \notin Client!NoBody => json = a.json /\ a.json \in Client!Data
      /\ a.method \in NextOnes => url = a.model
      /\ a.method \notin NextOnes => url = None
      /\ a.method \in Paged => a.params \in Nat \ {0}
  BY DEF AskFine
<1> HIDE DEF json, url, b
<1>6. b = [model |-> model, key |-> a.key, json |-> json, params |-> a.params, url |-> url]
  BY <1>1, <1>2
<1>7. b.model = model /\ b.key = a.key /\ b.json = json /\ b.params = a.params /\ b.url = url
  BY <1>6
<1>8. b \in Attributes
  BY <1>3, <1>4, <1>6 DEF Attributes
<1>9. FilledFine(a.method, b)
  BY <1>5, <1>7 DEF FilledFine
<1>10. model = a.model => RequestOf(a.method, b) = a
  <2> SUFFICES ASSUME model = a.model PROVE RequestOf(a.method, b) = a
    OBVIOUS
  <2>1. json = a.json /\ (IF b.url # None THEN b.url ELSE b.model) = a.model
    BY <1>5, <1>7
  <2>2. RequestOf(a.method, b)
          = [method |-> a.method, model |-> a.model, key |-> a.key, json |-> a.json, params |-> a.params]
    BY <1>7, <2>1 DEF RequestOf
  <2> QED BY <1>3, <2>2
<1> QED BY <1>5, <1>7, <1>8, <1>9, <1>10 DEF b

LEMMA ClientFills ==
    ASSUME ClientInv, NEW t \in Threads, Client!Fill(t)
    PROVE  ClientInv'
<1> DEFINE a == call[t].asked
           m == a.method
           b == Client!Filled(builder[m], a, owner[m])
<1>1. /\ call[t] # None /\ builder' = [builder EXCEPT ![m] = b] /\ call' = [call EXCEPT ![t].built = TRUE]
      /\ sent' = None /\ UNCHANGED <<store, held, owner, listing>>
  BY DEF Client!Fill
<1>2. /\ call \in [Threads -> Client!Calls \cup {None}] /\ call[t] \in Client!Calls
      /\ owner \in [Client!Methods -> ClientModels \cup {None}]
      /\ builder \in [Client!Methods -> Attributes]
  BY <1>1 DEF ClientInv
<1>3. PICK v : v = TRUE
  OBVIOUS
<1> DEFINE c == [call[t] EXCEPT !.built = v]
<1>4. c = [asked |-> a, built |-> v, shared |-> call[t].shared] /\ a \in Client!Requests
  BY <1>2 DEF Client!Calls
<1>5. c \in Client!Calls /\ c.asked = a /\ c.built = v /\ c.shared = call[t].shared
  BY <1>2, <1>3, <1>4 DEF Client!Calls
<1>6. call' = [call EXCEPT ![t] = c]
  BY <1>1, <1>3
<1> HIDE DEF c
<1>7. /\ call' \in [Threads -> Client!Calls \cup {None}] /\ c # None
      /\ \A u \in Threads : call'[u] = IF u = t THEN c ELSE call[u]
  BY <1>2, <1>5, <1>6, ClientFacts
<1>8. m \in Client!Methods
  BY <1>4 DEF Client!Requests
<1>9. CallFine(call[t], Met(t, call), owner[m], builder[m])
  BY <1>1 DEF ClientInv
<1>10. AskFine(a) /\ owner[m] \in ClientModels /\ (~call[t].shared => owner[m] = a.model)
  BY <1>9 DEF CallFine
<1>11. builder[m] \in Attributes /\ (m \in Client!NoBody => builder[m].json = None)
       /\ (m \notin NextOnes => builder[m].url = None)
  BY <1>2, <1>8 DEF ClientInv
<1>12. /\ b \in Attributes
       /\ m \in Client!NoBody => b.json = None
       /\ m \notin NextOnes => b.url = None
       /\ FilledFine(m, b)
       /\ owner[m] = a.model => RequestOf(m, b) = a
  BY <1>4, <1>10, <1>11, FilledIs
<1> HIDE DEF b
<1>13. builder' \in [Client!Methods -> Attributes]
       /\ \A n \in Client!Methods : builder'[n] = IF n = m THEN b ELSE builder[n]
  BY <1>1, <1>2, <1>8, <1>12
<1>14. \A n \in Client!Methods : /\ n \in Client!NoBody => builder'[n].json = None
                                 /\ n \notin NextOnes => builder'[n].url = None
  BY <1>12, <1>13 DEF ClientInv
<1>15. \A u \in Threads : /\ call'[u] # None <=> call[u] # None
                          /\ call[u] # None => call'[u].asked = call[u].asked /\ call'[u].shared = call[u].shared
  BY <1>1, <1>5, <1>7
<1>16. \A u \in Threads : call[u] # None => (Met(u, call') <=> Met(u, call))
  BY <1>15 DEF Met
<1>17. ASSUME NEW u \in Threads, call'[u] # None
       PROVE  LET n == call'[u].asked.method IN CallFine(call'[u], Met(u, call'), owner'[n], builder'[n])
  <2> DEFINE n == call[u].asked.method
  <2>1. call[u] # None /\ n \in Client!Methods
    <3>1. call[u] # None
      BY <1>15, <1>17
    <3>2. call[u] \in Client!Calls
      BY <1>2, <3>1
    <3> QED BY <3>1, <3>2 DEF Client!Calls, Client!Requests
  <2>2. CallFine(call[u], Met(u, call), owner[n], builder[n])
    BY <2>1 DEF ClientInv
  <2>3. CASE u = t
    <3>1. CallFine(c, Met(u, call), owner[m], b)
      BY <1>5, <1>10, <1>12, <2>2, <2>3 DEF CallFine
    <3>2. CallFine(c, Met(u, call'), owner[m], b)
      BY <1>16, <2>1, <3>1 DEF CallFine
    <3>3. call'[u] = c /\ c.asked.method = m /\ owner' = owner /\ builder'[m] = b
      BY <1>1, <1>5, <1>7, <1>8, <1>13, <2>3
    <3> QED BY <3>2, <3>3
  <2>4. CASE u # t /\ n = m
    <3>1. Met(u, call)
      BY <1>1, <2>4 DEF Met
    <3>2. CallFine(call[u], Met(u, call'), owner[n], b)
      BY <1>12, <1>16, <2>1, <2>2, <2>4, <3>1 DEF CallFine
    <3>3. call'[u] = call[u] /\ owner' = owner /\ builder'[n] = b
      BY <1>1, <1>7, <1>13, <2>1, <2>4
    <3> QED BY <3>2, <3>3
  <2>5. CASE u # t /\ n # m
    <3>1. CallFine(call[u], Met(u, call'), owner[n], builder[n])
      BY <1>16, <2>1, <2>2 DEF CallFine
    <3>2. call'[u] = call[u] /\ owner' = owner /\ builder'[n] = builder[n]
      BY <1>1, <1>7, <1>13, <2>1, <2>5
    <3> QED BY <3>1, <3>2
  <2> QED BY <2>3, <2>4, <2>5
<1>18. ASSUME NEW u \in Threads, listing'[u] # None
       PROVE  /\ ListingRecord(listing'[u])
              /\ ~listing'[u].broken => ListingFine(listing'[u], held'[u], call'[u], store')
  <2>1. listing' = listing /\ held' = held /\ store' = store
    BY <1>1
  <2>2. /\ ListingRecord(listing[u])
        /\ ~listing[u].broken => ListingFine(listing[u], held[u], call[u], store)
    BY <1>18, <2>1 DEF ClientInv
  <2>3. /\ call'[u] # None <=> call[u] # None
        /\ call[u] # None => call'[u].asked = call[u].asked
    BY <1>15
  <2>4. ListingFine(listing[u], held[u], call[u], store) => ListingFine(listing[u], held[u], call'[u], store)
    BY <2>3 DEF ListingFine
  <2> QED BY <2>1, <2>2, <2>4
<1>19. Client!RequestsAsAsked' /\ Client!PutsOwnRecord'
  BY <1>1 DEF Client!RequestsAsAsked, Client!PutsOwnRecord
<1>20. /\ StoreFine(store') /\ held' = [u \in Threads |-> held'[u]]
       /\ \A u \in Threads : held'[u] # None => held'[u] \in Composites /\ ResourceFine(held'[u].res)
       /\ owner' \in [Client!Methods -> ClientModels \cup {None}]
       /\ listing' = [u \in Threads |-> listing'[u]]
  BY <1>1 DEF ClientInv
<1>21. \A u \in Threads : call'[u] # None => held'[u] # None
  BY <1>1, <1>15 DEF ClientInv
<1> HIDE DEF a, m
<1> QED BY <1>7, <1>13, <1>14, <1>17, <1>18, <1>19, <1>20, <1>21 DEF ClientInv

(* What a caller asks for.                                                 *)
LEMMA AskIs ==
    ASSUME NEW t \in Threads, NEW m \in Client!Methods, held[t] \in Composites, ResourceFine(held[t].res),
           Client!Callable(t, m)
    PROVE  LET a == Client!Ask(t, m)
           IN  /\ a \in Client!Requests /\ AskFine(a)
               /\ a.method = m /\ a.model = held[t].model
               /\ m = "all" => a.params = 1
               /\ m \in NextOnes => held[t].response # None /\ held[t].response.page \in Nat
                                    /\ a.params = held[t].response.page + 1
<1> DEFINE c == held[t]
           res == c.res
           key == IF m \in Client!Keyed THEN res.key ELSE None
           json == IF m \in Client!NoBody THEN None ELSE res.data[1]
           params == CASE m = "all" -> 1
                       [] m \in {"next_v2", "next_v3"} -> c.response.page + 1
                       [] OTHER -> None
           a == Client!Ask(t, m)
<1>1. a = [method |-> m, model |-> c.model, key |-> key, json |-> json, params |-> params]
  BY DEF Client!Ask
<1>2. c.model \in ClientModels /\ res \in Resources /\ c.response \in Client!Responses \cup {None}
  BY DEF Composites
<1>3. m \in {"next_v2", "next_v3"} => c.response \in Client!Responses /\ c.response.page \in Nat
  <2> SUFFICES ASSUME m \in {"next_v2", "next_v3"} PROVE c.response \in Client!Responses /\ c.response.page \in Nat
    OBVIOUS
  <2>1. Client!NextPage(t)
    BY DEF Client!Callable
  <2>2. c.response # None /\ c.response.page # None
    BY <2>1 DEF Client!NextPage
  <2> QED BY <1>2, <2>2 DEF Client!Responses
<1>4. m \notin Client!NoBody => m \in {"publish", "put"}
  BY DEF Client!Methods, Client!NoBody
<1>5. m \in {"publish", "put"} => res.kind = "one"
  BY DEF Client!Callable
<1>6. m \notin Client!NoBody => res.data[1] \in Client!Data /\ OwnId(res.data[1], res.key)
  BY <1>2, <1>4, <1>5 DEF Resources, ResourceFine
<1>7. key \in Client!Ids \cup {None} /\ (m = "put" => key = res.key)
  BY <1>2 DEF Resources, Client!Keyed
<1>8. json \in Client!Data \cup {None}
  BY <1>6
<1>9. /\ params \in Nat \cup {None}
      /\ m = "all" => params = 1
      /\ m \in {"next_v2", "next_v3"} => params = c.response.page + 1 /\ params \in Nat \ {0}
  <2>1. CASE m = "all"
    BY <2>1
  <2>2. CASE m \in {"next_v2", "next_v3"}
    <3>1. params = c.response.page + 1
      BY <2>2
    <3> HIDE DEF params
    <3> QED BY <1>3, <2>2, <3>1
  <2>3. CASE m \notin {"all", "next_v2", "next_v3"}
    <3>1. params = None
      BY <2>3
    <3> HIDE DEF params
    <3> QED BY <2>3, <3>1
  <2> QED BY <2>1, <2>2, <2>3
<1>10. m \notin Client!NoBody => json = res.data[1]
  OBVIOUS
<1>11. m \in Client!NoBody => json = None
  OBVIOUS
<1> HIDE DEF key, json, params, a, res
<1>12. a.method = m /\ a.model = c.model /\ a.key = key /\ a.json = json /\ a.params = params
  BY <1>1
<1>13. a \in Client!Requests
  BY <1>1, <1>2, <1>7, <1>8, <1>9, ClientFacts DEF Client!Requests
<1>14. m = "put" => m \notin Client!NoBody
  BY DEF Client!NoBody
<1>15. AskFine(a)
  BY <1>6, <1>7, <1>9, <1>10, <1>11, <1>12, <1>14 DEF AskFine, Paged
<1> QED BY <1>3, <1>9, <1>12, <1>13, <1>15, ClientFacts DEF NextOnes, a

(* A listing begins with every record to come.                             *)
LEMMA AllToCome ==
    ASSUME NEW s, StoreFine(s), NEW m \in ClientModels
    PROVE  Records(s, m) \subseteq After(Records(s, m), (1 - 1) * PageSize)
<1> DEFINE S == Records(s, m)
           z == (1 - 1) * PageSize
<1>1. IsFiniteSet(S) /\ S \subseteq Nat
  BY RecordSets
<1>2. z = 0
  BY ClientFacts
<1> HIDE DEF S, z
<1>3. Cardinality(S) \in Nat
  BY <1>1, FS_CardinalityType
<1>4. \A id \in S : Rank(S, id) > z
  <2> TAKE id \in S
  <2> PICK k : k = Rank(S, id)
    OBVIOUS
  <2>1. k \in 1..Cardinality(S)
    BY <1>1, RankIs
  <2> QED BY <1>2, <1>3, <2>1
<1> QED BY <1>4 DEF After, S, z

LEMMA ClientCalls ==
    ASSUME ClientInv, NEW t \in Threads, NEW m \in Client!Methods, Client!Call(t, m)
    PROVE  ClientInv'
<1> DEFINE others == {u \in Threads : call[u] # None /\ call[u].asked.method = m}
           a == Client!Ask(t, m)
           new == [due |-> Records(store, held[t].model), seen |-> {}, broken |-> FALSE, done |-> FALSE]
<1>1. PICK yes, no, sh : yes = TRUE /\ no = FALSE /\ sh = (others # {})
  OBVIOUS
<1> DEFINE c == [asked |-> a, built |-> no, shared |-> sh]
           d(u) == [call[u] EXCEPT !.shared = yes]
<1>2. /\ held[t] # None /\ held[t] \in Composites /\ ResourceFine(held[t].res) /\ Client!Callable(t, m)
      /\ call[t] = None
      /\ listing[t] # None => m \in NextOnes
      /\ call' = [u \in Threads |-> IF u = t THEN c ELSE IF u \in others THEN d(u) ELSE call[u]]
      /\ owner' = [owner EXCEPT ![m] = held[t].model]
      /\ listing' = [listing EXCEPT ![t] = IF m = "all" THEN new ELSE listing[t]]
      /\ sent' = None /\ UNCHANGED <<store, held, builder>>
  BY <1>1 DEF Client!Call, Client!Idle, ClientInv, NextOnes, Records
<1>3. /\ a \in Client!Requests /\ AskFine(a) /\ a.method = m /\ a.model = held[t].model
      /\ m = "all" => a.params = 1
      /\ m \in NextOnes => held[t].response # None /\ held[t].response.page \in Nat
                           /\ a.params = held[t].response.page + 1
  BY <1>2, AskIs
<1>4. /\ call \in [Threads -> Client!Calls \cup {None}]
      /\ owner \in [Client!Methods -> ClientModels \cup {None}]
      /\ None \notin Client!Calls
  BY ClientFacts DEF ClientInv
<1>5. c \in Client!Calls /\ c.asked = a /\ c.built = FALSE /\ c.shared = (others # {})
  BY <1>1, <1>3 DEF Client!Calls
<1>6. ASSUME NEW u \in others
      PROVE  /\ d(u) \in Client!Calls /\ d(u).asked = call[u].asked /\ d(u).shared = TRUE
             /\ d(u).built = call[u].built
  <2>1. call[u] \in Client!Calls
    BY <1>4
  <2> QED BY <1>1, <2>1 DEF Client!Calls
<1>7. t \notin others
  BY <1>2
<1> HIDE DEF a, c, d
<1>8. /\ call' \in [Threads -> Client!Calls \cup {None}]
      /\ call'[t] = c
      /\ \A u \in others : call'[u] = d(u)
      /\ \A u \in Threads \ {t} : u \notin others => call'[u] = call[u]
  BY <1>2, <1>4, <1>5, <1>6, <1>7
<1>9. \A u \in Threads \ {t} : /\ call'[u] # None <=> call[u] # None
                               /\ call[u] # None => call'[u].asked = call[u].asked
  BY <1>4, <1>6, <1>8
<1>10. /\ held[t].model \in ClientModels
       /\ owner' \in [Client!Methods -> ClientModels \cup {None}]
       /\ \A n \in Client!Methods : owner'[n] = IF n = m THEN held[t].model ELSE owner[n]
  BY <1>2, <1>4 DEF Composites
<1>11. ASSUME NEW u \in Threads, call'[u] # None
       PROVE  LET n == call'[u].asked.method IN CallFine(call'[u], Met(u, call'), owner'[n], builder'[n])
  <2>1. CASE u = t
    <3>1. Met(t, call') => others # {}
      BY <1>3, <1>5, <1>8, <1>9 DEF Met
    <3>2. CallFine(c, Met(t, call'), held[t].model, builder[m])
      BY <1>3, <1>5, <1>10, <3>1 DEF CallFine
    <3>3. call'[u] = c /\ c.asked.method = m /\ owner'[m] = held[t].model /\ builder' = builder
      BY <1>2, <1>3, <1>5, <1>8, <1>10, <2>1
    <3> QED BY <2>1, <3>2, <3>3
  <2>2. CASE u \in others
    <3>1. call[u] # None /\ call[u].asked.method = m
      BY <2>2
    <3>2. CallFine(call[u], Met(u, call), owner[m], builder[m])
      BY <3>1 DEF ClientInv
    <3>3. CallFine(d(u), Met(u, call'), held[t].model, builder[m])
      BY <1>6, <1>10, <2>2, <3>2 DEF CallFine
    <3>4. call'[u] = d(u) /\ d(u).asked.method = m /\ owner'[m] = held[t].model /\ builder' = builder
      BY <1>2, <1>6, <1>8, <1>10, <2>2, <3>1
    <3> QED BY <3>3, <3>4
  <2>3. CASE u # t /\ u \notin others
    <3> DEFINE n == call[u].asked.method
    <3>1. call'[u] = call[u] /\ call[u] # None
      BY <1>8, <1>11, <2>3
    <3>2. n # m
      BY <2>3, <3>1
    <3>3. n \in Client!Methods
      <4>1. call[u] \in Client!Calls
        BY <1>4, <3>1
      <4> QED BY <4>1 DEF Client!Calls, Client!Requests
    <3>4. CallFine(call[u], Met(u, call), owner[n], builder[n])
      BY <3>1 DEF ClientInv
    <3>5. Met(u, call') <=> Met(u, call)
      <4>1. call'[t].asked.method = m /\ call[t] = None
        BY <1>2, <1>3, <1>5, <1>8
      <4> QED BY <1>9, <3>1, <3>2, <4>1 DEF Met
    <3>6. CallFine(call[u], Met(u, call'), owner[n], builder[n])
      BY <3>4, <3>5 DEF CallFine
    <3>7. owner'[n] = owner[n] /\ builder' = builder
      BY <1>2, <1>10, <3>2, <3>3
    <3> QED BY <3>1, <3>6, <3>7
  <2> QED BY <2>1, <2>2, <2>3
<1>12. /\ listing' = [u \in Threads |-> listing'[u]]
       /\ listing'[t] = IF m = "all" THEN new ELSE listing[t]
       /\ \A u \in Threads \ {t} : listing'[u] = listing[u]
  BY <1>2 DEF ClientInv
<1>13. ASSUME NEW u \in Threads, listing'[u] # None
       PROVE  /\ ListingRecord(listing'[u])
              /\ ~listing'[u].broken => ListingFine(listing'[u], held[u], call'[u], store)
  <2>1. CASE u # t
    <3>1. /\ ListingRecord(listing[u])
          /\ ~listing[u].broken => ListingFine(listing[u], held[u], call[u], store)
      BY <1>12, <1>13, <2>1 DEF ClientInv
    <3>2. ListingFine(listing[u], held[u], call[u], store) => ListingFine(listing[u], held[u], call'[u], store)
      BY <1>9, <2>1 DEF ListingFine
    <3> QED BY <1>12, <2>1, <3>1, <3>2
  <2>2. CASE u = t /\ m = "all"
    <3>1. listing'[u] = new
      BY <1>12, <2>2
    <3>2. /\ new.due = Records(store, held[t].model) /\ new.seen = {} /\ new.broken = FALSE
          /\ ListingRecord(new)
      BY DEF ListingRecord
    <3>3. Records(store, held[t].model) \subseteq After(Records(store, held[t].model), (1 - 1) * PageSize)
      BY <1>10, AllToCome DEF ClientInv
    <3> HIDE DEF new
    <3>4. ListingFine(new, held[t], c, store)
      BY <1>2, <1>3, <1>4, <1>5, <2>2, <3>2, <3>3 DEF ListingFine, Paged
    <3> QED BY <1>8, <2>2, <3>1, <3>2, <3>4
  <2>3. CASE u = t /\ m # "all"
    <3>1. listing'[u] = listing[t] /\ listing[t] # None /\ m \in NextOnes
      BY <1>2, <1>12, <1>13, <2>3
    <3>2. /\ ListingRecord(listing[t])
          /\ ~listing[t].broken => ListingFine(listing[t], held[t], None, store)
      BY <1>2, <3>1 DEF ClientInv
    <3>3. a.params - 1 = held[t].response.page
      BY <1>3, <3>1
    <3>4. m \in Paged
      BY <3>1 DEF Paged, NextOnes
    <3>5. ListingFine(listing[t], held[t], None, store) => ListingFine(listing[t], held[t], c, store)
      BY <1>3, <1>4, <1>5, <3>3, <3>4 DEF ListingFine
    <3> QED BY <1>8, <2>3, <3>1, <3>2, <3>5
  <2> QED BY <2>1, <2>2, <2>3
<1>14. Client!RequestsAsAsked' /\ Client!PutsOwnRecord'
  BY <1>2 DEF Client!RequestsAsAsked, Client!PutsOwnRecord
<1>15. /\ StoreFine(store') /\ held' = [u \in Threads |-> held'[u]]
       /\ \A u \in Threads : held'[u] # None => held'[u] \in Composites /\ ResourceFine(held'[u].res)
       /\ builder' \in [Client!Methods -> Attributes]
       /\ \A n \in Client!Methods : /\ n \in Client!NoBody => builder'[n].json = None
                                    /\ n \notin NextOnes => builder'[n].url = None
  BY <1>2 DEF ClientInv
<1>16. store' = store /\ held' = held
  BY <1>2
<1>17. ASSUME NEW u \in Threads, listing'[u] # None
       PROVE  /\ ListingRecord(listing'[u])
              /\ ~listing'[u].broken => ListingFine(listing'[u], held'[u], call'[u], store')
  BY <1>13, <1>16, <1>17
<1>18. \A u \in Threads : call'[u] # None => held'[u] # None
  BY <1>2, <1>9 DEF ClientInv
<1> HIDE DEF others, new
<1> QED BY <1>8, <1>10, <1>11, <1>12, <1>14, <1>15, <1>17, <1>18 DEF ClientInv

RequestFine(r) ==
    /\ r.method \in Client!Methods /\ r.model \in ClientModels
    /\ r.key \in Client!Ids \cup {None} /\ r.json \in Client!Data \cup {None}
    /\ r.params \in Nat \cup {None}
    /\ r.method \notin Client!NoBody => r.json \in Client!Data
    /\ r.method \in Paged => r.params \in Nat \ {0}

LEMMA RequestIs ==
    ASSUME NEW m \in Client!Methods, builder[m] \in Attributes, FilledFine(m, builder[m])
    PROVE  LET r == Client!Request(m) IN RequestFine(r) /\ r.method = m /\ r = RequestOf(m, builder[m])
<1> DEFINE b == builder[m]
           model == IF b.url # None THEN b.url ELSE b.model
           r == Client!Request(m)
<1>1. model \in ClientModels /\ b.key \in Client!Ids \cup {None} /\ b.json \in Client!Data \cup {None}
      /\ b.params \in Nat \cup {None}
  BY DEF Attributes, FilledFine
<1>2. r = [method |-> m, model |-> model, key |-> b.key, json |-> b.json, params |-> b.params]
      /\ r = RequestOf(m, b)
  BY DEF Client!Request, RequestOf
<1> HIDE DEF model, r
<1>3. r.method = m /\ r.model = model /\ r.key = b.key /\ r.json = b.json /\ r.params = b.params
  BY <1>2
<1> QED BY <1>1, <1>2, <1>3 DEF RequestFine, FilledFine, r

(* What the store answers is made of records, and what it does to them.    *)
AnswerFine(r, answer) ==
    /\ answer # None => answer \in Seq(Client!Data)
    /\ r.method \in {"publish", "put"} /\ answer # None =>
          answer[1].id \in DOMAIN store[r.model] /\ answer[1].body \in Client!Contents \ {None}
    /\ r.method = "delete" /\ answer # None => r.key \in DOMAIN store[r.model]
    /\ r.method \in Paged /\ answer # None => answer = Client!Page(r.model, r.params)

LEMMA AnswerIs ==
    ASSUME StoreFine(store), NEW r, RequestFine(r)
    PROVE  AnswerFine(r, Client!Answer(r))
<1> DEFINE s == store[r.model]
           x == Client!Answer(r)
<1>1. \A id \in DOMAIN s : id \in Client!Ids /\ s[id] \in Client!Contents
  BY RecordSets DEF RequestFine
<1>2. ASSUME NEW id \in DOMAIN s, NEW b \in Client!Contents
      PROVE  /\ <<Client!Datum(id, b)>> \in Seq(Client!Data)
             /\ <<Client!Datum(id, b)>>[1].id = id /\ <<Client!Datum(id, b)>>[1].body = b
  BY <1>1 DEF Client!Datum, Client!Data
<1>3. r.json \in Client!Data => r.json.body \in Client!Contents
  BY DEF Client!Data
<1>4. CASE r.method \in Paged
  <2>1. x = Client!Page(r.model, r.params)
    BY <1>4 DEF Client!Answer, Client!Keyed, Paged
  <2>2. Client!Page(r.model, r.params) \in Seq(Client!Data)
    BY <1>4, PageIs DEF RequestFine
  <2> QED BY <1>4, <2>1, <2>2 DEF AnswerFine, Paged
<1>5. CASE r.method = "publish"
  <2>1. x = IF Client!Free(r.model) = {} \/ r.json.body = None THEN None
            ELSE <<Client!Datum(CHOOSE id \in Client!Free(r.model) : TRUE, r.json.body)>>
    BY <1>5 DEF Client!Answer, Client!Keyed
  <2>2. CASE Client!Free(r.model) = {} \/ r.json.body = None
    BY <1>5, <2>1, <2>2 DEF AnswerFine, Paged
  <2>3. CASE ~(Client!Free(r.model) = {} \/ r.json.body = None)
    <3> PICK id : id = CHOOSE i \in Client!Free(r.model) : TRUE
      OBVIOUS
    <3>1. id \in Client!Free(r.model)
      BY <2>3
    <3>2. id \in DOMAIN s /\ r.json.body \in Client!Contents
      BY <1>3, <1>5, <3>1 DEF Client!Free, RequestFine, Client!NoBody
    <3>3. x = <<Client!Datum(id, r.json.body)>>
      BY <2>1, <2>3
    <3> HIDE DEF x
    <3>4. x \in Seq(Client!Data) /\ x[1].id = id /\ x[1].body = r.json.body
      BY <1>2, <3>2, <3>3
    <3> QED BY <1>5, <2>3, <3>2, <3>4 DEF AnswerFine, Paged, x
  <2> QED BY <2>2, <2>3
<1>6. CASE r.method \in Client!Keyed /\ ~Client!Alive(r)
  <2>1. x = None
    BY <1>6 DEF Client!Answer, Client!Keyed
  <2> QED BY <2>1 DEF AnswerFine
<1>7. CASE r.method = "get" /\ Client!Alive(r)
  <2>1. x = <<Client!Datum(r.key, s[r.key])>>
    BY <1>7 DEF Client!Answer, Client!Keyed
  <2>2. r.key \in DOMAIN s
    BY <1>7 DEF Client!Alive
  <2>3. x \in Seq(Client!Data)
    BY <1>1, <1>2, <2>1, <2>2
  <2> QED BY <1>7, <2>3 DEF AnswerFine, Paged
<1>8. CASE r.method = "put" /\ Client!Alive(r)
  <2> DEFINE b == IF r.json.body = None THEN s[r.key] ELSE r.json.body
  <2>1. x = <<Client!Datum(r.key, b)>>
    BY <1>8 DEF Client!Answer, Client!Keyed
  <2>2. r.key \in DOMAIN s /\ b \in Client!Contents \ {None}
    BY <1>1, <1>3, <1>8 DEF Client!Alive, RequestFine, Client!NoBody
  <2> HIDE DEF b, x
  <2>3. x \in Seq(Client!Data) /\ x[1].id = r.key /\ x[1].body = b
    BY <1>2, <2>1, <2>2
  <2> QED BY <1>8, <2>2, <2>3 DEF AnswerFine, Paged, x
<1>9. CASE r.method = "delete" /\ Client!Alive(r)
  <2>1. x = <<>>
    BY <1>9 DEF Client!Answer, Client!Keyed
  <2>2. r.key \in DOMAIN s
    BY <1>9 DEF Client!Alive
  <2> QED BY <1>9, <2>1, <2>2 DEF AnswerFine, Paged
<1>10. \/ r.method \in Paged \/ r.method = "publish" \/ r.method \in {"get", "put", "delete"}
  BY DEF RequestFine, Client!Methods, Paged
<1> HIDE DEF x, s
<1> QED BY <1>4, <1>5, <1>6, <1>7, <1>8, <1>9, <1>10 DEF Client!Keyed, x

LEMMA EffectIs ==
    ASSUME StoreFine(store), NEW r, RequestFine(r), NEW answer, AnswerFine(r, answer)
    PROVE  LET s == Client!Effect(r, answer)
           IN  /\ StoreFine(s)
               /\ r.method # "delete" => \A k \in ClientModels : Records(store, k) \in SUBSET Records(s, k)
               /\ r.method \in Paged => s = store
<1> DEFINE s == Client!Effect(r, answer)
<1>1. CASE answer = None \/ r.method \notin {"publish", "put", "delete"}
  <2>1. s = store
    BY <1>1 DEF Client!Effect
  <2> QED BY <2>1
<1>2. CASE answer # None /\ r.method = "delete"
  <2> PICK m, id, n : m = r.model /\ id = r.key /\ n = [store EXCEPT ![m][id] = None]
    OBVIOUS
  <2>1. s = n
    BY <1>2 DEF Client!Effect
  <2>2. m \in ClientModels /\ id \in DOMAIN store[m] /\ None \in Client!Contents
    BY <1>2 DEF AnswerFine, RequestFine, Client!Contents
  <2>3. StoreFine(n)
    BY <2>2, StoreSet
  <2> QED BY <1>2, <2>1, <2>3 DEF Paged
<1>3. CASE answer # None /\ r.method \in {"publish", "put"}
  <2> PICK m, id, b, n : /\ m = r.model /\ id = answer[1].id /\ b = answer[1].body
                         /\ n = [store EXCEPT ![m][id] = b]
    OBVIOUS
  <2>1. s = n
    BY <1>3 DEF Client!Effect
  <2>2. m \in ClientModels /\ id \in DOMAIN store[m] /\ b \in Client!Contents /\ b # None
    BY <1>3 DEF AnswerFine, RequestFine
  <2>3. StoreFine(n) /\ \A k \in ClientModels : Records(store, k) \in SUBSET Records(n, k)
    BY <2>2, StoreSet
  <2> QED BY <1>3, <2>1, <2>3 DEF Paged
<1> QED BY <1>1, <1>2, <1>3

LEMMA ResultIs ==
    ASSUME NEW t, held[t] \in Composites, NEW r, RequestFine(r), NEW answer, AnswerFine(r, answer)
    PROVE  LET c == Client!Result(t, r, answer)
           IN  /\ c \in Composites /\ ResourceFine(c.res) /\ c.model = held[t].model
               /\ c.response \in Client!Responses /\ c.response.page = r.params
               /\ c.response.more <=> answer # None /\ r.params # None /\ Client!HasNextPage(r)
               /\ c.res = Client!Nil => answer \in {None, <<>>}
<1> DEFINE res == IF answer = None THEN Client!Nil ELSE Client!FromData(answer)
           c == Client!Result(t, r, answer)
<1>1. PICK v, resp : /\ v = (answer # None /\ r.params # None /\ Client!HasNextPage(r))
                     /\ resp = [page |-> r.params, more |-> v]
  OBVIOUS
<1>2. c = [model |-> held[t].model, res |-> res, response |-> resp]
  BY <1>1 DEF Client!Result, Client!Composite
<1>3. v \in BOOLEAN
  BY <1>1
<1>4. resp \in Client!Responses /\ resp.page = r.params /\ resp.more = v
  BY <1>1, <1>3 DEF RequestFine, Client!Responses
<1>5. /\ res \in Resources /\ ResourceFine(res)
      /\ res = Client!Nil => answer \in {None, <<>>}
  <2>1. CASE res = Client!Nil /\ answer \in {None, <<>>}
    <3>1. Client!Nil \in Resources /\ ResourceFine(Client!Nil)
      BY DEF Client!Nil, Resources, ResourceFine
    <3> HIDE DEF res
    <3> QED BY <2>1, <3>1
  <2>2. CASE answer \notin {None, <<>>} /\ Len(answer) = 1
    <3>1. res = Client!Singular(answer[1]) /\ answer[1] \in Client!Data
      BY <2>2 DEF Client!FromData, AnswerFine
    <3>2. Client!Singular(answer[1]).kind = "one" /\ Client!Singular(answer[1]) \in Resources
          /\ ResourceFine(Client!Singular(answer[1]))
      BY <3>1, SingularFine
    <3>3. Client!Nil.kind = "nil"
      BY DEF Client!Nil
    <3>4. res # Client!Nil
      BY <3>1, <3>2, <3>3
    <3> HIDE DEF res
    <3> QED BY <3>1, <3>2, <3>4
  <2>3. CASE answer \notin {None, <<>>} /\ Len(answer) # 1
    <3>1. res = [kind |-> "many", data |-> answer, key |-> None] /\ answer \in Seq(Client!Data)
      BY <2>3 DEF Client!FromData, AnswerFine
    <3> HIDE DEF res
    <3>2. res.kind = "many" /\ Client!Nil.kind = "nil"
      BY <3>1 DEF Client!Nil
    <3> QED BY <3>1, <3>2 DEF Resources, ResourceFine
  <2>4. answer \in {None, <<>>} => res = Client!Nil
    BY DEF Client!FromData
  <2> QED BY <2>1, <2>2, <2>3, <2>4
<1> HIDE DEF res, c
<1>6. c.model = held[t].model /\ c.res = res /\ c.response = resp
  BY <1>2
<1>7. c \in Composites
  BY <1>2, <1>4, <1>5 DEF Composites
<1> QED BY <1>1, <1>4, <1>5, <1>6, <1>7 DEF c

(* Records that come do not disturb a listing.                             *)
LEMMA ListingGrows ==
    ASSUME NEW l, NEW c, NEW k, NEW s, NEW n, ListingFine(l, c, k, s), StoreFine(n),
           \A m \in ClientModels : Records(s, m) \in SUBSET Records(n, m),
           k # None => AskFine(k.asked)
    PROVE  ListingFine(l, c, k, n)
<1>1. c \in Composites /\ c.model \in ClientModels
  BY DEF ListingFine, Composites
<1>2. ASSUME NEW p \in Nat \ {0}
      PROVE  /\ After(Records(s, c.model), p * PageSize) \subseteq After(Records(n, c.model), p * PageSize)
             /\ After(Records(s, c.model), (p - 1) * PageSize)
                  \subseteq After(Records(n, c.model), (p - 1) * PageSize)
  <2> PICK a, b : a = p * PageSize /\ b = (p - 1) * PageSize
    OBVIOUS
  <2>1. a \in Nat /\ b \in Nat
    BY ClientFacts
  <2>2. IsFiniteSet(Records(n, c.model)) /\ Records(n, c.model) \subseteq Nat
        /\ Records(s, c.model) \in SUBSET Records(n, c.model)
    BY <1>1, RecordSets
  <2>3. After(Records(s, c.model), a) \subseteq After(Records(n, c.model), a)
    BY <2>1, <2>2, AfterGrows
  <2>4. After(Records(s, c.model), b) \subseteq After(Records(n, c.model), b)
    BY <2>1, <2>2, AfterGrows
  <2> QED BY <2>3, <2>4
<1>3. CASE k # None
  <2> PICK p : p = k.asked.params
    OBVIOUS
  <2>1. /\ k.asked.method \in Paged /\ k.asked.model = c.model /\ p \in Nat \ {0}
        /\ l.due \subseteq l.seen \cup After(Records(s, c.model), (p - 1) * PageSize)
    BY <1>3 DEF ListingFine, AskFine
  <2>2. l.due \subseteq l.seen \cup After(Records(n, c.model), (p - 1) * PageSize)
    BY <1>2, <2>1
  <2> QED BY <1>1, <1>3, <2>1, <2>2 DEF ListingFine
<1>4. CASE k = None
  <2> PICK p : p = c.response.page
    OBVIOUS
  <2>1. /\ c.response \in Client!Responses /\ p \in Nat \ {0}
        /\ l.due \subseteq l.seen \cup After(Records(s, c.model), p * PageSize)
        /\ l.done \/ (c.model \in V3Models /\ ~c.response.more) => l.due \subseteq l.seen
    BY <1>4 DEF ListingFine
  <2>2. l.due \subseteq l.seen \cup After(Records(n, c.model), p * PageSize)
    BY <1>2, <2>1
  <2> QED BY <1>1, <1>4, <2>1, <2>2 DEF ListingFine
<1> QED BY <1>3, <1>4

(* The listing of t after an answer to what t asked for.                   *)
LEMMA SeenIs ==
    ASSUME ClientInv, NEW t \in Threads, listing[t] # None, call[t] # None,
           NEW r, RequestFine(r), ~call[t].shared => r = call[t].asked,
           NEW answer, AnswerFine(r, answer),
           held'[t] = Client!Result(t, r, answer)
    PROVE  LET l == Client!Seen(t, answer)
           IN  ListingRecord(l) /\ (~l.broken => ListingFine(l, held'[t], None, store))
<1> DEFINE o == listing[t]
           c == held'[t]
           ids == IF answer = None THEN {} ELSE {answer[i].id : i \in DOMAIN answer}
           l == Client!Seen(t, answer)
<1>1. PICK d, sn, br, dn : o = [due |-> d, seen |-> sn, broken |-> br, done |-> dn]
  BY DEF ClientInv, ListingRecord
<1>2. PICK bv, dv : bv = (o.broken \/ answer = None \/ call[t].shared) /\ dv = (c.res = Client!Nil)
  OBVIOUS
<1>3. l = [o EXCEPT !.seen = o.seen \cup ids, !.broken = bv, !.done = dv]
  BY <1>2 DEF Client!Seen
<1> HIDE DEF o, c, ids, l
<1>4. l = [due |-> d, seen |-> sn \cup ids, broken |-> bv, done |-> dv]
  BY <1>1, <1>3
<1>5. l.due = d /\ l.seen = sn \cup ids /\ l.broken = bv /\ l.done = dv /\ o.due = d /\ o.seen = sn
  BY <1>1, <1>4
<1>6. bv \in BOOLEAN
  BY <1>2
<1>7. ListingRecord(l)
  BY <1>4, <1>5, <1>6 DEF ListingRecord
<1>8. ASSUME ~l.broken PROVE ListingFine(l, c, None, store)
  <2>1. ~o.broken /\ answer # None /\ ~call[t].shared /\ (l.done => c.res = Client!Nil)
    BY <1>2, <1>5, <1>8
  <2>2. r = call[t].asked
    BY <2>1
  <2>3. ListingFine(o, held[t], call[t], store)
    BY <2>1 DEF ClientInv, o
  <2>4. /\ held[t] \in Composites /\ r.method \in Paged /\ r.model = held[t].model
        /\ o.due \subseteq o.seen \cup After(Records(store, r.model), (r.params - 1) * PageSize)
    BY <2>2, <2>3 DEF ListingFine
  <2>5. /\ c \in Composites /\ c.model = r.model
        /\ c.response \in Client!Responses /\ c.response.page = r.params
        /\ c.response.more <=> r.params # None /\ Client!HasNextPage(r)
        /\ c.res = Client!Nil => answer = <<>>
    BY <2>1, <2>4, ResultIs DEF c
  <2> PICK m, p, S, a, b : /\ m = r.model /\ p = r.params /\ S = Records(store, m)
                           /\ a = (p - 1) * PageSize /\ b = p * PageSize
    OBVIOUS
  <2>6. m \in ClientModels /\ p \in Nat \ {0} /\ p # None /\ StoreFine(store)
    BY <2>4, ClientFacts DEF RequestFine, ClientInv
  <2>7. answer = Client!Page(m, p)
    BY <2>1, <2>4 DEF AnswerFine
  <2>8. /\ After(S, a) \subseteq {answer[i].id : i \in DOMAIN answer} \cup After(S, b)
        /\ answer = <<>> => After(S, a) = {}
        /\ ~(p * PageSize < Len(Client!Listed(m))) => After(S, b) = {}
    <3>1. LET q == Client!Page(m, p)
              R == Records(store, m)
          IN  /\ After(R, (p - 1) * PageSize) \subseteq {q[i].id : i \in DOMAIN q} \cup After(R, p * PageSize)
              /\ q = <<>> => After(R, (p - 1) * PageSize) = {}
              /\ ~(p * PageSize < Len(Client!Listed(m))) => After(R, p * PageSize) = {}
      BY ONLY <2>6, PageIs
    <3> QED BY <2>7, <3>1
  <2>9. ids = {answer[i].id : i \in DOMAIN answer}
    BY <2>1 DEF ids
  <2>10. d \subseteq sn \cup After(S, a)
    BY <1>5, <2>4
  <2>11. l.due \subseteq l.seen \cup After(S, b)
    BY <1>5, <2>8, <2>9, <2>10
  <2>12. l.done => l.due \subseteq l.seen
    BY <1>5, <2>1, <2>5, <2>8, <2>10
  <2>13. ~c.response.more => l.due \subseteq l.seen
    <3> SUFFICES ASSUME ~c.response.more PROVE l.due \subseteq l.seen
      OBVIOUS
    <3>1. ~(p * PageSize < Len(Client!Listed(m)))
      BY <2>5, <2>6 DEF Client!HasNextPage
    <3>2. After(S, b) = {}
      BY <2>8, <3>1
    <3> QED BY <2>11, <3>2
  <2> QED BY <2>5, <2>6, <2>11, <2>12, <2>13 DEF ListingFine
<1> QED BY <1>7, <1>8 DEF l, c

LEMMA ClientSends ==
    ASSUME ClientInv, NEW t \in Threads, Client!Send(t)
    PROVE  ClientInv'
<1> DEFINE k == call[t]
           m == k.asked.method
           r == Client!Request(m)
<1>1. PICK answer : /\ answer \in {Client!Answer(r), None}
                    /\ store' = Client!Effect(r, answer)
                    /\ held' = [held EXCEPT ![t] = Client!Result(t, r, answer)]
                    /\ sent' = [request |-> r, asked |-> k.asked, shared |-> k.shared]
                    /\ listing' = IF r.method = "delete" THEN Client!Disturbed
                                  ELSE [listing EXCEPT ![t] = Client!Seen(t, answer)]
  BY DEF Client!Send
<1>2. /\ k # None /\ k.built /\ call' = [call EXCEPT ![t] = None] /\ UNCHANGED <<owner, builder>>
  BY DEF Client!Send
<1>3. /\ call \in [Threads -> Client!Calls \cup {None}] /\ k \in Client!Calls
      /\ builder \in [Client!Methods -> Attributes] /\ StoreFine(store)
      /\ held[t] # None /\ held[t] \in Composites
      /\ held = [u \in Threads |-> held[u]] /\ listing = [u \in Threads |-> listing[u]]
  BY <1>2 DEF ClientInv
<1>4. m \in Client!Methods /\ k.asked \in Client!Requests
  BY <1>3 DEF Client!Calls, Client!Requests
<1>5. AskFine(k.asked) /\ FilledFine(m, builder[m])
      /\ (~k.shared => RequestOf(m, builder[m]) = k.asked)
  <2>1. CallFine(k, Met(t, call), owner[m], builder[m])
    BY <1>2 DEF ClientInv
  <2> QED BY <1>2, <2>1 DEF CallFine
<1>6. RequestFine(r) /\ r.method = m /\ (~k.shared => r = k.asked)
  <2>1. builder[m] \in Attributes
    BY <1>3, <1>4
  <2> QED BY <1>4, <1>5, <2>1, RequestIs
<1> HIDE DEF r
<1>7. AnswerFine(r, answer)
  <2>1. AnswerFine(r, Client!Answer(r))
    BY <1>3, <1>6, AnswerIs
  <2>2. AnswerFine(r, None)
    BY DEF AnswerFine
  <2> QED BY <1>1, <2>1, <2>2
<1>8. /\ StoreFine(store')
      /\ m # "delete" => \A n \in ClientModels : Records(store, n) \in SUBSET Records(store', n)
      /\ m \in Paged => store' = store
  BY <1>1, <1>3, <1>6, <1>7, EffectIs
<1> DEFINE c == Client!Result(t, r, answer)
           l == Client!Seen(t, answer)
<1>9. c \in Composites /\ ResourceFine(c.res)
  BY <1>3, <1>6, <1>7, ResultIs
<1> HIDE DEF c, l
<1>10. /\ held' = [u \in Threads |-> held'[u]] /\ held'[t] = c
       /\ \A u \in Threads \ {t} : held'[u] = held[u]
  BY <1>1, <1>3 DEF c
<1>11. \A u \in Threads : held'[u] # None => held'[u] \in Composites /\ ResourceFine(held'[u].res)
  BY <1>9, <1>10 DEF ClientInv
<1>12. /\ call' \in [Threads -> Client!Calls \cup {None}] /\ call'[t] = None
       /\ \A u \in Threads \ {t} : call'[u] = call[u]
  BY <1>2, <1>3
<1>13. \A u \in Threads : call'[u] # None => held'[u] # None
  BY <1>10, <1>12 DEF ClientInv
<1>14. ASSUME NEW u \in Threads, call'[u] # None
       PROVE  LET n == call'[u].asked.method IN CallFine(call'[u], Met(u, call'), owner'[n], builder'[n])
  <2> DEFINE n == call[u].asked.method
  <2>1. call'[u] = call[u] /\ call[u] # None /\ u # t
    BY <1>12, <1>14
  <2>2. CallFine(call[u], Met(u, call), owner[n], builder[n])
    BY <2>1 DEF ClientInv
  <2>3. Met(u, call') => Met(u, call)
    BY <1>12, <2>1 DEF Met
  <2>4. CallFine(call[u], Met(u, call'), owner[n], builder[n])
    BY <2>2, <2>3 DEF CallFine
  <2> QED BY <1>2, <2>1, <2>4
<1>15. /\ listing' = [u \in Threads |-> listing'[u]]
       /\ \A u \in Threads : listing'[u] # None =>
             /\ ListingRecord(listing'[u])
             /\ ~listing'[u].broken => ListingFine(listing'[u], held'[u], call'[u], store')
  <2>1. CASE m = "delete"
    BY <1>1, <1>6, <2>1, DisturbedAre
  <2>2. CASE m # "delete"
    <3>1. /\ listing' = [u \in Threads |-> listing'[u]] /\ listing'[t] = l
          /\ \A u \in Threads \ {t} : listing'[u] = listing[u]
      BY <1>1, <1>3, <1>6, <2>2 DEF l
    <3>2. ASSUME NEW u \in Threads \ {t}, listing'[u] # None
          PROVE  /\ ListingRecord(listing'[u])
                 /\ ~listing'[u].broken => ListingFine(listing'[u], held'[u], call'[u], store')
      <4>1. /\ ListingRecord(listing[u])
            /\ ~listing[u].broken => ListingFine(listing[u], held[u], call[u], store)
        BY <3>1, <3>2 DEF ClientInv
      <4>2. call[u] # None => AskFine(call[u].asked)
        BY DEF ClientInv, CallFine
      <4>3. ListingFine(listing[u], held[u], call[u], store) => ListingFine(listing[u], held[u], call[u], store')
        <5> SUFFICES ASSUME ListingFine(listing[u], held[u], call[u], store)
                     PROVE  ListingFine(listing[u], held[u], call[u], store')
          OBVIOUS
        <5> QED BY <1>8, <2>2, <4>2, ListingGrows
      <4> QED BY <1>10, <1>12, <3>1, <4>1, <4>3
    <3>3. ASSUME listing'[t] # None
          PROVE  /\ ListingRecord(listing'[t])
                 /\ ~listing'[t].broken => ListingFine(listing'[t], held'[t], call'[t], store')
      <4>1. listing[t] # None
        BY <3>1, <3>3 DEF l, Client!Seen
      <4>2. held'[t] = Client!Result(t, r, answer)
        BY <1>10 DEF c
      <4>3. ListingRecord(l) /\ (~l.broken => ListingFine(l, held'[t], None, store))
        BY <1>2, <1>6, <1>7, <4>1, <4>2, SeenIs DEF l
      <4>4. ~l.broken => m \in Paged
        <5>1. ~l.broken => ~listing[t].broken
          BY <4>1 DEF l, Client!Seen, ClientInv, ListingRecord
        <5>2. ~listing[t].broken => ListingFine(listing[t], held[t], k, store)
          BY <4>1 DEF ClientInv
        <5> QED BY <1>2, <5>1, <5>2 DEF ListingFine
      <4> QED BY <1>8, <1>12, <3>1, <4>3, <4>4
    <3> QED BY <3>1, <3>2, <3>3
  <2> QED BY <2>1, <2>2
<1>16. sent'.request = r /\ sent'.asked = k.asked /\ sent'.shared = k.shared
  BY <1>1
<1>17. Client!RequestsAsAsked'
  BY <1>6, <1>16 DEF Client!RequestsAsAsked
<1>18. Client!PutsOwnRecord'
  BY <1>5, <1>6, <1>16 DEF Client!PutsOwnRecord, AskFine, OwnId
<1>19. /\ owner' \in [Client!Methods -> ClientModels \cup {None}]
       /\ builder' \in [Client!Methods -> Attributes]
       /\ \A n \in Client!Methods : /\ n \in Client!NoBody => builder'[n].json = None
                                    /\ n \notin NextOnes => builder'[n].url = None
  BY <1>2 DEF ClientInv
<1> HIDE DEF k, m
<1> QED BY <1>8, <1>10, <1>11, <1>12, <1>13, <1>14, <1>15, <1>17, <1>18, <1>19 DEF ClientInv

LEMMA ClientListing == ClientInv => Client!ListingComplete
<1> SUFFICES ASSUME ClientInv, NEW t \in Threads, listing[t] # None, ~listing[t].broken, Client!Over(t)
             PROVE  listing[t].due \subseteq listing[t].seen
  BY DEF Client!ListingComplete
<1>1. call[t] = None /\ (listing[t].done \/ ~Client!NextPage(t))
  BY DEF Client!Over
<1>2. ListingFine(listing[t], held[t], None, store)
  BY <1>1 DEF ClientInv
<1>3. /\ held[t].response \in Client!Responses /\ held[t].response.page \in Nat
      /\ listing[t].done \/ (held[t].model \in V3Models /\ ~held[t].response.more)
            => listing[t].due \subseteq listing[t].seen
  BY <1>2 DEF ListingFine
<1>4. ~Client!NextPage(t) => held[t].model \in V3Models /\ ~held[t].response.more
  BY <1>3, ClientFacts DEF Client!NextPage
<1> QED BY <1>1, <1>3, <1>4

LEMMA ClientInit == Client!Init => ClientInv
<1> SUFFICES ASSUME Client!Init PROVE ClientInv
  OBVIOUS
<1>1. /\ store = InitialData /\ sent = None
      /\ held = [t \in Threads |-> None] /\ call = [t \in Threads |-> None]
      /\ listing = [t \in Threads |-> None]
      /\ owner = [m \in Client!Methods |-> None]
      /\ builder = [m \in Client!Methods |-> Client!NoAttributes]
  BY DEF Client!Init
<1>2. Client!NoAttributes \in Attributes /\ Client!NoAttributes.json = None /\ Client!NoAttributes.url = None
  BY DEF Client!NoAttributes, Attributes
<1>3. StoreFine(store)
  BY <1>1, ClientFacts
<1>4. /\ \A t \in Threads : held[t] = None /\ call[t] = None /\ listing[t] = None
      /\ \A m \in Client!Methods : builder[m] = Client!NoAttributes
  BY <1>1
<1>5. Client!RequestsAsAsked /\ Client!PutsOwnRecord
  BY <1>1 DEF Client!RequestsAsAsked, Client!PutsOwnRecord
<1>6. /\ held = [t \in Threads |-> held[t]] /\ listing = [t \in Threads |-> listing[t]]
      /\ call \in [Threads -> Client!Calls \cup {None}]
      /\ owner \in [Client!Methods -> ClientModels \cup {None}]
      /\ builder \in [Client!Methods -> Attributes]
  BY <1>1, <1>2
<1> QED BY <1>2, <1>3, <1>4, <1>5, <1>6 DEF ClientInv

LEMMA ClientStays == ClientInv /\ UNCHANGED <<store, OfClient>> => ClientInv'
<1> SUFFICES ASSUME ClientInv, UNCHANGED <<store, OfClient>> PROVE ClientInv'
  OBVIOUS
<1>1. UNCHANGED <<store, held, call, owner, builder, calls, sent, listing>>
  BY DEF OfClient
<1>2. Client!RequestsAsAsked' /\ Client!PutsOwnRecord'
  BY <1>1 DEF ClientInv, Client!RequestsAsAsked, Client!PutsOwnRecord
<1>3. \A t \in Threads : Met(t, call)' = Met(t, call)
  BY <1>1 DEF Met
<1> QED BY <1>1, <1>2, <1>3 DEF ClientInv

LEMMA ClientNext == ClientInv /\ Client!Next => ClientInv'
<1> SUFFICES ASSUME ClientInv, Client!Next PROVE ClientInv'
  OBVIOUS
<1>1. ASSUME NEW t \in Threads, NEW m \in ClientModels, Client!Take(t, m) PROVE ClientInv'
  BY <1>1, ClientTakes
<1>2. ASSUME NEW t \in Threads, NEW id \in Client!Ids \cup {None}, NEW b \in {"b"},
             Client!Assign(t, Client!Datum(id, b))
      PROVE  ClientInv'
  BY <1>2, ClientAssigns
<1>3. ASSUME NEW t \in Threads, Client!Iterate(t) PROVE ClientInv'
  BY <1>3, ClientIterates
<1>4. ASSUME NEW t \in Threads, Client!Enrich(t) PROVE ClientInv'
  BY <1>4, ClientEnriches
<1>5. ASSUME NEW t \in Threads, NEW m \in Client!Methods, Client!Call(t, m) PROVE ClientInv'
  BY <1>5, ClientCalls
<1>6. ASSUME NEW t \in Threads, Client!Fill(t) PROVE ClientInv'
  BY <1>6, ClientFills
<1>7. ASSUME NEW t \in Threads, Client!Send(t) PROVE ClientInv'
  BY <1>7, ClientSends
<1>8. ASSUME NEW t \in Threads, Client!EndListing(t) PROVE ClientInv'
  BY <1>8, ClientEndsListing
<1>9. ASSUME NEW m \in ClientModels, NEW id \in DOMAIN store[m], Client!StaffRemoves(m, id) PROVE ClientInv'
  BY <1>9, ClientRemoves
<1>10. ClientModels = Client!Models
  BY ClientFacts
<1> QED BY <1>1, <1>2, <1>3, <1>4, <1>5, <1>6, <1>7, <1>8, <1>9, <1>10, ZenonT(30) DEF Client!Next

LEMMA ClientSteps ==
    [Next]_vars /\ part' = "client" =>
        part = "client" /\ (Client!Next \/ UNCHANGED <<store, OfClient>>)
BY DEF Next, vars

(* A request is what its caller asked for, whatever the builder of its     *)
(* method served before, what is put bears its own id, and a listing gives *)
(* every record that was there when it began (the request builders and     *)
(* decorators of the store's client, put_record, get_next_page), for any   *)
(* threads, models, records and size of a page.                            *)
THEOREM ClientServesCallers == Spec => []ClientServes
<1> DEFINE I == part = "client" => ClientInv
<1>1. Init => I
  BY ClientInit DEF Init
<1>2. I /\ [Next]_vars => I'
  BY ClientSteps, ClientNext, ClientStays
<1>3. I => ClientServes
  BY ClientListing DEF ClientInv, ClientServes
<1> QED BY <1>1, <1>2, <1>3, PTL DEF Spec
-----------------------------------------------------------------------------
(* Functions of jobs and the channels that they give (JobFunctions).       *)

(* Every channel leads to the root, since in any set of channels one has   *)
(* its parent outside.                                                     *)
Tree(chs) ==
    /\ chs = [c \in Channels |-> chs[c]]
    /\ \A c \in Channels : chs[c] # None => chs[c] \in Functions!ChannelRecords
    /\ Functions!Root \in Functions!Recorded(chs)
    /\ \A c \in Functions!Recorded(chs) \ {Functions!Root} : chs[c].parent \in Functions!Recorded(chs)
    /\ \A X \in SUBSET (Functions!Recorded(chs) \ {Functions!Root}) :
          X # {} => \E c \in X : chs[c].parent \notin X

(* What one function on names of a tree's channels is.                     *)
IsName(u, A, chs) ==
    u = [d \in A |-> IF d = Functions!Root THEN <<"root">> ELSE Append(u[chs[d].parent], chs[d].name)]
Upward(A, chs) ==
    A \subseteq Functions!Recorded(chs) /\ \A d \in A \ {Functions!Root} : chs[d].parent \in A

LEMMA NamesAgree ==
    ASSUME NEW chs, Tree(chs), NEW A, NEW B, NEW u, NEW v,
           Upward(A, chs), Upward(B, chs), IsName(u, A, chs), IsName(v, B, chs)
    PROVE  \A d \in A \cap B : u[d] = v[d]
<1> DEFINE X == {d \in (A \cap B) \ {Functions!Root} : u[d] # v[d]}
<1>1. \A d \in A : u[d] = IF d = Functions!Root THEN <<"root">> ELSE Append(u[chs[d].parent], chs[d].name)
  BY DEF IsName
<1>2. \A d \in B : v[d] = IF d = Functions!Root THEN <<"root">> ELSE Append(v[chs[d].parent], chs[d].name)
  BY DEF IsName
<1>3. X = {}
  <2> SUFFICES ASSUME X # {} PROVE FALSE
    OBVIOUS
  <2>1. X \in SUBSET (Functions!Recorded(chs) \ {Functions!Root})
    BY DEF Upward
  <2>2. PICK d \in X : chs[d].parent \notin X
    BY <2>1 DEF Tree
  <2>3. chs[d].parent \in A \cap B
    BY DEF Upward
  <2>4. u[chs[d].parent] = v[chs[d].parent]
    BY <1>1, <1>2, <2>2, <2>3
  <2> QED BY <1>1, <1>2, <2>4
<1> QED BY <1>1, <1>2, <1>3

LEMMA NameExists ==
    ASSUME NEW chs, Tree(chs)
    PROVE  \E u : IsName(u, Functions!Recorded(chs), chs)
<1> DEFINE R == Functions!Recorded(chs)
           Root == Functions!Root
           Has(d, A, g) == d \in A /\ Upward(A, chs) /\ IsName(g, A, chs)
           X == {d \in R \ {Root} : ~(\E A, g : Has(d, A, g))}
<1>1. \E A, g : Has(Root, A, g)
  <2> DEFINE g == [d \in {Root} |-> <<"root">>]
  <2>1. IsName(g, {Root}, chs)
    BY DEF IsName
  <2>2. Upward({Root}, chs)
    BY DEF Upward, Tree
  <2> QED BY <2>1, <2>2
<1>2. X = {}
  <2> SUFFICES ASSUME X # {} PROVE FALSE
    OBVIOUS
  <2>1. X \in SUBSET (R \ {Root})
    OBVIOUS
  <2>2. PICK d \in X : chs[d].parent \notin X
    BY <2>1 DEF Tree
  <2> PICK p : p = chs[d].parent
    OBVIOUS
  <2>3. d \in R /\ d # Root /\ p \in R /\ p \notin X
    BY <2>2 DEF Tree
  <2>4. PICK A, g : Has(p, A, g)
    BY <1>1, <2>3
  <2>5. d \notin A
    BY <2>2, <2>4
  <2> DEFINE h == [x \in A \cup {d} |-> IF x = d THEN Append(g[p], chs[d].name) ELSE g[x]]
  <2>6. Upward(A \cup {d}, chs)
    BY <2>3, <2>4 DEF Upward
  <2>7. \A x \in A : g[x] = IF x = Root THEN <<"root">> ELSE Append(g[chs[x].parent], chs[x].name)
    BY <2>4 DEF IsName
  <2>8. \A x \in A \ {Root} : chs[x].parent \in A
    BY <2>4 DEF Upward
  <2>9. \A x \in A \cup {d} : h[x] = IF x = d THEN Append(g[p], chs[d].name) ELSE g[x]
    OBVIOUS
  <2>10. h = [x \in A \cup {d} |-> h[x]]
    OBVIOUS
  <2> HIDE DEF h
  <2>11. \A x \in A \cup {d} : h[x] = IF x = Root THEN <<"root">> ELSE Append(h[chs[x].parent], chs[x].name)
    BY <2>3, <2>4, <2>5, <2>7, <2>8, <2>9
  <2>12. IsName(h, A \cup {d}, chs)
    BY <2>10, <2>11 DEF IsName
  <2> QED BY <2>2, <2>6, <2>12
<1>3. \A d \in R : \E A, g : Has(d, A, g)
  BY <1>1, <1>2
<1> DEFINE of(d) == CHOOSE g : \E A : Has(d, A, g)
           u == [d \in R |-> of(d)[d]]
<1>4. \A d \in R : \E A : Has(d, A, of(d))
  BY <1>3
<1>5. \A d \in R : u[d] = of(d)[d]
  OBVIOUS
<1>6. u = [d \in R |-> u[d]]
  OBVIOUS
<1> HIDE DEF of, u
<1>7. ASSUME NEW d \in R
      PROVE  u[d] = IF d = Root THEN <<"root">> ELSE Append(u[chs[d].parent], chs[d].name)
  <2>1. PICK A : Has(d, A, of(d))
    BY <1>4
  <2>2. of(d)[d] = IF d = Root THEN <<"root">> ELSE Append(of(d)[chs[d].parent], chs[d].name)
    BY <2>1 DEF IsName
  <2>3. CASE d = Root
    BY <1>5, <2>2, <2>3
  <2>4. CASE d # Root
    <3> PICK p : p = chs[d].parent
      OBVIOUS
    <3>1. p \in A /\ p \in R
      BY <2>1, <2>4 DEF Upward
    <3>2. PICK B : Has(p, B, of(p))
      BY <1>4, <3>1
    <3>3. of(d)[p] = of(p)[p]
      BY <2>1, <3>1, <3>2, NamesAgree
    <3> QED BY <1>5, <2>2, <2>4, <3>1, <3>3
  <2> QED BY <2>3, <2>4
<1>8. IsName(u, R, chs)
  BY <1>6, <1>7 DEF IsName
<1> QED BY <1>8

(* The recursive function that CompleteName names.                         *)
NamesOf(chs) == CHOOSE u : IsName(u, Functions!Recorded(chs), chs)

LEMMA CompleteNameIs ==
    ASSUME NEW chs, Tree(chs)
    PROVE  /\ IsName(NamesOf(chs), Functions!Recorded(chs), chs)
           /\ \A d : Functions!CompleteName(d, chs) = NamesOf(chs)[d]
<1>1. IsName(NamesOf(chs), Functions!Recorded(chs), chs)
  BY NameExists DEF NamesOf
<1>2. ASSUME NEW d PROVE Functions!CompleteName(d, chs) = NamesOf(chs)[d]
  BY DEF Functions!CompleteName, NamesOf, IsName
<1> QED BY <1>1, <1>2

(* What is above a channel: in every upward set that it is in.             *)
Anc(d, chs) == {x \in Functions!Recorded(chs) : \A A : Upward(A, chs) /\ d \in A => x \in A}

LEMMA AncIs ==
    ASSUME NEW chs, Tree(chs), NEW d \in Functions!Recorded(chs)
    PROVE  /\ d \in Anc(d, chs) /\ Upward(Anc(d, chs), chs)
           /\ \A A : Upward(A, chs) /\ d \in A => Anc(d, chs) \subseteq A
           /\ Anc(d, chs) = IF d = Functions!Root THEN {Functions!Root}
                            ELSE {d} \cup Anc(chs[d].parent, chs)
<1> DEFINE R == Functions!Recorded(chs)
           Root == Functions!Root
<1>1. d \in Anc(d, chs)
  BY DEF Anc
<1>2. \A e \in R : Upward(Anc(e, chs), chs)
  BY DEF Anc, Upward, Tree
<1>3. \A e : \A A : Upward(A, chs) /\ e \in A => Anc(e, chs) \subseteq A
  BY DEF Anc
<1>4. CASE d = Root
  <2>1. Upward({Root}, chs)
    BY DEF Upward, Tree
  <2>2. Anc(d, chs) \subseteq {Root}
    BY <1>3, <1>4, <2>1
  <2> QED BY <1>1, <1>2, <1>3, <1>4, <2>2
<1>5. CASE d # Root
  <2> PICK p : p = chs[d].parent
    OBVIOUS
  <2>1. p \in R
    BY <1>5 DEF Tree
  <2>2. p \in Anc(p, chs)
    BY <2>1 DEF Anc
  <2>3. Upward({d} \cup Anc(p, chs), chs)
    BY <1>2, <2>1, <2>2 DEF Upward
  <2>4. Anc(d, chs) \subseteq {d} \cup Anc(p, chs)
    BY <1>3, <2>3
  <2>5. p \in Anc(d, chs)
    BY <1>1, <1>2, <1>5 DEF Upward
  <2>6. Anc(p, chs) \subseteq Anc(d, chs)
    BY <1>2, <1>3, <2>5
  <2> QED BY <1>1, <1>2, <1>3, <1>5, <2>4, <2>6
<1> QED BY <1>4, <1>5

LEMMA AboveIs ==
    ASSUME NEW chs, Tree(chs), NEW d \in Functions!Recorded(chs)
    PROVE  Functions!Above(d, chs) = Anc(d, chs)
<1> DEFINE R == Functions!Recorded(chs)
           Root == Functions!Root
           Is(u) == u = [x \in R |-> IF x = Root THEN {Root} ELSE {x} \cup u[chs[x].parent]]
           a == [x \in R |-> Anc(x, chs)]
           v == CHOOSE u : Is(u)
<1>1. Is(a)
  <2>1. \A x \in R \ {Root} : chs[x].parent \in R
    BY DEF Tree
  <2>2. \A x \in R : Anc(x, chs) = IF x = Root THEN {Root} ELSE {x} \cup a[chs[x].parent]
    BY <2>1, AncIs
  <2> QED BY <2>2
<1>2. Is(v)
  <2> HIDE DEF Is, a
  <2> QED BY <1>1
<1>3. Functions!Above(d, chs) = v[d]
  BY DEF Functions!Above
<1>4. \A x \in R : v[x] = IF x = Root THEN {Root} ELSE {x} \cup v[chs[x].parent]
  <2> HIDE DEF v
  <2> QED BY <1>2
<1>5. \A x \in R : a[x] = IF x = Root THEN {Root} ELSE {x} \cup a[chs[x].parent]
  <2> HIDE DEF a
  <2> QED BY <1>1
<1> DEFINE X == {x \in R \ {Root} : v[x] # a[x]}
<1> HIDE DEF v, a, Is
<1>6. X = {}
  <2> SUFFICES ASSUME X # {} PROVE FALSE
    OBVIOUS
  <2>1. X \in SUBSET (R \ {Root})
    OBVIOUS
  <2>2. PICK x \in X : chs[x].parent \notin X
    BY <2>1 DEF Tree
  <2>3. chs[x].parent \in R
    BY <2>2 DEF Tree
  <2>4. v[chs[x].parent] = a[chs[x].parent]
    BY <1>4, <1>5, <2>2, <2>3
  <2> QED BY <1>4, <1>5, <2>2, <2>4
<1>7. v[d] = a[d]
  BY <1>4, <1>5, <1>6
<1>8. a[d] = Anc(d, chs)
  BY DEF a
<1> QED BY <1>3, <1>7, <1>8

(* A name depends on what is above the channel only.                       *)
LEMMA NameKept ==
    ASSUME NEW chs, NEW new, Tree(chs), Tree(new), NEW d \in Functions!Recorded(chs),
           \A x \in Anc(d, chs) : new[x] = chs[x]
    PROVE  Functions!CompleteName(d, new) = Functions!CompleteName(d, chs)
<1> DEFINE A == Anc(d, chs)
           u == NamesOf(chs)
           v == NamesOf(new)
           w == [x \in A |-> u[x]]
<1>1. IsName(u, Functions!Recorded(chs), chs) /\ IsName(v, Functions!Recorded(new), new)
  BY CompleteNameIs
<1>2. d \in A /\ Upward(A, chs)
  BY AncIs
<1>3. Upward(A, new) /\ Upward(Functions!Recorded(new), new)
  BY <1>2 DEF Upward, Functions!Recorded, Tree
<1>4. \A x \in A : u[x] = IF x = Functions!Root THEN <<"root">> ELSE Append(u[chs[x].parent], chs[x].name)
  BY <1>1, <1>2 DEF IsName, Upward
<1> HIDE DEF u, v, A
<1>5. \A x \in A : u[x] = IF x = Functions!Root THEN <<"root">> ELSE Append(u[new[x].parent], new[x].name)
  BY <1>4 DEF A
<1>6. \A x \in A : w[x] = IF x = Functions!Root THEN <<"root">> ELSE Append(w[new[x].parent], new[x].name)
  BY <1>3, <1>5 DEF Upward
<1>7. w = [x \in A |-> w[x]]
  OBVIOUS
<1>8. w[d] = u[d]
  BY <1>2
<1> HIDE DEF w
<1>9. IsName(w, A, new)
  BY <1>6, <1>7 DEF IsName
<1>10. d \in A \cap Functions!Recorded(new)
  BY <1>2, <1>3 DEF Upward
<1>11. w[d] = v[d]
  BY <1>1, <1>3, <1>9, <1>10, NamesAgree
<1>12. Functions!CompleteName(d, new) = v[d] /\ Functions!CompleteName(d, chs) = u[d]
  BY CompleteNameIs DEF u, v
<1> QED BY <1>8, <1>11, <1>12

LEMMA FunctionsFacts ==
    /\ Functions!Root \in Channels /\ None \notin Channels /\ None \notin Overrides
    /\ None \notin Functions!ChannelRecords /\ MaxEntries \in Nat
    /\ \A e \in Entries : e.name \in Seq(Names \cup {"root"}) \ {<<>>}
BY FunctionsGiven DEF Functions!JobFunctionsAssumption

(* A channel is made or written below p, that it is not above itself.      *)
LEMMA TreeWritten ==
    ASSUME NEW chs, Tree(chs), NEW c \in Channels \ {Functions!Root}, NEW p \in Functions!Recorded(chs),
           NEW n \in Names, c \notin Anc(p, chs)
    PROVE  /\ Tree([chs EXCEPT ![c] = [name |-> n, parent |-> p]])
           /\ Functions!Recorded([chs EXCEPT ![c] = [name |-> n, parent |-> p]]) = Functions!Recorded(chs) \cup {c}
<1> DEFINE R == Functions!Recorded(chs)
           Root == Functions!Root
           r == [name |-> n, parent |-> p]
           new == [chs EXCEPT ![c] = r]
           S == Functions!Recorded(new)
<1>1. p \in Channels
  BY DEF Functions!Recorded
<1>2. r \in Functions!ChannelRecords /\ r # None /\ r.parent = p
  BY <1>1, FunctionsFacts DEF Functions!ChannelRecords
<1> HIDE DEF r
<1>3. new = [x \in Channels |-> new[x]] /\ \A x \in Channels : new[x] = IF x = c THEN r ELSE chs[x]
  BY DEF Tree
<1> HIDE DEF new
<1>4. S = R \cup {c}
  BY <1>2, <1>3 DEF Functions!Recorded
<1>5. \A x \in Channels : new[x] # None => new[x] \in Functions!ChannelRecords
  BY <1>2, <1>3 DEF Tree
<1>6. \A x \in S \ {Root} : new[x].parent \in S
  BY <1>2, <1>3, <1>4 DEF Tree, Functions!Recorded
<1>7. ASSUME NEW X \in SUBSET (S \ {Root}), X # {}, \A x \in X : new[x].parent \in X
      PROVE  FALSE
  <2>1. p \in Anc(p, chs) /\ Upward(Anc(p, chs), chs)
    BY AncIs
  <2> DEFINE Y == X \cap Anc(p, chs)
             Z == IF c \in X THEN Y ELSE X
  <2>2. \A x \in Y : chs[x].parent \in Y
    BY <1>3, <1>4, <1>7, <2>1 DEF Upward, Functions!Recorded
  <2>3. c \in X => p \in Y
    BY <1>2, <1>3, <1>7, <2>1
  <2>4. c \notin X => \A x \in X : chs[x].parent \in X
    BY <1>3, <1>4, <1>7 DEF Functions!Recorded
  <2>5. Z # {} /\ Z \in SUBSET (R \ {Root}) /\ \A x \in Z : chs[x].parent \in Z
    BY <1>4, <1>7, <2>1, <2>2, <2>3, <2>4 DEF Upward
  <2> QED BY <2>5 DEF Tree
<1>8. Root \in S
  BY <1>4 DEF Tree
<1>9. Tree(new)
  BY <1>3, <1>5, <1>6, <1>7, <1>8 DEF Tree
<1> QED BY <1>4, <1>9 DEF new, r

LEMMA TreeLoses ==
    ASSUME NEW chs, Tree(chs), NEW c \in Functions!Recorded(chs), c # Functions!Root,
           Functions!Children(c, chs) = {}
    PROVE  /\ Tree([chs EXCEPT ![c] = None])
           /\ Functions!Recorded([chs EXCEPT ![c] = None]) = Functions!Recorded(chs) \ {c}
           /\ \A d \in Functions!Recorded(chs) \ {c} : c \notin Anc(d, chs)
<1> DEFINE R == Functions!Recorded(chs)
           Root == Functions!Root
           new == [chs EXCEPT ![c] = None]
           S == Functions!Recorded(new)
<1>1. c \in Channels
  BY DEF Functions!Recorded
<1>2. new = [x \in Channels |-> new[x]] /\ \A x \in Channels : new[x] = IF x = c THEN None ELSE chs[x]
  BY <1>1 DEF Tree
<1> HIDE DEF new
<1>3. S = R \ {c}
  BY <1>2 DEF Functions!Recorded
<1>4. \A x \in R \ {Root} : chs[x].parent \in R \ {c}
  BY DEF Tree, Functions!Children, Functions!Recorded
<1>5. \A x \in S : x \in Channels /\ x # c /\ new[x] = chs[x]
  BY <1>2, <1>3 DEF Functions!Recorded
<1>6. \A x \in S \ {Root} : new[x].parent \in S
  BY <1>3, <1>4, <1>5
<1>7. \A X \in SUBSET (S \ {Root}) : X # {} => \E x \in X : new[x].parent \notin X
  BY <1>3, <1>5 DEF Tree
<1>8. Root \in S /\ \A x \in Channels : new[x] # None => new[x] \in Functions!ChannelRecords
  BY <1>2, <1>3 DEF Tree
<1>9. Tree(new)
  BY <1>2, <1>6, <1>7, <1>8 DEF Tree
<1>10. Upward(R \ {c}, chs)
  BY <1>4 DEF Upward
<1>11. \A d \in R \ {c} : c \notin Anc(d, chs)
  BY <1>10 DEF Anc
<1> QED BY <1>3, <1>9, <1>11 DEF new

(* The runner's channels after the first n entries of a configuration.     *)
Told(s, n, name) == {i \in 1..n : Functions!Full(s[i].name) = name}
Untold(name) == [capacity |-> IF name = <<"root">> THEN 1 ELSE 0, sequential |-> FALSE]
TreeAfter(t, s, n) ==
    /\ t = [name \in DOMAIN t |-> t[name]]
    /\ DOMAIN t = {<<"root">>} \cup UNION {Functions!UpTo(Functions!Full(s[i].name)) : i \in 1..n}
    /\ \A name \in DOMAIN t :
          t[name] = IF Told(s, n, name) # {} THEN Functions!Parsed(s[Functions!Max(Told(s, n, name))])
                    ELSE Untold(name)
IsConf(p, s, n) ==
    p = [k \in 0..n |-> IF k = 0 THEN [name \in {<<"root">>} |-> [capacity |-> 1, sequential |-> FALSE]]
                        ELSE Functions!Configured(s[k], p[k - 1])]

LEMMA FullName ==
    ASSUME NEW S, NEW name \in Seq(S) \ {<<>>}
    PROVE  /\ Functions!Full(name)[1] = "root"
           /\ Functions!Full(Functions!Full(name)) = Functions!Full(name)
           /\ Functions!Full(name) \in Functions!UpTo(Functions!Full(name))
<1> DEFINE f == Functions!Full(name)
           T == S \cup {"root"}
<1>1. Len(name) \in Nat \ {0}
  OBVIOUS
<1>2. f \in Seq(T) /\ f[1] = "root" /\ Len(f) \in Nat \ {0}
  <2>1. CASE name[1] = "root"
    <3>1. f = name
      BY <2>1 DEF Functions!Full
    <3> QED BY <1>1, <2>1, <3>1
  <2>2. CASE name[1] # "root"
    <3>1. f = <<"root">> \o name
      BY <2>2 DEF Functions!Full
    <3> QED BY <1>1, <3>1
  <2> QED BY <2>1, <2>2
<1> HIDE DEF f
<1>3. Functions!Full(f) = f
  BY <1>2 DEF Functions!Full
<1>4. SubSeq(f, 1, Len(f)) = f
  BY <1>2
<1>5. Len(f) \in 1..Len(f)
  BY <1>2
<1>6. f \in Functions!UpTo(f)
  BY <1>4, <1>5 DEF Functions!UpTo
<1> QED BY <1>2, <1>3, <1>6 DEF f

LEMMA ConfExists ==
    ASSUME NEW s, NEW N \in Nat
    PROVE  \E p : IsConf(p, s, N)
<1> DEFINE C == {n \in Nat : ~ \E p : IsConf(p, s, n)}
           base == [name \in {<<"root">>} |-> [capacity |-> 1, sequential |-> FALSE]]
<1> SUFFICES ASSUME C # {} PROVE FALSE
  OBVIOUS
<1>1. PICK n \in C : \A m \in C : n =< m
  <2>1. C \in SUBSET Nat
    OBVIOUS
  <2> HIDE DEF C
  <2> QED BY <2>1, SmallestNumber
<1>2. n \in Nat /\ ~ \E p : IsConf(p, s, n)
  OBVIOUS
<1> PICK b : b = base
  OBVIOUS
<1>3. n # 0
  <2> DEFINE z == [k \in 0..0 |-> b]
  <2>1. z = [k \in 0..0 |-> IF k = 0 THEN b ELSE Functions!Configured(s[k], z[k - 1])]
    OBVIOUS
  <2>2. IsConf(z, s, 0)
    BY <2>1 DEF IsConf
  <2> QED BY <1>2, <2>2
<1>4. n - 1 \in Nat /\ n - 1 \notin C
  BY <1>1, <1>2, <1>3
<1>5. PICK p : IsConf(p, s, n - 1)
  BY <1>4
<1> HIDE DEF C
<1> DEFINE q == [k \in 0..n |-> IF k = n THEN Functions!Configured(s[n], p[n - 1]) ELSE p[k]]
<1>6. \A k \in 0..n : k # n => k \in 0..(n - 1)
  BY <1>2
<1>7. \A k \in 0..(n - 1) : p[k] = IF k = 0 THEN b ELSE Functions!Configured(s[k], p[k - 1])
  BY <1>5 DEF IsConf
<1>8. \A k \in 0..n : k # 0 => k - 1 \in 0..n /\ k - 1 # n
  BY <1>2
<1>9. \A k \in 0..n : k # 0 => q[k - 1] = p[k - 1]
  BY <1>8
<1>10. q = [k \in 0..n |-> IF k = 0 THEN b ELSE Functions!Configured(s[k], q[k - 1])]
  <2>1. \A k \in 0..n :
          (IF k = n THEN Functions!Configured(s[n], p[n - 1]) ELSE p[k])
          = (IF k = 0 THEN b ELSE Functions!Configured(s[k], q[k - 1]))
    <3> HIDE DEF q
    <3> QED BY <1>3, <1>6, <1>7, <1>9
  <2> QED BY <2>1
<1> HIDE DEF q
<1>11. IsConf(q, s, n)
  BY <1>10 DEF IsConf
<1> QED BY <1>2, <1>11

LEMMA ConfiguredIs ==
    ASSUME NEW n \in Nat \ {0}, NEW s, \A i \in 1..n : s[i].name \in Seq(Names \cup {"root"}) \ {<<>>},
           NEW t, TreeAfter(t, s, n - 1)
    PROVE  TreeAfter(Functions!Configured(s[n], t), s, n)
<1> DEFINE f == Functions!Full(s[n].name)
           w == Functions!WithChannel(f, t)
           x == Functions!Configured(s[n], t)
           D == DOMAIN t \cup Functions!UpTo(f)
<1> PICK none : none = [capacity |-> 0, sequential |-> FALSE]
  OBVIOUS
<1>1. f \in Functions!UpTo(f)
  BY FullName
<1>2. w = [name \in D |-> IF name \in DOMAIN t THEN t[name] ELSE none]
  BY DEF Functions!WithChannel
<1>3. x = [w EXCEPT ![f] = Functions!Parsed(s[n])]
  BY DEF Functions!Configured
<1> HIDE DEF w, x, f
<1>4. /\ x = [name \in DOMAIN x |-> x[name]] /\ DOMAIN x = D
      /\ \A name \in D : x[name] = IF name = f THEN Functions!Parsed(s[n])
                                   ELSE IF name \in DOMAIN t THEN t[name] ELSE none
  BY <1>1, <1>2, <1>3
<1>5. \A i : i \in 1..n <=> i \in 1..(n - 1) \/ i = n
  OBVIOUS
<1>6. D = {<<"root">>} \cup UNION {Functions!UpTo(Functions!Full(s[i].name)) : i \in 1..n}
  BY <1>5 DEF TreeAfter, f
<1>7. \A name : Told(s, n, name) = IF name = f THEN Told(s, n - 1, name) \cup {n} ELSE Told(s, n - 1, name)
  BY <1>5 DEF Told, f
<1>8. Functions!Max(Told(s, n, f)) = n /\ Told(s, n, f) # {}
  <2> DEFINE T == Told(s, n, f)
  <2>1. n \in T /\ \A y \in T : y \in Nat /\ n >= y
    BY <1>7 DEF Told
  <2> HIDE DEF T
  <2>2. \A z \in T : (\A y \in T : z >= y) => z = n
    BY <2>1
  <2>3. (CHOOSE z \in T : \A y \in T : z >= y) = n
    BY <2>1, <2>2
  <2> QED BY <2>1, <2>3 DEF Functions!Max, T
<1>9. ASSUME NEW name \in D
      PROVE  x[name] = IF Told(s, n, name) # {} THEN Functions!Parsed(s[Functions!Max(Told(s, n, name))])
                       ELSE Untold(name)
  <2>1. CASE name = f
    BY <1>4, <1>8, <2>1
  <2>2. CASE name # f /\ name \in DOMAIN t
    BY <1>4, <1>7, <2>2 DEF TreeAfter
  <2>3. CASE name # f /\ name \notin DOMAIN t
    <3>1. Told(s, n - 1, name) = {}
      <4> SUFFICES ASSUME NEW i \in 1..(n - 1), Functions!Full(s[i].name) = name PROVE FALSE
        BY DEF Told
      <4>1. s[i].name \in Seq(Names \cup {"root"}) \ {<<>>}
        BY <1>5
      <4>2. name \in Functions!UpTo(Functions!Full(s[i].name))
        BY <4>1, FullName
      <4> QED BY <2>3, <4>2 DEF TreeAfter
    <3>2. name # <<"root">>
      BY <2>3 DEF TreeAfter
    <3>3. Untold(name) = none
      BY <3>2 DEF Untold
    <3> QED BY <1>4, <1>7, <2>3, <3>1, <3>3
  <2> QED BY <2>1, <2>2, <2>3
<1>10. TreeAfter(x, s, n)
  BY <1>4, <1>6, <1>9 DEF TreeAfter
<1> QED BY <1>10 DEF x

LEMMA TreeOfIs ==
    ASSUME NEW N \in Nat, NEW s \in [1..N -> Entries]
    PROVE  TreeAfter(Functions!TreeOf(s), s, N)
<1>1. Len(s) = N
  OBVIOUS
<1> DEFINE p == CHOOSE q : IsConf(q, s, N)
<1>2. IsConf(p, s, N)
  BY ConfExists
<1>3. Functions!TreeOf(s) = p[N]
  BY <1>1 DEF Functions!TreeOf, IsConf
<1> HIDE DEF p
<1>4. \A i \in 1..N : s[i].name \in Seq(Names \cup {"root"}) \ {<<>>}
  BY FunctionsFacts
<1> PICK b : b = [name \in {<<"root">>} |-> [capacity |-> 1, sequential |-> FALSE]]
  OBVIOUS
<1>5. \A k \in 0..N : p[k] = IF k = 0 THEN b ELSE Functions!Configured(s[k], p[k - 1])
  BY <1>2 DEF IsConf
<1> DEFINE C == {n \in 0..N : ~TreeAfter(p[n], s, n)}
<1> SUFFICES ASSUME C # {} PROVE FALSE
  BY <1>3
<1>6. PICK n \in C : \A m \in C : n =< m
  <2>1. C \in SUBSET Nat
    OBVIOUS
  <2> HIDE DEF C
  <2> QED BY <2>1, SmallestNumber
<1>7. n # 0
  <2>1. p[0] = b
    BY <1>5
  <2>2. \A name : Told(s, 0, name) = {}
    BY DEF Told
  <2>3. b[<<"root">>] = Untold(<<"root">>) /\ DOMAIN b = {<<"root">>} /\ b = [name \in DOMAIN b |-> b[name]]
    BY DEF Untold
  <2>4. TreeAfter(b, s, 0)
    BY <2>2, <2>3 DEF TreeAfter
  <2> QED BY <2>1, <2>4
<1>8. n \in 1..N /\ n - 1 \in 0..N /\ n - 1 \notin C
  BY <1>6, <1>7
<1>9. TreeAfter(p[n - 1], s, n - 1)
  BY <1>8
<1>10. TreeAfter(Functions!Configured(s[n], p[n - 1]), s, n)
  <2>1. n \in Nat \ {0} /\ \A i \in 1..n : s[i].name \in Seq(Names \cup {"root"}) \ {<<>>}
    BY <1>4, <1>8
  <2> QED BY <1>9, <2>1, ConfiguredIs
<1>11. p[n] = Functions!Configured(s[n], p[n - 1])
  BY <1>5, <1>8
<1> QED BY <1>10, <1>11

(* The complete name that a job without an override runs in.               *)
NameFor(linked) ==
    IF linked THEN Functions!CompleteName(function, channel) ELSE <<"root">>

RowFine(j) ==
    LET r == row[j]
    IN  /\ r = [override |-> r.override, linked |-> r.linked, done |-> r.done, channel |-> r.channel]
        /\ r.linked \in BOOLEAN /\ r.done \in BOOLEAN
        /\ r.linked => function # None
        /\ j \in renamed => r.linked
        /\ j \notin renamed /\ r.override = None => r.channel = NameFor(r.linked)

FunctionsInv ==
    /\ Tree(channel)
    /\ function # None => function \in Functions!Known
    /\ row = [j \in {"j"} |-> row[j]]
    /\ \A j \in {"j"} : row[j] # None => RowFine(j)
    /\ \E N \in 0..MaxEntries : config \in [1..N -> Entries] /\ TreeAfter(tree, config, N)

LEMMA FunctionsRows ==
    ASSUME FunctionsInv, Tree(channel'), function' # None => function' \in Functions!Recorded(channel'),
           row' = [j \in {"j"} |-> row'[j]], \A j \in {"j"} : row'[j] # None => RowFine(j)',
           UNCHANGED <<config, tree>>
    PROVE  FunctionsInv'
<1>1. \E N \in 0..MaxEntries : config' \in [1..N -> Entries] /\ TreeAfter(tree', config', N)
  BY DEF FunctionsInv
<1> QED BY <1>1 DEF FunctionsInv, Functions!Known

(* The tree changes: the names that jobs rely on do not.                   *)
LEMMA FunctionsRenames ==
    ASSUME FunctionsInv, Tree(channel'), function # None => function \in Functions!Recorded(channel'),
           UNCHANGED <<function, row, config, tree>>,
           renamed \subseteq renamed',
           \A j \in renamed' \ renamed : row[j].linked,
           \A j \in {"j"} \ renamed' : row[j] # None /\ row[j].linked /\ row[j].override = None =>
              Functions!CompleteName(function, channel') = Functions!CompleteName(function, channel)
    PROVE  FunctionsInv'
<1>1. ASSUME NEW j \in {"j"}, row'[j] # None PROVE RowFine(j)'
  <2>1. RowFine(j) /\ row' = row /\ function' = function
    BY <1>1 DEF FunctionsInv
  <2> QED BY <1>1, <2>1 DEF RowFine, NameFor
<1> QED BY <1>1, FunctionsRows DEF FunctionsInv

LEMMA FunctionsCreates ==
    ASSUME FunctionsInv, NEW c \in Channels, NEW p \in Channels, NEW n \in Names,
           Functions!CreateChannel(c, n, p)
    PROVE  FunctionsInv'
<1>1. /\ channel[c] = None /\ p \in Functions!Recorded(channel)
      /\ channel' = [channel EXCEPT ![c] = [name |-> n, parent |-> p]]
      /\ UNCHANGED <<function, row, renamed, config, tree>>
  BY DEF Functions!CreateChannel, Functions!Known
<1>2. c # Functions!Root /\ c \notin Functions!Recorded(channel) /\ Tree(channel)
  BY <1>1 DEF FunctionsInv, Tree, Functions!Recorded
<1>3. c \notin Anc(p, channel)
  BY <1>2 DEF Anc
<1>4. Tree(channel') /\ Functions!Recorded(channel') = Functions!Recorded(channel) \cup {c}
  BY <1>1, <1>2, <1>3, TreeWritten
<1>5. function # None => function \in Functions!Recorded(channel)
  BY DEF FunctionsInv, Functions!Known
<1>6. \A x \in Functions!Recorded(channel) : channel'[x] = channel[x]
  BY <1>1, <1>2 DEF Tree, Functions!Recorded
<1>7. function # None => Functions!CompleteName(function, channel') = Functions!CompleteName(function, channel)
  <2>1. \A x \in Anc(function, channel) : channel'[x] = channel[x]
    BY <1>6 DEF Anc
  <2> QED BY <1>2, <1>4, <1>5, <2>1, NameKept
<1>8. \A j \in {"j"} : row[j] # None /\ row[j].linked => function # None
  BY DEF FunctionsInv, RowFine
<1> QED BY <1>1, <1>4, <1>5, <1>7, <1>8, FunctionsRenames DEF FunctionsInv

LEMMA FunctionsWrites ==
    ASSUME FunctionsInv, NEW c \in Channels, NEW p \in Channels, NEW n \in Names,
           Functions!WriteChannel(c, n, p)
    PROVE  FunctionsInv'
<1>1. /\ c \in Functions!Recorded(channel) \ {Functions!Root} /\ p \in Functions!Recorded(channel)
      /\ c \notin Functions!Above(p, channel)
      /\ channel' = [channel EXCEPT ![c] = [name |-> n, parent |-> p]]
      /\ renamed' = renamed \cup {j \in {"j"} : /\ row[j] # None
                                                /\ row[j].linked /\ row[j].override = None
                                                /\ c \in Functions!Above(function, channel)}
      /\ UNCHANGED <<function, row, config, tree>>
  BY DEF Functions!WriteChannel, Functions!Known
<1>2. Tree(channel)
  BY DEF FunctionsInv
<1>3. c \notin Anc(p, channel)
  BY <1>1, <1>2, AboveIs
<1>4. Tree(channel') /\ Functions!Recorded(channel') = Functions!Recorded(channel) \cup {c}
  BY <1>1, <1>2, <1>3, TreeWritten
<1>5. function # None => function \in Functions!Recorded(channel)
  BY DEF FunctionsInv, Functions!Known
<1>6. \A x \in Functions!Recorded(channel) \ {c} : channel'[x] = channel[x]
  BY <1>1, <1>2 DEF Tree, Functions!Recorded
<1>7. function # None /\ c \notin Functions!Above(function, channel) =>
         Functions!CompleteName(function, channel') = Functions!CompleteName(function, channel)
  <2> SUFFICES ASSUME function # None, c \notin Functions!Above(function, channel)
               PROVE  Functions!CompleteName(function, channel') = Functions!CompleteName(function, channel)
    OBVIOUS
  <2>1. c \notin Anc(function, channel)
    BY <1>2, <1>5, AboveIs
  <2>2. \A x \in Anc(function, channel) : channel'[x] = channel[x]
    BY <1>6, <2>1 DEF Anc
  <2> QED BY <1>2, <1>4, <1>5, <2>2, NameKept
<1>8. \A j \in {"j"} : row[j] # None /\ row[j].linked => function # None
  BY DEF FunctionsInv, RowFine
<1> QED BY <1>1, <1>4, <1>5, <1>7, <1>8, FunctionsRenames

LEMMA FunctionsUnlinks ==
    ASSUME FunctionsInv, NEW c \in Channels, Functions!UnlinkChannel(c)
    PROVE  FunctionsInv'
<1>1. /\ c \in Functions!Recorded(channel) /\ c # Functions!Root /\ Functions!Children(c, channel) = {}
      /\ function # c
      /\ channel' = [channel EXCEPT ![c] = None]
      /\ UNCHANGED <<function, row, renamed, config, tree>>
  BY DEF Functions!UnlinkChannel, Functions!Known, Functions!MayGo
<1>2. Tree(channel)
  BY DEF FunctionsInv
<1>3. /\ Tree(channel') /\ Functions!Recorded(channel') = Functions!Recorded(channel) \ {c}
      /\ \A d \in Functions!Recorded(channel) \ {c} : c \notin Anc(d, channel)
  BY <1>1, <1>2, TreeLoses
<1>4. function # None => function \in Functions!Recorded(channel) \ {c}
  BY <1>1 DEF FunctionsInv, Functions!Known
<1>5. \A x \in Functions!Recorded(channel) \ {c} : channel'[x] = channel[x]
  BY <1>1, <1>2 DEF Tree, Functions!Recorded
<1>6. function # None => Functions!CompleteName(function, channel') = Functions!CompleteName(function, channel)
  <2> SUFFICES ASSUME function # None
               PROVE  Functions!CompleteName(function, channel') = Functions!CompleteName(function, channel)
    OBVIOUS
  <2>1. \A x \in Anc(function, channel) : channel'[x] = channel[x]
    BY <1>3, <1>4, <1>5 DEF Anc
  <2> QED BY <1>2, <1>3, <1>4, <2>1, NameKept
<1>7. \A j \in {"j"} : row[j] # None /\ row[j].linked => function # None
  BY DEF FunctionsInv, RowFine
<1> QED BY <1>1, <1>3, <1>4, <1>6, <1>7, FunctionsRenames DEF FunctionsInv

LEMMA FunctionsMakes ==
    ASSUME FunctionsInv, NEW c \in Channels, Functions!CreateFunction(c)
    PROVE  FunctionsInv'
<1>1. /\ function = None /\ c \in Functions!Recorded(channel) /\ function' = c
      /\ UNCHANGED <<channel, row, renamed, config, tree>>
  BY DEF Functions!CreateFunction, Functions!Known
<1>2. ASSUME NEW j \in {"j"}, row'[j] # None PROVE RowFine(j)'
  <2>1. RowFine(j) /\ row' = row /\ renamed' = renamed
    BY <1>1, <1>2 DEF FunctionsInv
  <2>2. ~row[j].linked
    BY <1>1, <2>1 DEF RowFine
  <2> QED BY <2>1, <2>2 DEF RowFine, NameFor
<1>3. Tree(channel') /\ function' \in Functions!Recorded(channel') /\ row' = [j \in {"j"} |-> row'[j]]
  BY <1>1 DEF FunctionsInv
<1> QED BY <1>1, <1>2, <1>3, FunctionsRows

(* What is stored when the function's channel f is written.                *)
LEMMA RecomputedIs ==
    ASSUME FunctionsInv, NEW f, f = function', f \in Channels \cup {None}, UNCHANGED channel,
           row' = Functions!Recomputed(f, channel), renamed' = {}
    PROVE  /\ row' = [j \in {"j"} |-> row'[j]]
           /\ \A j \in {"j"} : row'[j] # None => RowFine(j)'
<1>1. row' = [j \in {"j"} |-> row'[j]]
  BY DEF Functions!Recomputed
<1>2. ASSUME NEW j \in {"j"}, row'[j] # None PROVE RowFine(j)'
  <2> PICK r, v, x : /\ r = row[j] /\ v = (f # None)
                     /\ x = Functions!ChannelOf(r.override, f # None, f, channel)
    OBVIOUS
  <2>1. row'[j] = IF r = None \/ ~r.linked THEN r ELSE [r EXCEPT !.channel = x, !.linked = v]
    BY DEF Functions!Recomputed
  <2>2. r # None => RowFine(j)
    BY DEF FunctionsInv
  <2>3. CASE r = None \/ ~r.linked
    <3>1. row'[j] = row[j] /\ r # None /\ ~r.linked
      BY <1>2, <2>1, <2>3
    <3>2. j \notin renamed
      BY <2>2, <3>1 DEF RowFine
    <3> QED BY <2>2, <3>1, <3>2 DEF RowFine, NameFor
  <2>4. CASE r # None /\ r.linked
    <3>1. r = [override |-> r.override, linked |-> r.linked, done |-> r.done, channel |-> r.channel]
          /\ r.done \in BOOLEAN
      BY <2>2, <2>4 DEF RowFine
    <3> PICK o, l, d, k : r = [override |-> o, linked |-> l, done |-> d, channel |-> k] /\ d \in BOOLEAN
      BY <3>1
    <3> PICK q : q = row'[j]
      OBVIOUS
    <3>2. q = [r EXCEPT !.channel = x, !.linked = v]
      BY <2>1, <2>4
    <3>7. r = [override |-> o, linked |-> l, done |-> d, channel |-> k]
      OBVIOUS
    <3>3. q = [override |-> o, linked |-> v, done |-> d, channel |-> x]
      BY ONLY <3>2, <3>7
    <3>4. /\ q = [override |-> q.override, linked |-> q.linked, done |-> q.done, channel |-> q.channel]
          /\ q.override = o /\ q.linked = v /\ q.done = d /\ q.channel = x /\ r.override = o
      BY <3>3
    <3>5. v \in BOOLEAN /\ (v => f # None)
      OBVIOUS
    <3>6. o = None => x = IF v THEN Functions!CompleteName(f, channel) ELSE <<"root">>
      BY <3>4 DEF Functions!ChannelOf
    <3> QED BY <3>4, <3>5, <3>6 DEF RowFine, NameFor
  <2> QED BY <2>3, <2>4
<1> QED BY <1>1, <1>2

LEMMA FunctionsWritten ==
    ASSUME FunctionsInv, NEW c \in Channels, Functions!WriteFunction(c)
    PROVE  FunctionsInv'
<1>1. /\ c \in Functions!Recorded(channel) /\ function' = c /\ renamed' = {}
      /\ row' = Functions!Recomputed(c, channel) /\ UNCHANGED <<channel, config, tree>>
  BY DEF Functions!WriteFunction, Functions!Known
<1>2. row' = [j \in {"j"} |-> row'[j]] /\ \A j \in {"j"} : row'[j] # None => RowFine(j)'
  BY <1>1, RecomputedIs
<1>3. Tree(channel') /\ function' \in Functions!Recorded(channel')
  BY <1>1 DEF FunctionsInv
<1> QED BY <1>1, <1>2, <1>3, FunctionsRows

LEMMA FunctionsDeleted ==
    ASSUME FunctionsInv, Functions!UnlinkFunction
    PROVE  FunctionsInv'
<1>1. /\ function' = None /\ renamed' = {}
      /\ row' = Functions!Recomputed(None, channel) /\ UNCHANGED <<channel, config, tree>>
  BY DEF Functions!UnlinkFunction
<1>2. row' = [j \in {"j"} |-> row'[j]] /\ \A j \in {"j"} : row'[j] # None => RowFine(j)'
  BY <1>1, RecomputedIs
<1>3. Tree(channel')
  BY <1>1 DEF FunctionsInv
<1> QED BY <1>1, <1>2, <1>3, FunctionsRows

LEMMA FunctionsStores ==
    ASSUME FunctionsInv, NEW j \in {"j"}, NEW o \in Overrides \cup {None}, Functions!Store(j, o)
    PROVE  FunctionsInv'
<1> PICK v, no, x, q : /\ v = (function # None) /\ no = FALSE
                       /\ x = Functions!ChannelOf(o, function # None, function, channel)
                       /\ q = [override |-> o, linked |-> v, done |-> no, channel |-> x]
  OBVIOUS
<1>1. row[j] = None /\ row' = [row EXCEPT ![j] = q] /\ renamed' = renamed \ {j}
      /\ UNCHANGED <<channel, function, config, tree>>
  BY DEF Functions!Store
<1>2. row' = [i \in {"j"} |-> row'[i]] /\ row'[j] = q
  BY <1>1 DEF FunctionsInv
<1>4. /\ q = [override |-> q.override, linked |-> q.linked, done |-> q.done, channel |-> q.channel]
      /\ q.override = o /\ q.linked = v /\ q.done = no /\ q.channel = x
  OBVIOUS
<1>5. v \in BOOLEAN /\ no \in BOOLEAN
  OBVIOUS
<1>6. o = None => x = NameFor(v)
  BY DEF Functions!ChannelOf, NameFor
<1>7. RowFine(j)'
  BY <1>1, <1>2, <1>4, <1>5, <1>6 DEF RowFine, NameFor
<1>8. /\ Tree(channel') /\ (function' # None => function' \in Functions!Recorded(channel'))
  BY <1>1 DEF FunctionsInv, Functions!Known
<1> QED BY <1>1, <1>2, <1>7, <1>8, FunctionsRows

LEMMA FunctionsSets ==
    ASSUME FunctionsInv, NEW j \in {"j"}, NEW name \in Overrides, Functions!SetChannel(j, name)
    PROVE  FunctionsInv'
<1>1. /\ row[j] # None /\ row' = [row EXCEPT ![j].override = name, ![j].channel = name]
      /\ renamed' = renamed \ {j} /\ UNCHANGED <<channel, function, config, tree>>
  BY DEF Functions!SetChannel
<1>2. RowFine(j)
  BY <1>1 DEF FunctionsInv
<1>3. PICK o, l, d, k : /\ row[j] = [override |-> o, linked |-> l, done |-> d, channel |-> k]
                        /\ l \in BOOLEAN /\ d \in BOOLEAN /\ (l => function # None)
  BY <1>2 DEF RowFine
<1> PICK q : q = row'[j]
  OBVIOUS
<1> PICK r, y : r = row[j] /\ y = [r EXCEPT !.override = name]
  OBVIOUS
<1>9. row' = [i \in {"j"} |-> row'[i]]
  BY <1>1 DEF FunctionsInv
<1>10. q = [y EXCEPT !.channel = name]
  BY <1>1 DEF FunctionsInv
<1>11. y = [r EXCEPT !.override = name] /\ r = [override |-> o, linked |-> l, done |-> d, channel |-> k]
  BY <1>3
<1>12. y = [override |-> name, linked |-> l, done |-> d, channel |-> k]
  BY ONLY <1>11
<1>4. q = [override |-> name, linked |-> l, done |-> d, channel |-> name]
  BY ONLY <1>10, <1>12
<1>5. /\ q = [override |-> q.override, linked |-> q.linked, done |-> q.done, channel |-> q.channel]
      /\ q.override = name /\ q.linked = l /\ q.done = d /\ name # None
  BY <1>4, FunctionsFacts
<1>6. RowFine(j)'
  BY <1>1, <1>3, <1>5 DEF RowFine
<1>7. /\ Tree(channel') /\ (function' # None => function' \in Functions!Recorded(channel'))
  BY <1>1 DEF FunctionsInv, Functions!Known
<1> QED BY <1>1, <1>6, <1>7, <1>9, FunctionsRows

LEMMA FunctionsFinish ==
    ASSUME FunctionsInv, NEW j \in {"j"}, Functions!Finish(j)
    PROVE  FunctionsInv'
<1> PICK yes : yes = TRUE
  OBVIOUS
<1>1. /\ row[j] # None /\ row' = [row EXCEPT ![j] = [row[j] EXCEPT !.done = yes]]
      /\ UNCHANGED <<channel, function, renamed, config, tree>>
  BY DEF Functions!Finish
<1>2. RowFine(j)
  BY <1>1 DEF FunctionsInv
<1>3. PICK o, l, d, k : /\ row[j] = [override |-> o, linked |-> l, done |-> d, channel |-> k]
                        /\ l \in BOOLEAN /\ (l => function # None)
  BY <1>2 DEF RowFine
<1> PICK q : q = row'[j]
  OBVIOUS
<1> PICK r : r = row[j]
  OBVIOUS
<1>9. row' = [i \in {"j"} |-> row'[i]] /\ q = [r EXCEPT !.done = yes]
  BY <1>1 DEF FunctionsInv
<1>10. r = [override |-> o, linked |-> l, done |-> d, channel |-> k]
  BY <1>3
<1>4. q = [override |-> o, linked |-> l, done |-> yes, channel |-> k]
  BY ONLY <1>9, <1>10
<1>5. /\ q = [override |-> q.override, linked |-> q.linked, done |-> q.done, channel |-> q.channel]
      /\ q.override = row[j].override /\ q.linked = row[j].linked /\ q.done = yes /\ q.channel = row[j].channel
      /\ yes \in BOOLEAN
  BY <1>3, <1>4
<1>6. RowFine(j)'
  BY <1>1, <1>2, <1>5 DEF RowFine, NameFor
<1>8. /\ Tree(channel') /\ (function' # None => function' \in Functions!Recorded(channel'))
  BY <1>1 DEF FunctionsInv, Functions!Known
<1> QED BY <1>1, <1>6, <1>8, <1>9, FunctionsRows

LEMMA FunctionsVacuums ==
    ASSUME FunctionsInv, Functions!Autovacuum
    PROVE  FunctionsInv'
<1>1. /\ row' = [j \in {"j"} |-> IF j \in Functions!Collected THEN None ELSE row[j]]
      /\ renamed' = renamed \ Functions!Collected /\ UNCHANGED <<channel, function, config, tree>>
  BY DEF Functions!Autovacuum
<1>2. ASSUME NEW j \in {"j"}, row'[j] # None PROVE RowFine(j)'
  <2>1. j \notin Functions!Collected /\ row'[j] = row[j] /\ RowFine(j)
    BY <1>1, <1>2 DEF FunctionsInv
  <2> QED BY <1>1, <2>1 DEF RowFine, NameFor
<1>3. /\ Tree(channel') /\ (function' # None => function' \in Functions!Recorded(channel'))
      /\ row' = [j \in {"j"} |-> row'[j]]
  BY <1>1 DEF FunctionsInv, Functions!Known
<1> QED BY <1>1, <1>2, <1>3, FunctionsRows

LEMMA FunctionsInit == Functions!Init => FunctionsInv
<1> SUFFICES ASSUME Functions!Init PROVE FunctionsInv
  OBVIOUS
<1> DEFINE Root == Functions!Root
<1> PICK b : b = [name |-> "root", parent |-> None]
  OBVIOUS
<1>1. /\ channel = [c \in Channels |-> IF c = Root THEN b ELSE None]
      /\ function = None /\ row = [j \in {"j"} |-> None]
  BY DEF Functions!Init
<1>2. b \in Functions!ChannelRecords /\ b # None
  <2>1. b \in Functions!ChannelRecords
    BY DEF Functions!ChannelRecords
  <2> QED BY <2>1, FunctionsFacts
<1>3. Tree(channel)
  <2>1. \A c \in Channels : channel[c] = IF c = Root THEN b ELSE None
    BY <1>1
  <2>2. channel = [c \in Channels |-> channel[c]]
    BY <1>1
  <2>3. Functions!Recorded(channel) = {Root}
    BY <1>2, <2>1, FunctionsFacts DEF Functions!Recorded
  <2>4. \A c \in Channels : channel[c] # None => channel[c] \in Functions!ChannelRecords
    BY <1>2, <2>1
  <2> HIDE DEF Root
  <2> QED BY <2>2, <2>3, <2>4 DEF Tree, Root
<1>4. PICK N \in 0..MaxEntries : config \in [1..N -> Entries]
  BY DEF Functions!Init
<1>5. TreeAfter(tree, config, N)
  <2>1. N \in Nat /\ tree = Functions!TreeOf(config)
    BY FunctionsFacts, <1>4 DEF Functions!Init
  <2> QED BY <1>4, <2>1, TreeOfIs
<1>6. \A j \in {"j"} : row[j] = None
  BY <1>1
<1>7. row = [j \in {"j"} |-> row[j]]
  BY <1>1
<1> QED BY <1>1, <1>3, <1>4, <1>5, <1>6, <1>7 DEF FunctionsInv

LEMMA FunctionsStays == FunctionsInv /\ UNCHANGED <<row, OfFunctions>> => FunctionsInv'
<1> SUFFICES ASSUME FunctionsInv, UNCHANGED <<row, OfFunctions>> PROVE FunctionsInv'
  OBVIOUS
<1>1. UNCHANGED <<row, channel, function, renamed, config, tree>>
  BY DEF OfFunctions
<1>2. ASSUME NEW j \in {"j"}, row'[j] # None PROVE RowFine(j)'
  <2>1. RowFine(j)
    BY <1>1, <1>2 DEF FunctionsInv
  <2> QED BY <1>1, <2>1 DEF RowFine, NameFor
<1>3. /\ Tree(channel') /\ (function' # None => function' \in Functions!Recorded(channel'))
      /\ row' = [j \in {"j"} |-> row'[j]]
  BY <1>1 DEF FunctionsInv, Functions!Known
<1> QED BY <1>1, <1>2, <1>3, FunctionsRows

LEMMA FunctionsNext == FunctionsInv /\ Functions!Next => FunctionsInv'
<1> SUFFICES ASSUME FunctionsInv, Functions!Next PROVE FunctionsInv'
  OBVIOUS
<1>1. ASSUME NEW c \in Channels, NEW p \in Channels, NEW n \in Names,
             Functions!CreateChannel(c, n, p) \/ Functions!WriteChannel(c, n, p)
      PROVE  FunctionsInv'
  BY <1>1, FunctionsCreates, FunctionsWrites
<1>2. ASSUME NEW c \in Channels,
             Functions!UnlinkChannel(c) \/ Functions!CreateFunction(c) \/ Functions!WriteFunction(c)
      PROVE  FunctionsInv'
  BY <1>2, FunctionsUnlinks, FunctionsMakes, FunctionsWritten
<1>3. ASSUME Functions!UnlinkFunction PROVE FunctionsInv'
  BY <1>3, FunctionsDeleted
<1>4. ASSUME NEW j \in {"j"}, NEW o \in Overrides \cup {None}, Functions!Store(j, o) PROVE FunctionsInv'
  BY <1>4, FunctionsStores
<1>5. ASSUME NEW j \in {"j"}, NEW o \in Overrides, Functions!SetChannel(j, o) PROVE FunctionsInv'
  BY <1>5, FunctionsSets
<1>6. ASSUME NEW j \in {"j"}, Functions!Finish(j) PROVE FunctionsInv'
  BY <1>6, FunctionsFinish
<1>7. ASSUME Functions!Autovacuum PROVE FunctionsInv'
  BY <1>7, FunctionsVacuums
<1> QED BY <1>1, <1>2, <1>3, <1>4, <1>5, <1>6, <1>7, ZenonT(30) DEF Functions!Next

LEMMA FunctionsSteps ==
    [Next]_vars /\ part' = "functions" =>
        part = "functions" /\ (Functions!Next \/ UNCHANGED <<row, OfFunctions>>)
BY DEF Next, vars

(* The last entry that names a channel of the runner decides.              *)
LEMMA FunctionsGive ==
    ASSUME NEW N \in 0..MaxEntries, config \in [1..N -> Entries], NEW name
    PROVE  Functions!Given(name) = Told(config, N, name)
<1>1. DOMAIN config = 1..N
  OBVIOUS
<1> QED BY <1>1 DEF Functions!Given, Told

LEMMA FunctionsTree == FunctionsInv => Functions!TreeAsConfigured
<1> SUFFICES ASSUME FunctionsInv PROVE Functions!TreeAsConfigured
  OBVIOUS
<1>1. PICK N \in 0..MaxEntries : config \in [1..N -> Entries] /\ TreeAfter(tree, config, N)
  BY DEF FunctionsInv
<1>2. Functions!Range(config) = {config[i] : i \in 1..N}
  BY <1>1 DEF Functions!Range
<1>3. DOMAIN tree = {<<"root">>} \cup UNION {Functions!UpTo(Functions!Full(config[i].name)) : i \in 1..N}
  BY <1>1 DEF TreeAfter
<1>4. DOMAIN tree = {<<"root">>} \cup UNION {Functions!UpTo(Functions!Full(e.name)) : e \in Functions!Range(config)}
  BY <1>2, <1>3
<1>5. ASSUME NEW n \in DOMAIN tree
      PROVE  IF Functions!Given(n) # {} THEN tree[n] = Functions!Parsed(config[Functions!Max(Functions!Given(n))])
             ELSE tree[n] = Untold(n)
  <2>1. Functions!Given(n) = Told(config, N, n)
    BY <1>1, FunctionsGive
  <2> QED BY <1>1, <2>1 DEF TreeAfter
<1> QED BY <1>4, <1>5 DEF Functions!TreeAsConfigured, Untold

LEMMA FunctionsFollow == FunctionsInv => Functions!JobsFollowFunction
<1> SUFFICES ASSUME FunctionsInv, NEW j \in {"j"}, row[j] # None, j \notin renamed, row[j].override = None,
                    NEW name, name = NameFor(row[j].linked)
             PROVE  /\ row[j].channel = name
                    /\ row[j].done => j \in Functions!Collected
                    /\ Functions!Given(name) # {} =>
                          /\ Functions!FiledIn(row[j].channel) = name
                          /\ tree[name] = Functions!Parsed(config[Functions!Max(Functions!Given(name))])
  BY DEF Functions!JobsFollowFunction, NameFor
<1>1. RowFine(j) /\ Tree(channel)
  BY DEF FunctionsInv
<1>2. row[j].channel = name /\ row[j].linked \in BOOLEAN /\ (row[j].linked => function # None)
  BY <1>1 DEF RowFine
<1>3. ASSUME row[j].done PROVE j \in Functions!Collected
  <2>1. Functions!Root \in Functions!Known
    BY <1>1 DEF Tree, Functions!Known
  <2>2. Functions!CompleteName(Functions!Root, channel) = <<"root">>
    <3>1. NamesOf(channel)[Functions!Root] = <<"root">>
      BY <1>1, <2>1, CompleteNameIs DEF IsName, Functions!Known
    <3> QED BY <1>1, <3>1, CompleteNameIs
  <2>3. \E c \in Functions!Known : name = Functions!CompleteName(c, channel)
    <3>1. CASE row[j].linked
      <4>1. name = Functions!CompleteName(function, channel) /\ function \in Functions!Known
        BY <1>2, <3>1 DEF NameFor, FunctionsInv
      <4> QED BY <4>1
    <3>2. CASE ~row[j].linked
      <4>1. name = <<"root">>
        BY <3>2 DEF NameFor
      <4> QED BY <2>1, <2>2, <4>1
    <3> QED BY <1>2, <3>1, <3>2
  <2> QED BY <1>2, <1>3, <2>3 DEF Functions!Collected
<1>4. ASSUME Functions!Given(name) # {}
      PROVE  /\ Functions!FiledIn(name) = name
             /\ tree[name] = Functions!Parsed(config[Functions!Max(Functions!Given(name))])
  <2>1. PICK N \in 0..MaxEntries : config \in [1..N -> Entries] /\ TreeAfter(tree, config, N)
    BY DEF FunctionsInv
  <2>2. Functions!Given(name) = Told(config, N, name)
    BY <2>1, FunctionsGive
  <2>3. PICK i \in 1..N : Functions!Full(config[i].name) = name
    BY <1>4, <2>2 DEF Told
  <2>4. config[i].name \in Seq(Names \cup {"root"}) \ {<<>>}
    BY <2>1, <2>3, FunctionsFacts
  <2>5. Functions!Full(name) = name /\ name \in Functions!UpTo(name)
    BY <2>3, <2>4, FullName
  <2>6. name \in DOMAIN tree
    BY <2>1, <2>3, <2>5 DEF TreeAfter
  <2>7. Functions!FiledIn(name) = name
    BY <2>5, <2>6 DEF Functions!FiledIn
  <2>8. tree[name] = Functions!Parsed(config[Functions!Max(Told(config, N, name))])
    BY <1>4, <2>1, <2>2, <2>6 DEF TreeAfter
  <2> QED BY <2>2, <2>7, <2>8
<1> QED BY <1>2, <1>3, <1>4

(* The runner's channels are what the configuration says, whatever their   *)
(* order and what is left out, and a job follows the channel that its      *)
(* function has now, is filed there and found by the garbage collector,    *)
(* however channels are made, renamed, moved and deleted (_compute_channel, *)
(* _compute_complete_name, simple_configure, autovacuum), for any channels,*)
(* names and configuration.                                                *)
THEOREM ChannelsAreRight == Spec => []ChannelsOfJobs
<1> DEFINE I == part = "functions" => FunctionsInv
<1>1. Init => I
  BY FunctionsInit DEF Init
<1>2. I /\ [Next]_vars => I'
  BY FunctionsSteps, FunctionsNext, FunctionsStays
<1>3. I => ChannelsOfJobs
  BY FunctionsTree, FunctionsFollow DEF ChannelsOfJobs
<1> QED BY <1>1, <1>2, <1>3, PTL DEF Spec
=============================================================================
