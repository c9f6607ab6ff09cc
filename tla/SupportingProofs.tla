-------------------------- MODULE SupportingProofs --------------------------
(***************************************************************************)
(* Proofs about the components that the flows of the other modules rest    *)
(* on, one section for each: Startup, AccessTokens, EngineWiring,          *)
(* Credentials, AskQueries, DeviceList, RateLimiter and LogPipeline.  They *)
(* share no state; each section is about the specification of its own      *)
(* module, for every value of that module's constants.                     *)
(***************************************************************************)
EXTENDS Credentials, AccessTokens, EngineWiring, AskQueries, DeviceList,
        Startup, RateLimiter, LogPipeline,
        SequenceTheorems, FiniteSetTheorems, WellFoundedInduction, TLAPS

\* A non-empty set of numbers has a least one.
LEMMA LeastNumber ==
  ASSUME NEW T, T \subseteq Nat, T # {}
  PROVE  \E k \in T : \A j \in T : k <= j
<1>1. PICK R : R = {ss \in Nat \X Nat : ss[1] < ss[2]}
  OBVIOUS
<1>2. IsWellFoundedOn(R, Nat)
  BY <1>1, NatLessThanWellFounded DEF OpToRel
<1>3. PICK k \in T : \A j \in T : ~(<<j, k>> \in R)
  BY <1>2, WFMin
<1>4. \A j \in T : <<j, k>> \in R <=> j < k
  BY <1>1
<1>5. ASSUME NEW j \in T PROVE k <= j
  <2>1. ~(j < k) /\ j \in Nat /\ k \in Nat
    BY <1>3, <1>4
  <2>2. QED
    BY <2>1
<1>6. QED
  BY <1>5

-----------------------------------------------------------------------------
(* Startup *)

\* MarkersTellTheSchema says of the committed state only.  It is inductive
\* together with what the open transaction holds so far (Holder) and how far
\* the process that runs it has come through the files (Cursor).

ProcessPCs == {"down", "read", "file", "body", "commit", "pragmas", "serving", "refused"}

Process == [pc : ProcessPCs, applied : SUBSET (1..Files),
            file : 0..(Files + 1), next : 0..(Statements + 1)]

\* The type invariant of the module's state.
StartupTypeOK ==
  /\ pragmas \subseteq {"foreign_keys", "busy_timeout"}
  /\ marked \subseteq 1..Files
  /\ tx \in [owner : Processes \cup {Nobody},
             done : SUBSET ((1..Files) \X (1..Statements)), mark : SUBSET (1..Files)]
  /\ proc \in [Processes -> Process]

\* The write transaction belongs to the one process that is in
\* applyMigration, and holds the statements that it ran, and the marker once
\* all of them are in.
Holder ==
  \A p \in Processes :
    /\ (proc[p].pc \in {"body", "commit"}) <=> (tx.owner = p)
    /\ At(p, "body") => /\ proc[p].next \in 1..(Statements + 1)
                        /\ tx.done = {<<proc[p].file, k>> : k \in 1..(proc[p].next - 1)}
                        /\ tx.mark = {}
    /\ At(p, "commit") => tx.done = Body(proc[p].file) /\ tx.mark = {proc[p].file}

\* What the process read as applied is applied, and so are all the files
\* before the one it is at.
Cursor ==
  \A p \in Processes :
    /\ proc[p].pc \in {"file", "body", "commit"}
         => /\ proc[p].file \in 1..(Files + 1)
            /\ proc[p].applied \subseteq marked
            /\ \A g \in 1..(proc[p].file - 1) : g \in marked
    /\ proc[p].pc \in {"body", "commit"} => proc[p].file \in 1..Files
    /\ proc[p].pc \in {"pragmas", "serving", "refused"} => marked = 1..Files

WholeFiles ==
  /\ schema = UNION {Body(f) : f \in marked}
  /\ \A f \in marked : \A g \in 1..f : g \in marked

StartupInv == StartupTypeOK /\ Holder /\ Cursor /\ WholeFiles

-----------------------------------------------------------------------------

\* A process that is not started is a well-formed one.
LEMMA DownProcess ==
  /\ Down \in Process /\ Down.pc = "down"
  /\ NoTx \in [owner : Processes \cup {Nobody},
               done : SUBSET ((1..Files) \X (1..Statements)), mark : SUBSET (1..Files)]
  /\ NoTx.owner = Nobody
<1>1. 0 \in 0..(Files + 1) /\ 0 \in 0..(Statements + 1)
  BY FilesAssumption
<1>2. QED
  BY <1>1 DEF Down, Process, ProcessPCs, NoTx

\* The invariant holds before the first start.
LEMMA StartupInitInv == StartupInit => StartupInv
<1> SUFFICES ASSUME StartupInit PROVE StartupInv
  OBVIOUS
<1>1. StartupTypeOK
  BY DownProcess DEF StartupInit, StartupTypeOK
<1>2. \A p \in Processes : proc[p].pc = "down"
  BY DownProcess DEF StartupInit
<1>3. Holder
  BY <1>2, DownProcess, NobodyAssumption DEF StartupInit, Holder, At
<1>4. Cursor
  BY <1>2 DEF Cursor
<1>5. WholeFiles
  BY DEF StartupInit, WholeFiles
<1>6. QED
  BY <1>1, <1>3, <1>4, <1>5 DEF StartupInv

\* A step that touches neither the database nor the transaction keeps the
\* invariant if the process keeps what Cursor says of it.
LEMMA MoveProcess ==
  ASSUME StartupInv, NEW p \in Processes, NEW q \in Process,
         proc' = [proc EXCEPT ![p] = q],
         UNCHANGED <<pragmas, schema, marked, tx>>,
         ~(proc[p].pc \in {"body", "commit"}), ~(q.pc \in {"body", "commit"}),
         q.pc = "file" => /\ q.file \in 1..(Files + 1)
                          /\ q.applied \subseteq marked
                          /\ \A g \in 1..(q.file - 1) : g \in marked,
         q.pc \in {"pragmas", "serving", "refused"} => marked = 1..Files
  PROVE  StartupInv'
<1>1. proc'[p] = q /\ \A x \in Processes \ {p} : proc'[x] = proc[x]
  BY DEF StartupInv, StartupTypeOK
<1>2. StartupTypeOK'
  BY DEF StartupInv, StartupTypeOK
<1>3. Holder'
  BY <1>1 DEF StartupInv, Holder, At
<1>4. Cursor'
  BY <1>1 DEF StartupInv, Cursor
<1>5. WholeFiles'
  BY DEF StartupInv, WholeFiles
<1>6. QED
  BY <1>2, <1>3, <1>4, <1>5 DEF StartupInv

\* A process that stops takes its transaction with it and nothing else.
LEMMA StopProcess ==
  ASSUME StartupInv, NEW p \in Processes,
         tx' = IF tx.owner = p THEN NoTx ELSE tx,
         proc' = [proc EXCEPT ![p] = Down], UNCHANGED <<pragmas, schema, marked>>
  PROVE  StartupInv'
<1>1. proc'[p] = Down /\ \A x \in Processes \ {p} : proc'[x] = proc[x]
  BY DEF StartupInv, StartupTypeOK
<1>2. StartupTypeOK'
  BY DownProcess DEF StartupInv, StartupTypeOK
<1>3. \A x \in Processes : x # Nobody
  BY NobodyAssumption
<1>4. Holder'
  BY <1>1, <1>3, DownProcess DEF StartupInv, Holder, At
<1>5. Cursor'
  BY <1>1, DownProcess DEF StartupInv, Cursor
<1>6. WholeFiles'
  BY DEF StartupInv, WholeFiles
<1>7. QED
  BY <1>2, <1>4, <1>5, <1>6 DEF StartupInv

\* Running one statement of the body keeps the invariant.
LEMMA ExecBodyStep == ASSUME StartupInv, NEW p \in Processes, ExecBody(p) PROVE StartupInv'
<1> DEFINE f == proc[p].file
           n == proc[p].next
<1>0. /\ proc[p] \in Process /\ proc[p].pc = "body"
      /\ f \in 1..Files /\ n \in 1..Statements /\ Statements \in Nat /\ Files \in Nat
  BY FilesAssumption DEF StartupInv, StartupTypeOK, Holder, Cursor, ExecBody, At, Process
<1>1. proc' = [proc EXCEPT ![p] = [proc[p] EXCEPT !.next = n + 1]]
      /\ UNCHANGED <<pragmas, schema, marked>>
  BY DEF ExecBody
<1>2. proc'[p] = [proc[p] EXCEPT !.next = n + 1]
      /\ \A x \in Processes \ {p} : proc'[x] = proc[x]
  BY <1>1 DEF StartupInv, StartupTypeOK
<1>3. /\ proc'[p].pc = "body" /\ proc'[p].file = f /\ proc'[p].next = n + 1
      /\ proc'[p].applied = proc[p].applied /\ proc'[p] \in Process
  BY <1>0, <1>2 DEF Process
<1>4. tx' = [tx EXCEPT !.done = @ \cup {<<f, n>>}]
  BY DEF ExecBody
<1>5. tx'.owner = tx.owner /\ tx'.mark = tx.mark /\ tx'.done = tx.done \cup {<<f, n>>}
  BY <1>4 DEF StartupInv, StartupTypeOK
<1>6. StartupTypeOK'
  <2>1. tx' \in [owner : Processes \cup {Nobody},
                 done : SUBSET ((1..Files) \X (1..Statements)), mark : SUBSET (1..Files)]
    BY <1>0, <1>4 DEF StartupInv, StartupTypeOK
  <2>2. proc' \in [Processes -> Process]
    BY <1>1, <1>2, <1>3 DEF StartupInv, StartupTypeOK
  <2>3. QED
    BY <1>1, <2>1, <2>2 DEF StartupInv, StartupTypeOK
<1>7. Holder'
  <2>1. tx.owner = p /\ tx.mark = {} /\ tx.done = {<<f, k>> : k \in 1..(n - 1)}
    BY <1>0 DEF StartupInv, Holder, At
  <2>2. 1..(proc'[p].next - 1) = (1..(n - 1)) \cup {n}
    BY <1>0, <1>3
  <2>3. tx'.done = {<<proc'[p].file, k>> : k \in 1..(proc'[p].next - 1)}
    BY <1>3, <1>5, <2>1, <2>2
  <2>4. proc'[p].next \in 1..(Statements + 1)
    BY <1>0, <1>3
  <2>5. \A x \in Processes \ {p} : proc'[x].pc \notin {"body", "commit"} /\ tx'.owner # x
    BY <1>2, <1>5, <2>1 DEF StartupInv, Holder
  <2>6. tx'.owner = p /\ tx'.mark = {}
    BY <1>5, <2>1
  <2>7. QED
    BY <1>3, <2>3, <2>4, <2>5, <2>6 DEF Holder, At
<1>8. Cursor'
  BY <1>0, <1>1, <1>2, <1>3 DEF StartupInv, Cursor
<1>9. WholeFiles'
  BY <1>1 DEF StartupInv, WholeFiles
<1>10. QED
  BY <1>6, <1>7, <1>8, <1>9 DEF StartupInv

\* Opening the transaction keeps the invariant.
LEMMA BeginTxStep == ASSUME StartupInv, NEW p \in Processes, BeginTx(p) PROVE StartupInv'
<1>0. /\ proc[p] \in Process /\ proc[p].pc = "file" /\ proc[p].file \in 1..Files
      /\ Statements \in Nat /\ Files \in Nat /\ tx.owner = Nobody
  BY FilesAssumption DEF StartupInv, StartupTypeOK, Cursor, BeginTx, At, Process
<1>1. /\ proc' = [proc EXCEPT ![p] = [proc[p] EXCEPT !.pc = "body", !.next = 1]]
      /\ tx' = [owner |-> p, done |-> {}, mark |-> {}]
      /\ UNCHANGED <<pragmas, schema, marked>>
  BY DEF BeginTx
<1>2. proc'[p] = [proc[p] EXCEPT !.pc = "body", !.next = 1]
      /\ \A x \in Processes \ {p} : proc'[x] = proc[x]
  BY <1>1 DEF StartupInv, StartupTypeOK
<1>3. /\ proc'[p].pc = "body" /\ proc'[p].file = proc[p].file /\ proc'[p].next = 1
      /\ proc'[p].applied = proc[p].applied /\ proc'[p] \in Process
  <2>1. 1 \in 0..(Statements + 1) /\ "body" \in ProcessPCs
    BY <1>0 DEF ProcessPCs
  <2>2. QED
    BY <1>0, <1>2, <2>1 DEF Process
<1>4. tx'.owner = p /\ tx'.done = {} /\ tx'.mark = {}
  BY <1>1
<1>5. StartupTypeOK'
  <2>1. tx' \in [owner : Processes \cup {Nobody},
                 done : SUBSET ((1..Files) \X (1..Statements)), mark : SUBSET (1..Files)]
    BY <1>1
  <2>2. proc' \in [Processes -> Process]
    BY <1>1, <1>2, <1>3 DEF StartupInv, StartupTypeOK
  <2>3. QED
    BY <1>1, <2>1, <2>2 DEF StartupInv, StartupTypeOK
<1>6. Holder'
  <2>1. \A x \in Processes \ {p} : proc'[x].pc \notin {"body", "commit"} /\ tx'.owner # x
    BY <1>0, <1>2, <1>4, NobodyAssumption DEF StartupInv, Holder
  <2>2. {<<proc'[p].file, k>> : k \in 1..(1 - 1)} = {} /\ 1 \in 1..(Statements + 1)
    BY <1>0
  <2>3. QED
    BY <1>3, <1>4, <2>1, <2>2 DEF Holder, At
<1>7. Cursor'
  BY <1>0, <1>1, <1>2, <1>3 DEF StartupInv, Cursor
<1>8. WholeFiles'
  BY <1>1 DEF StartupInv, WholeFiles
<1>9. QED
  BY <1>5, <1>6, <1>7, <1>8 DEF StartupInv

\* Writing the marker into the transaction keeps the invariant.
LEMMA RecordMarkerStep == ASSUME StartupInv, NEW p \in Processes, RecordMarker(p) PROVE StartupInv'
<1> DEFINE f == proc[p].file
<1>0. /\ proc[p] \in Process /\ proc[p].pc = "body" /\ f \in 1..Files
      /\ proc[p].next = Statements + 1 /\ Statements \in Nat /\ Files \in Nat
      /\ tx.owner = p
  BY FilesAssumption DEF StartupInv, StartupTypeOK, Holder, Cursor, RecordMarker, At, Process
<1>1. /\ proc' = [proc EXCEPT ![p] = [proc[p] EXCEPT !.pc = "commit"]]
      /\ tx' = [tx EXCEPT !.mark = {f}]
      /\ UNCHANGED <<pragmas, schema, marked>>
  BY DEF RecordMarker, Goto
<1>2. proc'[p] = [proc[p] EXCEPT !.pc = "commit"]
      /\ \A x \in Processes \ {p} : proc'[x] = proc[x]
  BY <1>1 DEF StartupInv, StartupTypeOK
<1>3. /\ proc'[p].pc = "commit" /\ proc'[p].file = f
      /\ proc'[p].applied = proc[p].applied /\ proc'[p] \in Process
  BY <1>0, <1>2 DEF Process, ProcessPCs
<1>4. tx'.owner = p /\ tx'.done = tx.done /\ tx'.mark = {f}
  BY <1>0, <1>1 DEF StartupInv, StartupTypeOK
<1>5. StartupTypeOK'
  <2>1. tx' \in [owner : Processes \cup {Nobody},
                 done : SUBSET ((1..Files) \X (1..Statements)), mark : SUBSET (1..Files)]
    BY <1>0, <1>1 DEF StartupInv, StartupTypeOK
  <2>2. proc' \in [Processes -> Process]
    BY <1>1, <1>2, <1>3 DEF StartupInv, StartupTypeOK
  <2>3. QED
    BY <1>1, <2>1, <2>2 DEF StartupInv, StartupTypeOK
<1>6. Holder'
  <2>1. \A x \in Processes \ {p} : proc'[x].pc \notin {"body", "commit"} /\ tx'.owner # x
    BY <1>0, <1>2, <1>4 DEF StartupInv, Holder
  <2>2. tx.done = {<<f, k>> : k \in 1..(proc[p].next - 1)}
    BY <1>0 DEF StartupInv, Holder, At
  <2>3. proc[p].next - 1 = Statements
    BY <1>0
  <2>4. tx'.done = Body(f)
    BY <1>4, <2>2, <2>3 DEF Body
  <2>5. QED
    BY <1>3, <1>4, <2>1, <2>4 DEF Holder, At
<1>7. Cursor'
  BY <1>0, <1>1, <1>2, <1>3 DEF StartupInv, Cursor
<1>8. WholeFiles'
  BY <1>1 DEF StartupInv, WholeFiles
<1>9. QED
  BY <1>5, <1>6, <1>7, <1>8 DEF StartupInv

\* The commit adds one whole file, the next one, and its marker.
LEMMA CommitStep == ASSUME StartupInv, NEW p \in Processes, Commit(p) PROVE StartupInv'
<1> DEFINE f == proc[p].file
<1>0. /\ proc[p] \in Process /\ proc[p].pc = "commit" /\ f \in 1..Files
      /\ tx.done = Body(f) /\ tx.mark = {f} /\ Files \in Nat /\ tx.owner = p
  BY FilesAssumption DEF StartupInv, StartupTypeOK, Holder, Cursor, Commit, At
<1>1. /\ proc' = [proc EXCEPT ![p] = [proc[p] EXCEPT !.pc = "file", !.file = f + 1]]
      /\ schema' = schema \cup Body(f) /\ marked' = marked \cup {f}
      /\ tx' = NoTx /\ pragmas' = pragmas
  BY <1>0 DEF Commit
<1>2. proc'[p] = [proc[p] EXCEPT !.pc = "file", !.file = f + 1]
      /\ \A x \in Processes \ {p} : proc'[x] = proc[x]
  BY <1>1 DEF StartupInv, StartupTypeOK
<1>3. /\ proc'[p].pc = "file" /\ proc'[p].file = f + 1
      /\ proc'[p].applied = proc[p].applied /\ proc'[p] \in Process
  <2>1. f + 1 \in 0..(Files + 1) /\ "file" \in ProcessPCs
    BY <1>0 DEF ProcessPCs
  <2>2. QED
    BY <1>0, <1>2, <2>1 DEF Process
<1>4. StartupTypeOK'
  <2>1. proc' \in [Processes -> Process]
    BY <1>1, <1>2, <1>3 DEF StartupInv, StartupTypeOK
  <2>2. QED
    BY <1>0, <1>1, <2>1, DownProcess DEF StartupInv, StartupTypeOK
<1>5. Holder'
  <2>1. \A x \in Processes \ {p} : proc[x].pc \notin {"body", "commit"}
    BY <1>0 DEF StartupInv, Holder
  <2>2. \A x \in Processes : proc'[x].pc \notin {"body", "commit"}
    BY <1>2, <1>3, <2>1
  <2>3. QED
    BY <1>1, <2>2, DownProcess, NobodyAssumption DEF Holder, At
<1>6. \A g \in 1..f : g \in marked'
  <2>1. \A g \in 1..(f - 1) : g \in marked
    BY <1>0 DEF StartupInv, Cursor
  <2>2. \A g \in 1..f : g = f \/ g \in 1..(f - 1)
    BY <1>0
  <2>3. QED
    BY <1>1, <2>1, <2>2
<1>7. Cursor'
  <2>1. f + 1 \in 1..(Files + 1) /\ f + 1 - 1 = f
    BY <1>0
  <2>2. proc[p].applied \subseteq marked
    BY <1>0 DEF StartupInv, Cursor
  <2>3. marked \subseteq marked' /\ (marked = 1..Files => marked' = 1..Files)
    BY <1>0, <1>1
  <2>4. ASSUME NEW x \in Processes \ {p}
        PROVE  /\ proc'[x].pc \in {"file", "body", "commit"}
                    => /\ proc'[x].file \in 1..(Files + 1)
                       /\ proc'[x].applied \subseteq marked'
                       /\ \A g \in 1..(proc'[x].file - 1) : g \in marked'
               /\ proc'[x].pc \in {"body", "commit"} => proc'[x].file \in 1..Files
               /\ proc'[x].pc \in {"pragmas", "serving", "refused"} => marked' = 1..Files
    BY <1>2, <2>3 DEF StartupInv, Cursor
  <2>5. /\ proc'[p].file \in 1..(Files + 1)
        /\ proc'[p].applied \subseteq marked'
        /\ \A g \in 1..(proc'[p].file - 1) : g \in marked'
    <3>1. proc'[p].file - 1 = f
      BY <1>0, <1>3
    <3>2. QED
      BY <1>3, <1>6, <2>1, <2>2, <2>3, <3>1
  <2>6. QED
    BY <1>3, <2>4, <2>5 DEF Cursor
<1>8. WholeFiles'
  <2>1. schema' = UNION {Body(g) : g \in marked'}
    BY <1>1 DEF StartupInv, WholeFiles
  <2>2. QED
    BY <1>1, <1>6, <2>1 DEF StartupInv, WholeFiles
<1>9. QED
  BY <1>4, <1>5, <1>7, <1>8 DEF StartupInv

\* Every step of a process keeps the invariant.
LEMMA StartupNextInv == StartupInv /\ [StartupNext]_startupVars => StartupInv'
<1> SUFFICES ASSUME StartupInv, [StartupNext]_startupVars PROVE StartupInv'
  OBVIOUS
<1>1. CASE UNCHANGED startupVars
  BY <1>1 DEF startupVars, StartupInv, StartupTypeOK, Holder, Cursor, WholeFiles, At
<1>2. ASSUME NEW p \in Processes, Step(p) \/ Crash(p)
      PROVE  StartupInv'
  <2>0. proc \in [Processes -> Process] /\ proc[p] \in Process
        /\ Files \in Nat /\ Statements \in Nat
    BY FilesAssumption DEF StartupInv, StartupTypeOK
  <2>1. CASE Start(p)
    <3> DEFINE q == [proc[p] EXCEPT !.pc = "read"]
    <3>1. q \in Process /\ q.pc = "read"
      BY <2>0 DEF Process, ProcessPCs
    <3>2. /\ proc' = [proc EXCEPT ![p] = q] /\ proc[p].pc = "down"
          /\ UNCHANGED <<pragmas, schema, marked, tx>>
      BY <2>1 DEF Start, Goto, At
    <3> HIDE DEF q
    <3>3. QED
      BY <3>1, <3>2, MoveProcess
  <2>2. CASE ReadApplied(p)
    <3> DEFINE q == [pc |-> "file", applied |-> marked, file |-> 1, next |-> 1]
    <3>1. /\ q \in Process /\ q.pc = "file" /\ q.file = 1 /\ q.applied = marked
          /\ 1 \in 1..(Files + 1) /\ 1..(1 - 1) = {}
      BY <2>0 DEF Process, ProcessPCs, StartupInv, StartupTypeOK
    <3>2. /\ proc' = [proc EXCEPT ![p] = q] /\ proc[p].pc = "read"
          /\ UNCHANGED <<pragmas, schema, marked, tx>>
      BY <2>2 DEF ReadApplied, AppliedMigrations, At
    <3> HIDE DEF q
    <3>3. QED
      BY <3>1, <3>2, MoveProcess
  <2>3. CASE Skip(p)
    <3> DEFINE f == proc[p].file
               q == [proc[p] EXCEPT !.file = f + 1]
    <3>1. proc[p].pc = "file" /\ f \in 1..Files /\ f \in marked /\ proc[p].applied \subseteq marked
      BY <2>0, <2>3 DEF Skip, At, StartupInv, Cursor
    <3>2. /\ q \in Process /\ q.pc = "file" /\ q.file = f + 1 /\ q.applied = proc[p].applied
          /\ f + 1 \in 1..(Files + 1) /\ f + 1 - 1 = f
      BY <2>0, <3>1 DEF Process
    <3>3. \A g \in 1..f : g \in marked
      BY <3>1 DEF StartupInv, WholeFiles
    <3>4. proc' = [proc EXCEPT ![p] = q] /\ UNCHANGED <<pragmas, schema, marked, tx>>
      BY <2>3 DEF Skip
    <3> HIDE DEF q, f
    <3>5. q.file - 1 = f
      BY <3>1, <3>2
    <3>6. QED
      BY <3>1, <3>2, <3>3, <3>4, <3>5, MoveProcess
  <2>4. CASE MigrateReturns(p)
    <3> DEFINE q == [proc[p] EXCEPT !.pc = "pragmas"]
    <3>1. q \in Process /\ q.pc = "pragmas"
      BY <2>0 DEF Process, ProcessPCs
    <3>2. /\ proc' = [proc EXCEPT ![p] = q] /\ proc[p].pc = "file"
          /\ UNCHANGED <<pragmas, schema, marked, tx>>
      BY <2>4 DEF MigrateReturns, Goto, At
    <3>3. proc[p].file - 1 = Files
      BY <2>0, <2>4, <3>2 DEF MigrateReturns, StartupInv, Cursor
    <3>4. marked = 1..Files
      BY <3>2, <3>3 DEF StartupInv, Cursor, StartupTypeOK
    <3> HIDE DEF q
    <3>5. QED
      BY <3>1, <3>2, <3>4, MoveProcess
  <2>5. CASE CheckPragmas(p)
    <3> DEFINE q == [proc[p] EXCEPT !.pc = IF PragmaProblems = {} THEN "serving" ELSE "refused"]
    <3>1. q \in Process /\ q.pc \in {"serving", "refused"}
      BY <2>0 DEF Process, ProcessPCs
    <3>2. /\ proc' = [proc EXCEPT ![p] = q] /\ proc[p].pc = "pragmas"
          /\ UNCHANGED <<pragmas, schema, marked, tx>>
      BY <2>5 DEF CheckPragmas, Goto, At
    <3>3. marked = 1..Files
      BY <3>2 DEF StartupInv, Cursor
    <3> HIDE DEF q
    <3>4. QED
      BY <3>1, <3>2, <3>3, MoveProcess
  <2>6. CASE MigrateFails(p)
    BY <2>6, StopProcess DEF MigrateFails
  <2>7. CASE Crash(p)
    BY <2>7, StopProcess DEF Crash
  <2>8. QED
    BY <1>2, <2>1, <2>2, <2>3, <2>4, <2>5, <2>6, <2>7,
       BeginTxStep, ExecBodyStep, RecordMarkerStep, CommitStep DEF Step
<1>3. QED
  BY <1>1, <1>2 DEF StartupNext

\* The invariant holds whoever dies, loses a race or is started again.
THEOREM AlwaysStartupInv == StartupSpec => []StartupInv
  BY StartupInitInv, StartupNextInv, PTL DEF StartupSpec

\* The state of every process, of the database and of the open transaction
\* keeps its type.
THEOREM StartupTypeCorrect == StartupSpec => []StartupTypeOK
  BY AlwaysStartupInv, PTL DEF StartupInv

\* However many processes start together and however often they die, the
\* database has whole files only, with a marker for exactly those, in order;
\* and none serves before it has all of them.
THEOREM AlwaysMarkersTellTheSchema == StartupSpec => []MarkersTellTheSchema
<1>1. StartupInv => MarkersTellTheSchema
  BY DEF StartupInv, Cursor, WholeFiles, MarkersTellTheSchema, At
<1>2. QED
  BY <1>1, AlwaysStartupInv, PTL

\* Files that are all there up to the last of them are those up to a number.
LEMMA WithoutGaps ==
  ASSUME NEW m, m \subseteq 1..Files, \A f \in m : \A g \in 1..f : g \in m
  PROVE  \E n \in 0..Files : m = 1..n
<1> DEFINE T == {i \in 1..(Files + 1) : i \notin m}
<1>1. Files \in Nat /\ Files + 1 \in T /\ T \subseteq Nat
  BY FilesAssumption
<1>2. PICK k \in T : \A j \in T : k <= j
  BY <1>1, LeastNumber
<1>3. k \in 1..(Files + 1) /\ k \notin m
  OBVIOUS
<1>4. ASSUME NEW f \in m PROVE f \in 1..(k - 1)
  <2>1. f \in 1..Files /\ (k \in 1..f => k \in m)
    OBVIOUS
  <2>2. QED
    BY <1>1, <1>3, <2>1
<1>5. ASSUME NEW f \in 1..(k - 1) PROVE f \in m
  <2>1. f \in 1..(Files + 1) /\ ~(k <= f)
    BY <1>1, <1>3
  <2>2. f \notin T
    BY <1>2, <2>1
  <2>3. QED
    BY <2>1, <2>2
<1>6. m = 1..(k - 1)
  BY <1>4, <1>5
<1>7. k - 1 \in 0..Files
  BY <1>1, <1>3
<1>8. QED
  BY <1>6, <1>7

\* The markers are those of a version, and the schema is its.
LEMMA VersionOfMarkers ==
  ASSUME StartupInv
  PROVE  /\ Version \in 0..Files /\ marked = 1..Version
         /\ schema = UNION {Body(f) : f \in 1..Version}
<1>1. marked \subseteq 1..Files /\ \A f \in marked : \A g \in 1..f : g \in marked
  BY DEF StartupInv, StartupTypeOK, WholeFiles
<1>2. \E n \in 0..Files : marked = 1..n
  BY <1>1, WithoutGaps
<1>3. Version \in 0..Files /\ marked = 1..Version
  BY <1>2 DEF Version
<1>4. QED
  BY <1>3 DEF StartupInv, WholeFiles

\* There is one version with these markers.
LEMMA OneVersion ==
  ASSUME NEW m \in Nat, NEW n \in Nat, 1..m = 1..n
  PROVE  m = n
  OBVIOUS

\* A step of p moves no other process in or out of service.
LEMMA ServingStep ==
  ASSUME StartupInv, NEW p \in Processes, NEW q,
         proc' = [proc EXCEPT ![p] = q]
  PROVE  LET serving == {x \in Processes : At(x, "serving")}
         IN  serving' = IF q.pc = "serving" THEN serving \cup {p} ELSE serving \ {p}
<1>1. \A x \in Processes : proc'[x] = IF x = p THEN q ELSE proc[x]
  BY DEF StartupInv, StartupTypeOK
<1>2. QED
  BY <1>1 DEF At

\* Each step is one of the schema's life, or none.
LEMMA VersionStep ==
  ASSUME StartupInv, StartupInv', [StartupNext]_startupVars
  PROVE  [Versions!Next]_(Versions!vars)
<1> DEFINE serving == {x \in Processes : At(x, "serving")}
           contents == [n \in 0..Files |-> UNION {Body(f) : f \in 1..n}]
<1>1. /\ Version \in 0..Files /\ marked = 1..Version /\ schema = contents[Version]
      /\ Files \in Nat
  BY VersionOfMarkers, FilesAssumption
<1>2. Version' \in 0..Files /\ marked' = 1..Version' /\ schema' = contents[Version']
  <2>1. /\ marked' \subseteq 1..Files /\ \A f \in marked' : \A g \in 1..f : g \in marked'
        /\ schema' = UNION {Body(f) : f \in marked'}
    BY DEF StartupInv, StartupTypeOK, WholeFiles
  <2>2. \E n \in 0..Files : marked' = 1..n
    BY <2>1, WithoutGaps
  <2>3. Version' \in 0..Files /\ marked' = 1..Version'
    BY <2>2 DEF Version
  <2>4. QED
    BY <2>1, <2>3
<1>3. ASSUME UNCHANGED <<schema, marked>>
      PROVE  UNCHANGED <<Version, schema>>
  BY <1>3 DEF Version
<1>4. ASSUME UNCHANGED <<schema, marked>>, NEW p \in Processes, NEW q,
             proc' = [proc EXCEPT ![p] = q], q.pc = "serving" => Version = Files
      PROVE  [Versions!Next]_(Versions!vars)
  <2>1. serving' = IF q.pc = "serving" THEN serving \cup {p} ELSE serving \ {p}
    BY <1>4, ServingStep
  <2>2. Versions!Serve(p) \/ Versions!Stop(p)
    BY <1>3, <1>4, <2>1 DEF Versions!Serve, Versions!Stop
  <2>3. QED
    BY <2>2 DEF Versions!Next
<1>5. CASE UNCHANGED startupVars
  BY <1>3, <1>5 DEF startupVars, Versions!vars, At
<1>6. ASSUME NEW p \in Processes, Commit(p)
      PROVE  [Versions!Next]_(Versions!vars)
  <2> DEFINE f == proc[p].file
  <2>1. /\ f \in 1..Files /\ tx.mark = {f} /\ \A g \in 1..(f - 1) : g \in marked
        /\ proc[p] \in Process
    BY <1>6 DEF StartupInv, StartupTypeOK, Holder, Cursor, Commit, At
  <2>2. /\ marked' = marked \cup {f}
        /\ proc' = [proc EXCEPT ![p] = [proc[p] EXCEPT !.pc = "file", !.file = f + 1]]
    BY <1>6, <2>1 DEF Commit
  <2>3. serving' = serving
    <3>1. ~At(p, "serving")
      BY <1>6 DEF Commit, At
    <3>2. [proc[p] EXCEPT !.pc = "file", !.file = f + 1].pc = "file"
      BY <2>1 DEF Process
    <3>3. QED
      BY <2>2, <3>1, <3>2, ServingStep
  <2>4. f <= Version + 1
    <3>1. f - 1 = 0 \/ f - 1 \in 1..(f - 1)
      BY <2>1
    <3>2. QED
      BY <1>1, <2>1, <3>1
  <2>5. CASE f <= Version
    <3>1. marked' = marked
      BY <1>1, <2>1, <2>2, <2>5
    <3>2. Version' = Version
      BY <3>1 DEF Version
    <3>3. QED
      BY <1>1, <1>2, <2>3, <3>2 DEF Versions!vars
  <2>6. CASE f = Version + 1
    <3>1. marked' = 1..(Version + 1)
      BY <1>1, <2>2, <2>6
    <3>2. Version' = Version + 1
      BY <1>1, <1>2, <3>1, OneVersion
    <3>3. QED
      BY <1>1, <1>2, <2>1, <2>3, <2>6, <3>2 DEF Versions!Next, Versions!Upgrade
  <2>7. QED
    BY <1>1, <2>1, <2>4, <2>5, <2>6
<1>7. ASSUME NEW p \in Processes, CheckPragmas(p)
      PROVE  [Versions!Next]_(Versions!vars)
  <2> DEFINE q == [proc[p] EXCEPT !.pc = IF PragmaProblems = {} THEN "serving" ELSE "refused"]
  <2>1. proc' = [proc EXCEPT ![p] = q] /\ UNCHANGED <<schema, marked>>
    BY <1>7 DEF CheckPragmas, Goto
  <2>2. Version = Files
    <3>1. marked = 1..Files
      BY <1>7 DEF CheckPragmas, At, StartupInv, Cursor
    <3>2. QED
      BY <1>1, <3>1, OneVersion
  <2> HIDE DEF q
  <2>3. QED
    BY <1>4, <2>1, <2>2
<1>8. ASSUME NEW p \in Processes, Start(p) \/ MigrateReturns(p)
      PROVE  [Versions!Next]_(Versions!vars)
  <2>1. PICK pc \in {"read", "pragmas"} : Goto(p, pc) /\ UNCHANGED <<schema, marked>>
    BY <1>8 DEF Start, MigrateReturns
  <2> DEFINE q == [proc[p] EXCEPT !.pc = pc]
  <2>2. proc[p] \in Process
    BY DEF StartupInv, StartupTypeOK
  <2>3. q.pc # "serving" /\ proc' = [proc EXCEPT ![p] = q]
    BY <2>1, <2>2 DEF Goto, Process
  <2> HIDE DEF q
  <2>4. QED
    BY <1>4, <2>1, <2>3
<1>9. ASSUME NEW p \in Processes,
             \/ ReadApplied(p) \/ Skip(p) \/ BeginTx(p) \/ ExecBody(p)
             \/ RecordMarker(p) \/ MigrateFails(p) \/ Crash(p)
      PROVE  \E q : /\ q.pc # "serving" /\ proc' = [proc EXCEPT ![p] = q]
                    /\ UNCHANGED <<schema, marked>>
  <2>1. proc[p] \in Process
    BY DEF StartupInv, StartupTypeOK
  <2>2. CASE ReadApplied(p)
    <3> DEFINE q == [pc |-> "file", applied |-> AppliedMigrations, file |-> 1, next |-> 1]
    <3>1. q.pc = "file" /\ proc' = [proc EXCEPT ![p] = q] /\ UNCHANGED <<schema, marked>>
      BY <2>2 DEF ReadApplied
    <3>2. QED
      BY <3>1
  <2>3. CASE Skip(p)
    <3> DEFINE q == [proc[p] EXCEPT !.file = @ + 1]
    <3>1. q.pc = "file" /\ proc' = [proc EXCEPT ![p] = q] /\ UNCHANGED <<schema, marked>>
      BY <2>1, <2>3 DEF Skip, At, Process
    <3>2. QED
      BY <3>1
  <2>4. CASE BeginTx(p)
    <3> DEFINE q == [proc[p] EXCEPT !.pc = "body", !.next = 1]
    <3>1. q.pc = "body" /\ proc' = [proc EXCEPT ![p] = q] /\ UNCHANGED <<schema, marked>>
      BY <2>1, <2>4 DEF BeginTx, Process
    <3>2. QED
      BY <3>1
  <2>5. CASE ExecBody(p)
    <3> DEFINE q == [proc[p] EXCEPT !.next = @ + 1]
    <3>1. q.pc = "body" /\ proc' = [proc EXCEPT ![p] = q] /\ UNCHANGED <<schema, marked>>
      BY <2>1, <2>5 DEF ExecBody, At, Process
    <3>2. QED
      BY <3>1
  <2>6. CASE RecordMarker(p)
    <3> DEFINE q == [proc[p] EXCEPT !.pc = "commit"]
    <3>1. q.pc = "commit" /\ proc' = [proc EXCEPT ![p] = q] /\ UNCHANGED <<schema, marked>>
      BY <2>1, <2>6 DEF RecordMarker, Goto, Process
    <3>2. QED
      BY <3>1
  <2>7. CASE MigrateFails(p) \/ Crash(p)
    <3>1. proc' = [proc EXCEPT ![p] = Down] /\ UNCHANGED <<schema, marked>>
      BY <2>7 DEF MigrateFails, Crash
    <3>2. Down.pc = "down"
      BY DEF Down
    <3>3. QED
      BY <3>1, <3>2
  <2>8. QED
    BY <1>9, <2>2, <2>3, <2>4, <2>5, <2>6, <2>7
<1>10. QED
  BY <1>4, <1>5, <1>6, <1>7, <1>8, <1>9 DEF StartupNext, Step

\* The processes take the database from version to version, and serve on the
\* latest one only, whatever the number of processes, of files, of statements
\* in a file and of crashes.
THEOREM AlwaysUpgradesByVersion == StartupSpec => UpgradesByVersion
<1>1. StartupInit => Versions!Init
  <2> SUFFICES ASSUME StartupInit PROVE Versions!Init
    OBVIOUS
  <2>1. StartupInv
    BY StartupInitInv
  <2>2. Version = 0
    BY <2>1, VersionOfMarkers DEF StartupInit
  <2>3. schema = [n \in 0..Files |-> UNION {Body(f) : f \in 1..n}][0]
    BY <2>1, <2>2, VersionOfMarkers
  <2>4. \A p \in Processes : ~At(p, "serving")
    BY DEF StartupInit, At, Down
  <2>5. QED
    BY <2>2, <2>3, <2>4 DEF Versions!Init
<1>2. StartupInv /\ StartupInv' /\ [StartupNext]_startupVars => [Versions!Next]_(Versions!vars)
  BY VersionStep
<1>3. QED
  BY <1>1, <1>2, AlwaysStartupInv, PTL DEF StartupSpec, UpgradesByVersion, Versions!Spec

-----------------------------------------------------------------------------
(* AccessTokens *)

\* What a token carries: the registered claims of the moment it was issued,
\* and the names that its provider added.
CarriesClaims(tok) ==
  /\ DOMAIN tok.claims = {"sub", "iat", "exp"} \cup tok.extra
  /\ tok.claims["sub"] = tok.user
  /\ tok.claims["exp"] = NumericDate(tok.at + tok.ttl)
  /\ "typ" \in tok.extra => tok.claims["typ"] = "mfa_pending"

\* What holds of every token handed out.
Issued(tok) ==
  /\ tok.alg = "HS256"
  /\ tok.at \in Nat /\ tok.ttl \in Nat
  /\ AcceptsExtraClaims(tok.extra)
  /\ tok.kind = "pending" => "typ" \in tok.extra
  /\ CarriesClaims(tok)

TokensInv ==
  /\ clock \in Nat
  /\ issuer.ttl \in Nat
  /\ \A tok \in minted : Issued(tok)

\* A date loses less than a second when it is cut to whole seconds.
LEMMA NumericDateCuts ==
  ASSUME NEW t \in Nat
  PROVE  NumericDate(t) \in Nat /\ NumericDate(t) <= t /\ t - Second < NumericDate(t)
<1>1. PICK s \in Nat \ {0} : s = Second
  BY SecondAssumption
<1>2. /\ t \div s \in Nat /\ (t % s) \in 0..(s - 1)
      /\ t = s * (t \div s) + (t % s)
  BY <1>1
<1>3. (t \div s) * s = s * (t \div s) /\ (t \div s) * s \in Nat
  BY <1>2
<1>4. QED
  BY <1>1, <1>2, <1>3 DEF NumericDate

\* Claims that a provider may add leave the registered ones alone.
LEMMA MergeKeepsRegistered ==
  ASSUME NEW sub, NEW ttl, NEW names, AcceptsExtraClaims(names),
         NEW claims, claims = Merged(Registered(sub, ttl), ProviderClaims(names))
  PROVE  /\ DOMAIN claims = {"sub", "iat", "exp"} \cup names
         /\ claims["sub"] = sub
         /\ claims["exp"] = NumericDate(clock + ttl)
         /\ "typ" \in names => claims["typ"] = "mfa_pending"
<1>1. "sub" \notin names /\ "exp" \notin names
  BY DEF AcceptsExtraClaims, IsReservedClaim
<1>2. DOMAIN Registered(sub, ttl) = {"sub", "iat", "exp"} /\ DOMAIN ProviderClaims(names) = names
  BY DEF Registered, ProviderClaims
<1>3. Registered(sub, ttl)["sub"] = sub /\ Registered(sub, ttl)["exp"] = NumericDate(clock + ttl)
  BY DEF Registered
<1>4. "typ" \in names => ProviderClaims(names)["typ"] = "mfa_pending"
  BY DEF ProviderClaims
<1>5. QED
  BY <1>1, <1>2, <1>3, <1>4 DEF Merged

\* Mint hands out a token as described.
LEMMA MintInv ==
  ASSUME TokensInv, NEW kind, NEW user, NEW names, NEW ttl \in Nat,
         AcceptsExtraClaims(names), kind = "pending" => "typ" \in names,
         Mint(kind, user, names,
              Merged(Registered(user, ttl), ProviderClaims(names)), ttl),
         UNCHANGED <<issuer, clock>>
  PROVE  TokensInv'
<1>1. PICK claims : claims = Merged(Registered(user, ttl), ProviderClaims(names))
  OBVIOUS
<1>2. PICK tok : tok = [alg |-> "HS256", secret |-> issuer.secret,
                        claims |-> claims, kind |-> kind, user |-> user,
                        extra |-> names, at |-> clock, ttl |-> ttl]
  OBVIOUS
<1>3. Issued(tok)
  <2>1. /\ DOMAIN claims = {"sub", "iat", "exp"} \cup names
        /\ claims["sub"] = user
        /\ claims["exp"] = NumericDate(clock + ttl)
        /\ "typ" \in names => claims["typ"] = "mfa_pending"
    BY <1>1, MergeKeepsRegistered
  <2>2. QED
    BY <1>2, <2>1 DEF Issued, CarriesClaims, TokensInv
<1>4. minted' = minted \cup {tok}
  BY <1>1, <1>2 DEF Mint
<1>5. QED
  BY <1>3, <1>4 DEF TokensInv

\* No token has been handed out in the first state.
LEMMA TokensInitInv == TokensInit => TokensInv
<1> SUFFICES ASSUME TokensInit PROVE TokensInv
  OBVIOUS
<1>1. PICK t \in TTLs : t > 0 /\ issuer.ttl = t
  BY DEF TokensInit
<1>2. issuer.ttl \in Nat
  BY <1>1, LifetimesAssumption
<1>3. QED
  BY <1>2 DEF TokensInit, TokensInv

\* Both issuers put the claims that Issued names, and the clock only rises.
LEMMA TokensNextInv == TokensInv /\ [TokensNext]_tokenVars => TokensInv'
<1> SUFFICES ASSUME TokensInv, [TokensNext]_tokenVars PROVE TokensInv'
  OBVIOUS
<1>1. CASE \E u \in Subjects, names \in HostClaims : IssueWithContext(u, names)
  <2>1. PICK u \in Subjects, names \in HostClaims : IssueWithContext(u, names)
    BY <1>1
  <2>2. PICK t : t = issuer.ttl
    OBVIOUS
  <2>3. t \in Nat /\ "access" # "pending"
    BY <2>2 DEF TokensInv
  <2>4. AcceptsExtraClaims(names) /\ UNCHANGED <<issuer, clock>>
        /\ Mint("access", u, names,
                Merged(Registered(u, t), ProviderClaims(names)), t)
    BY <2>1, <2>2 DEF IssueWithContext
  <2>5. QED
    BY <2>3, <2>4, MintInv
<1>2. CASE \E u \in Subjects : IssuePending(u)
  <2>1. PICK u \in Subjects : IssuePending(u)
    BY <1>2
  <2>2. PICK t, names, kind : /\ t \in Nat /\ t = PendingTTL
                              /\ names = {"typ"} /\ kind = "pending"
    BY LifetimesAssumption
  <2>3. AcceptsExtraClaims(names) /\ "typ" \in names
    BY <2>2 DEF AcceptsExtraClaims, IsReservedClaim
  <2>4. /\ UNCHANGED <<issuer, clock>>
        /\ Mint(kind, u, names,
                Merged(Registered(u, t), ProviderClaims(names)), t)
    BY <2>1, <2>2 DEF IssuePending
  <2>5. QED
    BY <2>2, <2>3, <2>4, MintInv
<1>3. CASE \E s \in Secrets, t \in TTLs : NewJWTIssuer(s, t)
  <2>1. PICK s \in Secrets, t \in TTLs : NewJWTIssuer(s, t)
    BY <1>3
  <2>2. t \in Nat /\ issuer'.ttl = t /\ clock' = clock /\ minted' = minted
    <3>1. t \in Int /\ t > 0
      BY <2>1, LifetimesAssumption DEF NewJWTIssuer
    <3>2. t \in Nat
      BY <3>1
    <3>3. issuer' = [secret |-> s, ttl |-> t] /\ clock' = clock /\ minted' = minted
      BY <2>1 DEF NewJWTIssuer
    <3>4. QED
      BY <3>2, <3>3
  <2>3. QED
    BY <2>2 DEF TokensInv, Issued, CarriesClaims
<1>4. CASE TokenTick
  BY <1>4 DEF TokenTick, TokensInv, Issued, CarriesClaims
<1>5. CASE UNCHANGED tokenVars
  BY <1>5 DEF tokenVars, TokensInv, Issued, CarriesClaims
<1>6. QED
  BY <1>1, <1>2, <1>3, <1>4, <1>5 DEF TokensNext

\* Every token that is ever handed out is as Issued says.
LEMMA AlwaysTokensInv == TokensSpec => []TokensInv
  BY TokensInitInv, TokensNextInv, PTL DEF TokensSpec

(***************************************************************************)
(* For any secrets, lifetimes and claims providers, an access token that   *)
(* is accepted names the user it was issued to, within its lifetime and    *)
(* with the host's claims and no others, and a pending token completes its *)
(* own user's login: checkExtraClaims keeps every provider off the         *)
(* registered claims, and exp is cut by less than a second.                *)
(***************************************************************************)
THEOREM AlwaysTokenSpeaksForItsUser == TokensSpec => []TokenSpeaksForItsUser
<1>1. TokensInv => TokenSpeaksForItsUser
  <2> SUFFICES ASSUME TokensInv, NEW tok \in minted
               PROVE
    /\ tok.kind = "access" /\ VerifyWithClaims(tok) # "" =>
         /\ VerifyWithClaims(tok) = tok.user
         /\ tok.secret = issuer.secret
         /\ clock < tok.at + tok.ttl
         /\ ClaimsForHost(tok) = tok.extra
    /\ VerifyPending(tok) # "" =>
         /\ tok.kind = "pending" \/ "typ" \in tok.extra
         /\ VerifyPending(tok) = tok.user
         /\ tok.secret = issuer.secret
         /\ clock < tok.at + tok.ttl
    /\ tok.secret = issuer.secret /\ tok.user # ""
       /\ clock <= tok.at + tok.ttl - Second
       => tok.user = IF tok.kind = "pending" THEN VerifyPending(tok)
                                             ELSE VerifyWithClaims(tok)
    BY DEF TokenSpeaksForItsUser
  <2>1. Issued(tok) /\ clock \in Nat
    BY DEF TokensInv
  <2>2. PICK end \in Nat : end = tok.at + tok.ttl
    BY <2>1 DEF Issued
  <2>3. /\ NumericDate(end) \in Nat /\ NumericDate(end) <= end
        /\ end - Second < NumericDate(end)
    BY <2>2, NumericDateCuts
  <2>4. /\ tok.claims["exp"] = NumericDate(end)
        /\ tok.claims["sub"] = tok.user
        /\ DOMAIN tok.claims = {"sub", "iat", "exp"} \cup tok.extra
        /\ "typ" \in tok.extra => tok.claims["typ"] = "mfa_pending"
    BY <2>1, <2>2 DEF Issued, CarriesClaims
  <2>5. Parses(tok, issuer.secret) <=>
          tok.secret = issuer.secret /\ clock < NumericDate(end)
    BY <2>1, <2>4 DEF Parses, Issued
  <2>6. VerifyWithClaims(tok) =
          IF Parses(tok, issuer.secret) THEN tok.user ELSE ""
    BY <2>4 DEF VerifyWithClaims
  <2>7. VerifyPending(tok) =
          IF Parses(tok, issuer.secret) /\ "typ" \in tok.extra
          THEN tok.user ELSE ""
    BY <2>4 DEF VerifyPending
  <2>8. ClaimsForHost(tok) = tok.extra
    BY <2>1, <2>4 DEF ClaimsForHost, Issued, AcceptsExtraClaims, IsReservedClaim
  <2>9. ASSUME Parses(tok, issuer.secret)
        PROVE  tok.secret = issuer.secret /\ clock < tok.at + tok.ttl
    <3>1. tok.secret = issuer.secret /\ clock < NumericDate(end)
      BY <2>5, <2>9
    <3>2. clock < end
      BY <2>1, <2>3, <3>1
    <3>3. QED
      BY <2>2, <3>1, <3>2
  <2>10. ASSUME tok.secret = issuer.secret,
                clock <= tok.at + tok.ttl - Second
         PROVE  Parses(tok, issuer.secret)
    <3>1. clock <= end - Second
      BY <2>1, <2>2, <2>10, SecondAssumption DEF Issued
    <3>2. clock < NumericDate(end)
      BY <2>1, <2>3, <3>1, SecondAssumption
    <3>3. QED
      BY <2>5, <2>10, <3>2
  <2>11. tok.kind = "pending" => "typ" \in tok.extra
    BY <2>1 DEF Issued
  <2>12. QED
    BY <2>6, <2>7, <2>8, <2>9, <2>10, <2>11
<1>2. QED
  BY <1>1, AlwaysTokensInv, PTL

-----------------------------------------------------------------------------
(* EngineWiring *)

\* What the facade's guards rely on, of the parts e of an engine: the parts
\* every engine has, what comes with each second factor, and the token store
\* that comes with the magic-link sender.
Fits(e) ==
  /\ {"users", "sessions", "audit", "logger", "hasher", "ids", "rate_limiter",
      "refresh_gen", "jwt_issuer"} \subseteq e
  /\ "totp" \in e => {"pending_issuer", "encryptor", "totp_gen"} \subseteq e
  /\ "webauthn" \in e =>
       {"pending_issuer", "encryptor", "webauthn_provider"} \subseteq e
  /\ "magic_link_sender" \in e => "verifications" \in e

WiringInv == engine # NoEngine => Fits(engine)

\* A call that finds its parts.
Served(call, e) == call.guard \subseteq e => call.uses \subseteq e

\* New builds parts that fit.
LEMMA NewFits ==
  ASSUME NEW c, NEW d, NEW e, Validate(c), d = ApplyDefaults(c),
         e = (Kept \cap d.fields) \cup Constructed(d)
  PROVE  Fits(e)
<1>1. PICK supplied, fields : /\ supplied = c.fields
                           /\ fields = d.fields
  OBVIOUS
<1>2. /\ Required \subseteq supplied
      /\ "magic_link_sender" \in supplied => "verifications" \in supplied
  BY <1>1 DEF Validate, Has
<1>3. /\ supplied \subseteq fields
      /\ "logger" \in fields
      /\ "magic_link_sender" \in fields => "magic_link_sender" \in supplied
  BY <1>1 DEF ApplyDefaults
<1>4. /\ {"hasher", "ids", "rate_limiter", "refresh_gen", "jwt_issuer"}
           \subseteq Constructed(d)
      /\ "totp" \in fields =>
           {"pending_issuer", "encryptor", "totp_gen"} \subseteq Constructed(d)
      /\ "webauthn" \in fields =>
           {"pending_issuer", "encryptor", "webauthn_provider"}
             \subseteq Constructed(d)
      /\ "totp" \notin Constructed(d) /\ "webauthn" \notin Constructed(d)
      /\ "magic_link_sender" \notin Constructed(d)
  BY <1>1 DEF Constructed, Has
<1>5. /\ {"users", "sessions", "audit", "logger"} \subseteq Kept \cap fields
      /\ "verifications" \in Kept
  BY <1>2, <1>3 DEF Kept, Required
<1>6. e = (Kept \cap fields) \cup Constructed(d)
  BY <1>1
<1>7. QED
  BY <1>2, <1>3, <1>4, <1>5, <1>6 DEF Fits

\* The parts that completePrimaryAuth uses are there.
LEMMA PrimaryAuthFits ==
  ASSUME NEW e, Fits(e)
  PROVE  PrimaryAuth(e) \subseteq e
  BY DEF PrimaryAuth, Fits

\* Each group of facade functions finds its parts in an engine that fits.
LEMMA PlainCallsServed ==
  ASSUME NEW e, Fits(e),
         NEW call \in PasswordCalls(e) \cup LogoutCalls \cup TokenAndSessionCalls
                      \cup AdminCalls
  PROVE  Served(call, e)
<1>1. PrimaryAuth(e) \subseteq e
  BY PrimaryAuthFits
<1>2. CASE call \in PasswordCalls(e)
  BY <1>1, <1>2 DEF PasswordCalls, Call, Fits, Served
<1>3. CASE call \in LogoutCalls \cup TokenAndSessionCalls \cup AdminCalls
  BY <1>3 DEF LogoutCalls, TokenAndSessionCalls, AdminCalls, Call, Fits, Served
<1>4. QED
  BY <1>2, <1>3

\* The calls about emails, OAuth, links and keys find their parts.
LEMMA LinkCallsServed ==
  ASSUME NEW e, Fits(e),
         NEW call \in EmailCalls \cup OAuthCalls(e) \cup MagicLinkCalls(e)
                      \cup APIKeyCalls
  PROVE  Served(call, e)
<1>1. PrimaryAuth(e) \subseteq e
  BY PrimaryAuthFits
<1>2. CASE call \in EmailCalls
  BY <1>2 DEF EmailCalls, Call, Fits, Served
<1>3. CASE call \in OAuthCalls(e)
  BY <1>1, <1>3 DEF OAuthCalls, Call, Fits, Served
<1>4. CASE call \in MagicLinkCalls(e)
  BY <1>1, <1>4 DEF MagicLinkCalls, Call, Fits, Served
<1>5. CASE call \in APIKeyCalls
  BY <1>5 DEF APIKeyCalls, Call, Fits, Served
<1>6. QED
  BY <1>2, <1>3, <1>4, <1>5

\* The calls about TOTP and passkeys find their parts.
LEMMA FactorCallsServed ==
  ASSUME NEW e, Fits(e), NEW call \in TOTPCalls \cup PasskeyCalls
  PROVE  Served(call, e)
<1>1. CASE call \in TOTPCalls
  BY <1>1 DEF TOTPCalls, Call, Fits, Served
<1>2. CASE call \in PasskeyCalls
  BY <1>2 DEF PasskeyCalls, Call, Fits, Served
<1>3. QED
  BY <1>1, <1>2

\* Recovery codes can be generated in any engine that has their store, and
\* redeemed where a second factor brought the pending issuer.
LEMMA RecoveryCallsServed ==
  ASSUME NEW e, Fits(e)
  PROVE  /\ Served(GenerateRecoveryCodesCall, e)
         /\ \/ Served(CompleteLoginWithRecoveryCodeCall, e)
            \/ e \cap {"totp", "webauthn"} = {}
<1>1. Served(GenerateRecoveryCodesCall, e)
  BY DEF GenerateRecoveryCodesCall, Call, Fits, Served
<1>2. CASE "pending_issuer" \in e
  BY <1>1, <1>2 DEF CompleteLoginWithRecoveryCodeCall, Call, Fits, Served
<1>3. CASE "pending_issuer" \notin e
  BY <1>1, <1>3 DEF Fits
<1>4. QED
  BY <1>2, <1>3

\* Whatever New returned fits.
LEMMA AlwaysWiringInv == WiringSpec => []WiringInv
<1>1. WiringInit => WiringInv
  BY DEF WiringInit, WiringInv
<1>2. WiringInv /\ [WiringNext]_wiringVars => WiringInv'
  <2> SUFFICES ASSUME WiringInv, [WiringNext]_wiringVars PROVE WiringInv'
    OBVIOUS
  <2>1. CASE New
    <3>1. PICK c, d, e : c = config /\ d = ApplyDefaults(c) /\ e = engine'
      OBVIOUS
    <3>2. Validate(c) /\ e = (Kept \cap d.fields) \cup Constructed(d)
      BY <2>1, <3>1 DEF New
    <3>3. Fits(e)
      BY <3>1, <3>2, NewFits
    <3>4. QED
      BY <3>1, <3>3 DEF WiringInv, Fits
  <2>2. CASE UNCHANGED wiringVars
    BY <2>2 DEF WiringInv, wiringVars, Fits
  <2>3. QED
    BY <2>1, <2>2 DEF WiringNext
<1>3. QED
  BY <1>1, <1>2, PTL DEF WiringSpec

(***************************************************************************)
(* For every Config that New accepts, each facade function finds the parts *)
(* it dereferences or reports its feature as not configured, except for    *)
(* CompleteLoginWithRecoveryCode in an engine without a second factor.     *)
(***************************************************************************)
THEOREM AlwaysCallsFindTheirParts == WiringSpec => []CallsFindTheirParts
<1>1. WiringInv => CallsFindTheirParts
  <2> SUFFICES ASSUME WiringInv, engine # NoEngine,
                      NEW call \in FacadeCalls(engine),
                      call.guard \subseteq engine,
                      ~(call.uses \subseteq engine)
               PROVE  /\ call = CompleteLoginWithRecoveryCodeCall
                      /\ engine \cap {"totp", "webauthn"} = {}
    BY DEF CallsFindTheirParts
  <2>1. PICK e : e = engine
    OBVIOUS
  <2>2. Fits(e) /\ ~Served(call, e) /\ call \in FacadeCalls(e)
    BY <2>1 DEF WiringInv, Served
  <2>3. call \in {GenerateRecoveryCodesCall, CompleteLoginWithRecoveryCodeCall}
    BY <2>2, PlainCallsServed, LinkCallsServed, FactorCallsServed DEF FacadeCalls
  <2>4. QED
    BY <2>1, <2>2, <2>3, RecoveryCallsServed
<1>2. QED
  BY <1>1, AlwaysWiringInv, PTL

-----------------------------------------------------------------------------
(* Credentials *)

\* A primary hasher that New accepted.
Running(h) ==
  \/ h.kind = "bcrypt" /\ h.cost \in Int
  \/ /\ h.kind = "argon2id"
     /\ h.params \in [mem : Nat, iter : Nat, par : Nat, salt : Nat, key : Nat]
     /\ ValidParams(h.params)
  \/ h.kind = "custom" /\ h.name \notin {"bcrypt", "argon2id"}

\* x is a hash of pw, in whatever format, with the numbers that its text has.
IsHashOf(x, pw) ==
  /\ x.key = IF x.format = "argon2id"
             THEN IDKey(pw, DecodeArgon2idHash(x)) ELSE pw.name
  /\ x.format = "bcrypt" => x.cost \in Int
  /\ x.format = "argon2id" => {x.m, x.t, x.p, x.salt, x.keyLen} \subseteq Nat

CredentialsInv == Running(hasher) /\ IsHashOf(stored, owner)

\* What the constructors accept is a hasher that can run.
LEMMA NewPrimaryRuns ==
  ASSUME NEW h \in Hashers, Constructible(h)
  PROVE  Running(NewPrimary(h))
<1>1. CASE h \in [kind : {"bcrypt"}, cost : Int]
  BY <1>1 DEF NewPrimary, Running
<1>2. CASE h \in [kind : {"argon2id"},
                  params : [mem : Nat, iter : Nat, par : Nat, salt : Nat, key : Nat]]
  <2>1. PICK n : n = NewArgon2idHasher(h.params)
    OBVIOUS
  <2>2. NewPrimary(h) = n /\ ValidParams(n.params)
    BY <1>2, <2>1 DEF NewPrimary, Constructible
  <2>3. /\ n.kind = "argon2id"
        /\ n.params \in [mem : Nat, iter : Nat, par : Nat, salt : Nat, key : Nat]
    BY <1>2, <2>1 DEF NewArgon2idHasher, DefaultArgon2idParams, Argon2idParams
  <2>4. QED
    BY <2>2, <2>3 DEF Running
<1>3. CASE h \in [kind : {"custom"}, name : STRING \ {"bcrypt", "argon2id"},
                  rehasher : BOOLEAN]
  BY <1>3 DEF NewPrimary, Running
<1>4. QED
  BY <1>1, <1>2, <1>3, HashersAssumption

\* A row that another program wrote is a hash of the password it was made for.
LEMMA ImportedIsHash ==
  ASSUME NEW x \in Imported, NEW pw
  PROVE  IsHashOf(ImportedHash(x, pw), pw)
<1> DEFINE key == IF x.format = "argon2id"
                  THEN IDKey(pw, DecodeArgon2idHash(x)) ELSE pw.name
<1>1. PICK k, y : k = key /\ y = [x EXCEPT !.key = k]
  OBVIOUS
<1>2. y = ImportedHash(x, pw)
  BY <1>1 DEF ImportedHash
<1>3. /\ y.key = k
      /\ \A f \in DOMAIN x \ {"key"} : y[f] = x[f]
  BY <1>1, ImportedAssumption
<1>4. y.format = x.format
  BY <1>3, ImportedAssumption
<1>5. CASE x.format = "argon2id"
  <2>1. y.m = x.m /\ y.t = x.t /\ y.p = x.p /\ y.salt = x.salt /\ y.keyLen = x.keyLen
    BY <1>3, <1>5, ImportedAssumption
  <2>2. DecodeArgon2idHash(y) = DecodeArgon2idHash(x)
    BY <2>1 DEF DecodeArgon2idHash
  <2>3. y.key = IDKey(pw, DecodeArgon2idHash(y))
    BY <1>1, <1>3, <1>5, <2>2
  <2>4. QED
    BY <1>2, <1>4, <1>5, <2>1, <2>3, ImportedAssumption DEF IsHashOf
<1>6. CASE x.format # "argon2id"
  <2>1. x.format = "bcrypt" => y.cost = x.cost /\ x.cost \in Int
    BY <1>3, ImportedAssumption
  <2>2. QED
    BY <1>1, <1>2, <1>3, <1>4, <1>6, <2>1 DEF IsHashOf
<1>7. QED
  BY <1>5, <1>6

\* What the running hasher writes is a hash of the password.
LEMMA HashIsHash ==
  ASSUME Running(hasher), NEW pw
  PROVE  IsHashOf(Hash(pw), pw)
<1>1. CASE hasher.kind = "bcrypt"
  BY <1>1 DEF Hash, BcryptHash, IsHashOf, Running
<1>2. CASE hasher.kind = "argon2id"
  <2>1. PICK p \in [mem : Nat, iter : Nat, par : Nat, salt : Nat, key : Nat] :
          p = hasher.params
    BY <1>2 DEF Running
  <2>2. PICK x : x = Hash(pw)
    OBVIOUS
  <2>3. x = [format |-> "argon2id", version |-> 19, clean |-> TRUE, m |-> p.mem,
             t |-> p.iter, p |-> p.par, salt |-> p.salt, keyLen |-> p.key,
             key |-> IDKey(pw, p)]
    BY <1>2, <2>1, <2>2 DEF Hash, Argon2idHash, EncodeArgon2idHash
  <2>4. DecodeArgon2idHash(x) = p
    BY <2>3 DEF DecodeArgon2idHash, Argon2idParams
  <2>5. QED
    BY <2>2, <2>3, <2>4 DEF IsHashOf
<1>3. CASE hasher.kind = "custom"
  BY <1>3 DEF Hash, CustomHash, IsHashOf, Running
<1>4. QED
  BY <1>1, <1>2, <1>3 DEF Running

\* A hash that some hasher at hand can read verifies its own password only.
LEMMA CompareIsExact ==
  ASSUME Running(hasher), NEW x, NEW mine, IsHashOf(x, mine), NEW pw,
         Readable(x) \/ (hasher.kind = "custom" /\ x.format = hasher.name)
  PROVE  Compare(x, pw) <=> pw.name = mine.name
<1>1. CASE x.format = "bcrypt"
  BY <1>1 DEF Compare, IdentifyHash, BcryptCompare, IsHashOf
<1>2. CASE x.format = "argon2id"
  <2>1. Decodes(x)
    BY <1>2 DEF Readable, Running
  <2>2. PICK p : p = DecodeArgon2idHash(x)
    OBVIOUS
  <2>3. x.key = <<mine.name, p>>
    BY <1>2, <2>2 DEF IsHashOf, IDKey
  <2>4. Compare(x, pw) <=> <<pw.name, p>> = x.key
    BY <1>2, <2>1, <2>2 DEF Compare, IdentifyHash, Argon2idCompare, IDKey
  <2>5. QED
    BY <2>3, <2>4
<1>3. CASE x.format \notin {"bcrypt", "argon2id"}
  <2>1. hasher.kind = "custom" /\ x.format = hasher.name
    BY <1>3 DEF Readable, Decodes
  <2>2. IdentifyHash(x) = "unknown"
    BY <1>3 DEF IdentifyHash
  <2>3. Compare(x, pw) <=> CustomCompare(hasher, x, pw)
    BY <2>1, <2>2 DEF Compare
  <2>4. QED
    BY <1>3, <2>1, <2>3 DEF CustomCompare, IsHashOf
<1>4. QED
  BY <1>1, <1>2, <1>3

\* What verifies can be read, so it is the password the hash was made from.
LEMMA CompareIsSound ==
  ASSUME Running(hasher), NEW x, NEW mine, IsHashOf(x, mine), NEW pw, Compare(x, pw)
  PROVE  pw.name = mine.name
<1>1. Readable(x) \/ (hasher.kind = "custom" /\ x.format = hasher.name)
  BY DEF Compare, IdentifyHash, Readable, Argon2idCompare, BcryptCompare,
         CustomCompare
<1>2. QED
  BY <1>1, CompareIsExact

\* A hash of one password is a hash of every password with that text.
LEMMA SameNameSameHash ==
  ASSUME NEW x, NEW pw, NEW mine, IsHashOf(x, pw), pw.name = mine.name
  PROVE  IsHashOf(x, mine)
  BY DEF IsHashOf, IDKey

\* The first hasher can run, and the first hash is of the first password.
LEMMA CredentialsInitInv == CredentialsInit => CredentialsInv
<1> SUFFICES ASSUME CredentialsInit PROVE CredentialsInv
  OBVIOUS
<1>1. Running(hasher)
  BY NewPrimaryRuns DEF CredentialsInit
<1>2. IsHashOf(stored, owner)
  BY <1>1, HashIsHash, ImportedIsHash DEF CredentialsInit
<1>3. QED
  BY <1>1, <1>2 DEF CredentialsInv

\* Deployments, logins and password changes keep the invariant.
LEMMA CredentialsNextInv ==
  CredentialsInv /\ [CredentialsNext]_credentialVars => CredentialsInv'
<1> SUFFICES ASSUME CredentialsInv, [CredentialsNext]_credentialVars
             PROVE  CredentialsInv'
  OBVIOUS
<1>1. PICK primary, row, mine : primary = hasher' /\ row = stored' /\ mine = owner'
  OBVIOUS
<1>2. SUFFICES Running(primary) /\ IsHashOf(row, mine)
  BY <1>1 DEF CredentialsInv, Running, IsHashOf
<1>3. CASE \E h \in Hashers, p \in Policies : Deploy(h, p)
  <2>1. PICK h \in Hashers, p \in Policies : Deploy(h, p)
    BY <1>3
  <2>2. Running(primary)
    BY <1>1, <2>1, NewPrimaryRuns DEF Deploy, CredentialsInv
  <2>3. QED
    BY <1>1, <2>1, <2>2 DEF Deploy, CredentialsInv
<1>4. CASE \E pw \in Passwords : PasswordLogin(pw)
  <2>1. PICK pw \in Passwords : PasswordLogin(pw)
    BY <1>4
  <2>2. primary = hasher /\ mine = owner
    BY <1>1, <2>1 DEF PasswordLogin
  <2>3. CASE row = stored
    BY <2>2, <2>3 DEF CredentialsInv
  <2>4. CASE row # stored
    <3>1. Compare(stored, pw) /\ row = Hash(pw)
      BY <1>1, <2>1, <2>4 DEF PasswordLogin
    <3>2. PICK x, old : x = stored /\ old = owner
      OBVIOUS
    <3>3. pw.name = old.name
      BY <3>1, <3>2, CompareIsSound DEF CredentialsInv
    <3>4. IsHashOf(row, pw)
      BY <3>1, HashIsHash DEF CredentialsInv
    <3>5. QED
      BY <2>2, <3>2, <3>3, <3>4, SameNameSameHash DEF CredentialsInv
  <2>5. QED
    BY <2>3, <2>4
<1>5. CASE \E current, pw \in Passwords, f \in BOOLEAN : SetPassword(current, pw, f)
  <2>1. PICK current \in Passwords, pw \in Passwords, f \in BOOLEAN :
          SetPassword(current, pw, f)
    BY <1>5
  <2>2. primary = hasher
    BY <1>1, <2>1 DEF SetPassword
  <2>3. (row = Hash(pw) /\ mine = pw) \/ (row = stored /\ mine = owner)
    BY <1>1, <2>1 DEF SetPassword
  <2>4. QED
    BY <2>2, <2>3, HashIsHash DEF CredentialsInv
<1>6. CASE UNCHANGED credentialVars
  BY <1>1, <1>6 DEF CredentialsInv, credentialVars
<1>7. QED
  BY <1>3, <1>4, <1>5, <1>6 DEF CredentialsNext

\* The stored hash is always one of the owner's password.
LEMMA AlwaysCredentialsInv == CredentialsSpec => []CredentialsInv
  BY CredentialsInitInv, CredentialsNextInv, PTL DEF CredentialsSpec

(***************************************************************************)
(* Whatever hashers and policies a host deploys one after another, the     *)
(* owner's password and no other verifies against a hash that is readable. *)
(***************************************************************************)
THEOREM AlwaysSwitchLocksNobodyOut == CredentialsSpec => []SwitchLocksNobodyOut
<1>1. CredentialsInv => SwitchLocksNobodyOut
  <2> SUFFICES ASSUME CredentialsInv,
                      \/ Readable(stored)
                      \/ hasher.kind = "custom" /\ stored.format = hasher.name,
                      NEW pw \in Passwords
               PROVE  Compare(stored, pw) <=> pw.name = owner.name
    BY DEF SwitchLocksNobodyOut
  <2>1. PICK x, mine : x = stored /\ mine = owner
    OBVIOUS
  <2>2. QED
    BY <2>1, CompareIsExact DEF CredentialsInv
<1>2. QED
  BY <1>1, AlwaysCredentialsInv, PTL

\* What the running hasher writes needs no rewrite.
LEMMA HashIsFresh ==
  ASSUME Running(hasher), NEW pw
  PROVE  ~NeedsRehash(Hash(pw))
<1>1. PICK x : x = Hash(pw)
  OBVIOUS
<1>2. CASE hasher.kind = "bcrypt"
  <2>1. x.format = "bcrypt" /\ x.cost = hasher.cost /\ hasher.cost \in Int
    BY <1>1, <1>2 DEF Hash, BcryptHash, Running
  <2>2. ~BcryptNeedsRehash(hasher, x)
    BY <2>1 DEF BcryptNeedsRehash
  <2>3. QED
    BY <1>1, <1>2, <2>2 DEF NeedsRehash
<1>3. CASE hasher.kind = "argon2id"
  <2>1. PICK p \in [mem : Nat, iter : Nat, par : Nat, salt : Nat, key : Nat] :
          p = hasher.params
    BY <1>3 DEF Running
  <2>2. x = [format |-> "argon2id", version |-> 19, clean |-> TRUE, m |-> p.mem,
             t |-> p.iter, p |-> p.par, salt |-> p.salt, keyLen |-> p.key,
             key |-> IDKey(pw, p)]
    BY <1>1, <1>3, <2>1 DEF Hash, Argon2idHash, EncodeArgon2idHash
  <2>3. ValidParams(p)
    BY <1>3, <2>1 DEF Running
  <2>4. Decodes(x)
    BY <2>2, <2>3 DEF Decodes, ValidParams
  <2>5. DecodeArgon2idHash(x) = p
    BY <2>2 DEF DecodeArgon2idHash, Argon2idParams
  <2>6. ~Argon2idNeedsRehash(hasher, x)
    BY <2>1, <2>4, <2>5 DEF Argon2idNeedsRehash
  <2>7. QED
    BY <1>1, <1>3, <2>6 DEF NeedsRehash
<1>4. CASE hasher.kind = "custom"
  BY <1>4 DEF Hash, CustomHash, NeedsRehash
<1>5. QED
  BY <1>2, <1>3, <1>4 DEF Running

\* A readable hash that is to be rewritten is weaker somewhere.
LEMMA StaleIsWeaker ==
  ASSUME Running(hasher), NEW x, NEW mine, IsHashOf(x, mine), Readable(x),
         NeedsRehash(x)
  PROVE  ~AsStrong(x, hasher)
<1>1. CASE hasher.kind = "bcrypt"
  <2>1. x.format # "bcrypt" \/ x.cost < hasher.cost
    BY <1>1 DEF NeedsRehash, BcryptNeedsRehash
  <2>2. hasher.cost \in Int /\ (x.format = "bcrypt" => x.cost \in Int)
    BY <1>1 DEF Running, IsHashOf
  <2>3. ~(x.format = "bcrypt" /\ x.cost >= hasher.cost)
    BY <2>1, <2>2
  <2>4. QED
    BY <1>1, <2>3 DEF AsStrong
<1>2. CASE hasher.kind = "argon2id"
  <2>1. CASE x.format # "argon2id"
    BY <1>2, <2>1 DEF AsStrong
  <2>2. CASE x.format = "argon2id"
    <3>1. PICK p \in [mem : Nat, iter : Nat, par : Nat, salt : Nat, key : Nat] :
            p = hasher.params
      BY <1>2 DEF Running
    <3>2. Decodes(x)
      BY <2>2 DEF Readable
    <3>3. \/ x.m < p.mem \/ x.t < p.iter
          \/ x.salt < p.salt \/ x.keyLen < p.key
      BY <1>2, <3>1, <3>2
      DEF NeedsRehash, Argon2idNeedsRehash, DecodeArgon2idHash, Argon2idParams
    <3>4. x.m \in Nat /\ x.t \in Nat /\ x.salt \in Nat /\ x.keyLen \in Nat
      BY <2>2 DEF IsHashOf
    <3>5. ~(x.m >= p.mem /\ x.t >= p.iter /\ x.salt >= p.salt /\ x.keyLen >= p.key)
      BY <3>3, <3>4
    <3>6. QED
      BY <1>2, <3>1, <3>5 DEF AsStrong
  <2>3. QED
    BY <2>1, <2>2
<1>3. CASE hasher.kind = "custom"
  BY <1>3 DEF AsStrong
<1>4. QED
  BY <1>1, <1>2, <1>3 DEF Running

(***************************************************************************)
(* No login rewrites a hash that is at least as strong as the hasher's, and*)
(* none leaves one that the next login would rewrite again, for every      *)
(* choice of parameters that the constructors accept.                      *)
(***************************************************************************)
THEOREM AlwaysRehashConverges == CredentialsSpec => RehashConverges
<1>1. CredentialsInv /\ [CredentialsNext]_credentialVars =>
        [(\E pw \in Passwords : PasswordLogin(pw))
         /\ stored' # stored /\ Readable(stored)
         => ~AsStrong(stored, hasher) /\ ~NeedsRehash(stored')]_credentialVars
  <2> SUFFICES ASSUME CredentialsInv, NEW pw \in Passwords, PasswordLogin(pw),
                      stored' # stored, Readable(stored)
               PROVE  ~AsStrong(stored, hasher) /\ ~NeedsRehash(stored')
    OBVIOUS
  <2>1. NeedsRehash(stored) /\ stored' = Hash(pw)
    BY DEF PasswordLogin
  <2>2. PICK x, mine, row : x = stored /\ mine = owner /\ row = stored'
    OBVIOUS
  <2>3. ~AsStrong(x, hasher)
    BY <2>1, <2>2, StaleIsWeaker DEF CredentialsInv
  <2>4. ~NeedsRehash(row)
    BY <2>1, <2>2, HashIsFresh DEF CredentialsInv
  <2>5. QED
    BY <2>2, <2>3, <2>4
<1>2. QED
  BY <1>1, AlwaysCredentialsInv, PTL DEF CredentialsSpec, RehashConverges

-----------------------------------------------------------------------------
(* AskQueries *)

\* What Ask may return, for an intent that the model may produce.
AskInv ==
  /\ asked \in Intents
  /\ answer # Null => answer \in AskAnswers(asked, caller)

\* An answer is always one that Ask may give to an intent of the model.
LEMMA AlwaysAskInv == AskSpec => []AskInv
<1>1. AskInit => AskInv
  BY DEF AskInit, AskInv
<1>2. AskInv /\ [AskNext]_askVars => AskInv'
  <2> SUFFICES ASSUME AskInv, [AskNext]_askVars PROVE AskInv'
    OBVIOUS
  <2>1. store' = store /\ caller' = caller /\ asked' = asked
    BY DEF AskNext, Ask, askVars
  <2>2. answer' # Null => answer' \in AskAnswers(asked, caller)
    BY DEF AskInv, AskNext, Ask, askVars
  <2>3. AskAnswers(asked, caller)' = AskAnswers(asked, caller)
    BY <2>1 DEF AskAnswers, ExecuteIntent, RunSafeQuery, PgTypeError
  <2>4. QED
    BY <2>1, <2>2, <2>3 DEF AskInv
<1>3. QED
  BY <1>1, <1>2, PTL DEF AskSpec

\* Scoping leaves all of an intent but its filters, among which is now the
\* one that names the owner.
LEMMA ScopedIntent ==
  ASSUME NEW i \in Intents, NEW o, NEW j, j = ScopeToOwner(i, o)
  PROVE  /\ j.entity = i.entity /\ j.aggregate = i.aggregate
         /\ j.groupBy = i.groupBy /\ j.limit = i.limit
         /\ DOMAIN j = {"entity", "filters", "aggregate", "groupBy", "limit"}
         /\ Filter(OwnerColumn(i.entity), "=", o) \in j.filters
<1>1. PICK kept : j = [i EXCEPT !.filters = kept]
                  /\ Filter(OwnerColumn(i.entity), "=", o) \in kept
  BY DEF ScopeToOwner, OwnerColumn
<1>2. QED
  BY <1>1, IntentsAssumption

\* The identity filters of an intent make no difference to its scoped form.
LEMMA ScopeForgets ==
  ASSUME NEW i \in Intents, NEW o, NEW bare,
         bare = [i EXCEPT !.filters =
                   {f \in @ : i.entity # "users" /\ f.field # "user_id"}]
  PROVE  ScopeToOwner(bare, o) = ScopeToOwner(i, o) /\ bare.entity = i.entity
<1>1. PICK kept : kept = {f \in i.filters : i.entity # "users" /\ f.field # "user_id"}
  OBVIOUS
<1>2. /\ bare = [i EXCEPT !.filters = kept]
      /\ bare.entity = i.entity /\ bare.filters = kept
  BY <1>1, IntentsAssumption
<1>3. CASE i.entity = "users"
  BY <1>2, <1>3, IntentsAssumption DEF ScopeToOwner
<1>4. CASE i.entity # "users"
  <2>1. PICK scoped : scoped = {f \in i.filters : f.field # "user_id"}
                               \cup {Filter("user_id", "=", o)}
    OBVIOUS
  <2>2. {f \in kept : f.field # "user_id"} \cup {Filter("user_id", "=", o)} = scoped
    BY <1>1, <1>4, <2>1
  <2>3. ScopeToOwner(i, o) = [i EXCEPT !.filters = scoped]
    BY <1>4, <2>1 DEF ScopeToOwner
  <2>4. ScopeToOwner(bare, o) = [bare EXCEPT !.filters = scoped]
    BY <1>2, <1>4, <2>2 DEF ScopeToOwner
  <2>5. QED
    BY <1>2, <2>3, <2>4, IntentsAssumption
<1>5. QED
  BY <1>3, <1>4

\* What the stores return for a valid intent: rows that match, in allowed
\* columns, and in a listing no more than the limit.
LEMMA QueryAnswers ==
  ASSUME NEW j, ValidateIntent(j), j.limit \in Nat, NEW a \in RunSafeQuery(j), ~a.error
  PROVE  /\ a.source \subseteq Matching(j)
         /\ a.columns \subseteq AllowedFields[j.entity] \cup {"count"}
         /\ j.aggregate = "" => Cardinality(a.source) <= MaxLimit
<1>1. ~PgTypeError(j)
  <2>1. ASSUME PgTypeError(j) PROVE FALSE
    <3>1. a = Refused
      BY <2>1 DEF RunSafeQuery
    <3>2. QED
      BY <3>1 DEF Refused
  <2>2. QED
    BY <2>1
<1>2. CASE j.aggregate = "count"
  <2>1. a = RunCount(j)
    BY <1>1, <1>2 DEF RunSafeQuery
  <2>2. QED
    BY <1>2, <2>1 DEF RunCount
<1>3. CASE j.aggregate = "group_by"
  <2>1. a = RunGroupBy(j)
    BY <1>1, <1>3 DEF RunSafeQuery
  <2>2. a.source = Matching(j) /\ a.columns = {j.groupBy, "count"}
    BY <2>1 DEF RunGroupBy
  <2>3. j.groupBy \in AllowedFields[j.entity]
    BY <1>3 DEF ValidateIntent
  <2>4. QED
    BY <1>3, <2>2, <2>3
<1>4. CASE j.aggregate = ""
  <2>1. a \in RunSelect(j, j.limit)
    BY <1>1, <1>4 DEF RunSafeQuery
  <2>2. PICK picked \in SUBSET Matching(j) :
          /\ a.source = picked /\ a.columns = AllowedFields[j.entity]
          /\ Cardinality(picked) = IF Cardinality(Matching(j)) < j.limit
                                   THEN Cardinality(Matching(j)) ELSE j.limit
    BY <2>1 DEF RunSelect
  <2>3. IsFiniteSet(Matching(j))
    <3>1. IsFiniteSet(Tables[j.entity])
      BY TablesAssumption DEF ValidateIntent, AllowedEntities
    <3>2. Matching(j) \subseteq Tables[j.entity]
      BY DEF Matching
    <3>3. QED
      BY <3>1, <3>2, FS_Subset
  <2>4. Cardinality(Matching(j)) \in Nat
    BY <2>3, FS_CardinalityType
  <2>5. j.limit <= MaxLimit
    BY DEF ValidateIntent
  <2>6. Cardinality(picked) <= MaxLimit
    BY <2>2, <2>4, <2>5, AskLimitsAssumption
  <2>7. QED
    BY <2>2, <2>6
<1>5. QED
  BY <1>2, <1>3, <1>4 DEF ValidateIntent, AllowedAggregates

(***************************************************************************)
(* For any intent that a language model may produce, any tables and either *)
(* store, an answer is built from the caller's own rows, in allowlisted    *)
(* columns, within the limit, and is independent of the identity filters   *)
(* that the intent came with.                                              *)
(***************************************************************************)
THEOREM AlwaysAnswerIsTheCallersOwn == AskSpec => []AnswerIsTheCallersOwn
<1>1. AskInv => AnswerIsTheCallersOwn
  <2> SUFFICES ASSUME AskInv, answer # Null, ~answer.error,
                      NEW bare, bare = [asked EXCEPT !.filters =
                        {f \in @ : asked.entity # "users" /\ f.field # "user_id"}]
               PROVE
        /\ \A row \in answer.source : row[OwnerColumn(asked.entity)] = caller
        /\ answer.columns \subseteq AllowedFields[asked.entity] \cup {"count"}
        /\ asked.aggregate = "" => Cardinality(answer.source) <= MaxLimit
        /\ answer \in AskAnswers(bare, caller)
    BY DEF AnswerIsTheCallersOwn
  <2>1. PICK a, i, o : i \in Intents /\ a = answer /\ i = asked /\ o = caller
    BY DEF AskInv
  <2>2. a \in AskAnswers(i, o) /\ ~a.error
    BY <2>1 DEF AskInv
  <2>3. AskAnswers(bare, o) = AskAnswers(i, o)
    BY <2>1, ScopeForgets DEF AskAnswers
  <2>4. PICK s : s = ScopeToOwner(i, o)
    OBVIOUS
  <2>5. PICK n : n = IF s.limit = 0 THEN DefaultLimit ELSE s.limit
    OBVIOUS
  <2>6. PICK j : j = [s EXCEPT !.limit = n]
    OBVIOUS
  <2>7. /\ j.entity = i.entity /\ j.aggregate = i.aggregate /\ j.limit = n
        /\ Filter(OwnerColumn(i.entity), "=", o) \in j.filters
    <3>1. /\ s.entity = i.entity /\ s.aggregate = i.aggregate
          /\ DOMAIN s = {"entity", "filters", "aggregate", "groupBy", "limit"}
          /\ Filter(OwnerColumn(i.entity), "=", o) \in s.filters
      BY <2>1, <2>4, ScopedIntent
    <3>2. QED
      BY <2>6, <3>1
  <2>8. a \in ExecuteIntent(s)
    BY <2>2, <2>4 DEF AskAnswers, Refused
  <2>9. ValidateIntent(j) /\ a \in RunSafeQuery(j)
    BY <2>2, <2>5, <2>6, <2>8 DEF ExecuteIntent, Refused
  <2>10. j.limit \in Nat
    <3>1. n \in Int
      <4>1. s.limit = i.limit /\ i.limit \in Int
        BY <2>1, <2>4, ScopedIntent, IntentsAssumption
      <4>2. QED
        BY <2>5, <4>1, AskLimitsAssumption
    <3>2. n >= 0
      BY <2>7, <2>9 DEF ValidateIntent
    <3>3. QED
      BY <2>7, <3>1, <3>2
  <2>11. /\ a.source \subseteq Matching(j)
         /\ a.columns \subseteq AllowedFields[j.entity] \cup {"count"}
         /\ j.aggregate = "" => Cardinality(a.source) <= MaxLimit
    BY <2>2, <2>9, <2>10, QueryAnswers
  <2>12. ASSUME NEW row \in a.source PROVE row[OwnerColumn(i.entity)] = o
    <3>1. PICK col : col = OwnerColumn(i.entity)
      OBVIOUS
    <3>2. OperatorHolds("=", row[col], o)
      BY <2>7, <2>11, <3>1 DEF Matching, Filter
    <3>3. QED
      BY <3>1, <3>2 DEF OperatorHolds
  <2>13. QED
    BY <2>1, <2>2, <2>3, <2>7, <2>11, <2>12
<1>2. QED
  BY <1>1, AlwaysAskInv, PTL

-----------------------------------------------------------------------------
(* DeviceList *)

\* The k-th is the first signature of the table that occurs, and the answer.
FirstHit(ua, table, k) ==
  /\ MatchSignature(ua, table) = table[k][2]
  /\ table[k][1] \in ua
  /\ \A j \in 1..Len(table) : table[j][1] \in ua => k <= j

\* MatchSignature's answer is "" or the name of the first signature found.
LEMMA MatchIsFirst ==
  ASSUME NEW ua, NEW table, NEW n \in Nat, n = Len(table)
  PROVE  MatchSignature(ua, table) = "" \/ \E k \in 1..n : FirstHit(ua, table, k)
<1>1. PICK hits : hits = {k \in 1..Len(table) : table[k][1] \in ua}
  OBVIOUS
<1>2. CASE hits = {}
  BY <1>1, <1>2 DEF MatchSignature
<1>3. CASE hits # {}
  <2>0. hits \subseteq Nat
    BY <1>1
  <2>1. \E k \in hits : \A j \in hits : k <= j
    BY <1>3, <2>0, LeastNumber
  <2>2. PICK k : k = CHOOSE i \in hits : \A j \in hits : i <= j
    OBVIOUS
  <2>3. k \in hits /\ \A j \in hits : k <= j
    BY <2>1, <2>2
  <2>4. MatchSignature(ua, table) = table[k][2]
    BY <1>1, <1>3, <2>2 DEF MatchSignature
  <2>5. QED
    BY <1>1, <2>3, <2>4 DEF FirstHit
<1>4. QED
  BY <1>2, <1>3

\* Where the two imitated browsers and their imitators stand in the table.
LEMMA BrowserOrder ==
  /\ Len(BrowserSignatures) = 22
  /\ \A k \in 1..22 :
       /\ BrowserSignatures[k][2] = "Safari" => k = 22
       /\ BrowserSignatures[k][2] = "Chrome" => k \in {14, 16}
       /\ BrowserSignatures[k][2] = "Chromium" => k = 15
       /\ BrowserSignatures[k][2] \in {"Edge", "Opera", "Samsung Internet",
            "Yandex Browser", "Vivaldi", "Brave"} => k < 14
  /\ BrowserSignatures[14][1] = "crios/" /\ BrowserSignatures[15][1] = "chromium/"
  BY DEF BrowserSignatures

\* The operating systems that say "Mac OS X" stand before macOS.
LEMMA SystemOrder ==
  /\ Len(OSSignatures) = 16
  /\ \A k \in 1..16 : OSSignatures[k][2] = "macOS" => k > 10
  /\ OSSignatures[6][1] = "iphone" /\ OSSignatures[7][1] = "ipad"
  BY DEF OSSignatures

\* No browser is taken for one it imitates.
LEMMA BrowserNotImitated ==
  ASSUME NEW ua, ~({"crios/", "chromium/"} \subseteq ua),
         NEW b \in Browsers(ua)
  PROVE  <<b, MatchSignature(ua, BrowserSignatures)>> \notin Imitates
<1> SUFFICES ASSUME <<b, MatchSignature(ua, BrowserSignatures)>> \in Imitates
             PROVE  FALSE
  OBVIOUS
<1>1. PICK name : name = MatchSignature(ua, BrowserSignatures)
  OBVIOUS
<1>2. \/ b \in {"Edge", "Opera", "Samsung Internet", "Yandex Browser",
                "Vivaldi", "Brave", "Chromium"} /\ name \in {"Chrome", "Safari"}
      \/ b = "Chrome" /\ name = "Safari"
  BY <1>1 DEF Imitates
<1>3. PICK k \in 1..22 :
        /\ name = BrowserSignatures[k][2] /\ BrowserSignatures[k][1] \in ua
        /\ \A j \in 1..22 : BrowserSignatures[j][1] \in ua => k <= j
  <2>1. PICK table : table = BrowserSignatures
    OBVIOUS
  <2>2. Len(table) = 22 /\ name = MatchSignature(ua, table) /\ name # ""
    BY <1>1, <1>2, <2>1, BrowserOrder
  <2>3. PICK k \in 1..22 : FirstHit(ua, table, k)
    BY <2>2, MatchIsFirst
  <2>4. QED
    BY <2>1, <2>2, <2>3 DEF FirstHit
<1>4. PICK j \in 1..22 : b = BrowserSignatures[j][2] /\ BrowserSignatures[j][1] \in ua
  BY BrowserOrder DEF Browsers
<1>5. k <= j
  BY <1>3, <1>4
<1>6. CASE name = "Safari"
  <2>1. k = 22
    BY <1>3, <1>6, BrowserOrder
  <2>2. j \in {14, 16} \/ j < 14 \/ j = 15
    BY <1>2, <1>4, BrowserOrder
  <2>3. QED
    BY <1>5, <2>1, <2>2
<1>7. CASE name = "Chrome"
  <2>1. k \in {14, 16} /\ (j < 14 \/ j = 15)
    BY <1>2, <1>3, <1>4, <1>7, BrowserOrder
  <2>2. k = 14 /\ j = 15
    BY <1>5, <2>1
  <2>3. QED
    BY <1>3, <1>4, <2>2, BrowserOrder
<1>8. QED
  BY <1>2, <1>6, <1>7

\* An iPhone or an iPad is no Mac.
LEMMA PhoneIsNoMac ==
  ASSUME NEW ua, ua \cap {"iphone", "ipad"} # {}
  PROVE  MatchSignature(ua, OSSignatures) # "macOS"
<1> SUFFICES ASSUME MatchSignature(ua, OSSignatures) = "macOS" PROVE FALSE
  OBVIOUS
<1>1. PICK k \in 1..16 :
        /\ OSSignatures[k][2] = "macOS"
        /\ \A j \in 1..16 : OSSignatures[j][1] \in ua => k <= j
  <2>1. PICK table : table = OSSignatures
    OBVIOUS
  <2>2. Len(table) = 16 /\ MatchSignature(ua, table) = "macOS"
    BY <2>1, SystemOrder
  <2>3. PICK k \in 1..16 : FirstHit(ua, table, k)
    BY <2>2, MatchIsFirst
  <2>4. QED
    BY <2>1, <2>2, <2>3 DEF FirstHit
<1>2. OSSignatures[6][1] \in ua \/ OSSignatures[7][1] \in ua
  BY SystemOrder
<1>3. k <= 7
  BY <1>1, <1>2
<1>4. QED
  BY <1>1, <1>3, SystemOrder

\* What every parsed agent has, one of each pair of a browser and its imitator
\* at most.
LEMMA ParsedAgent ==
  ASSUME NEW ua, ~({"crios/", "chromium/"} \subseteq ua),
         NEW d, d = ParseUserAgent(ua)
  PROVE  /\ d.form = "bot" => d.os = ""
         /\ d.form # "bot" =>
              \A b \in Browsers(ua) : <<b, d.browser>> \notin Imitates
         /\ ua \cap {"iphone", "ipad"} # {} => d.os # "macOS"
<1>1. PICK robot, surfer, sys, shape :
        /\ robot = MatchSignature(ua, BotSignatures)
        /\ surfer = MatchSignature(ua, BrowserSignatures)
        /\ sys = MatchSignature(ua, OSSignatures)
        /\ shape = FormFactor(ua, sys)
  OBVIOUS
<1>2. shape \in {"tablet", "mobile", "desktop", ""}
  BY <1>1 DEF FormFactor
<1>3. \/ d.os = "" /\ d.form = "bot"
      \/ d.browser = surfer /\ d.os = sys /\ d.form = shape
  <2>1. CASE robot # ""
    BY <1>1, <2>1 DEF ParseUserAgent, Device
  <2>2. CASE robot = "" /\ surfer = "" /\ LooksLikeBot(ua)
    BY <1>1, <2>2 DEF ParseUserAgent, Device
  <2>3. CASE robot = "" /\ ~(surfer = "" /\ LooksLikeBot(ua))
    BY <1>1, <2>3 DEF ParseUserAgent, Device
  <2>4. QED
    BY <2>1, <2>2, <2>3
<1>4. CASE d.form = "bot"
  <2>1. d.os = ""
    BY <1>2, <1>3, <1>4
  <2>2. QED
    BY <1>4, <2>1
<1>5. CASE d.form # "bot"
  <2>1. d.browser = surfer /\ d.os = sys
    BY <1>3, <1>5
  <2>2. QED
    BY <1>1, <1>5, <2>1, BrowserNotImitated, PhoneIsNoMac
<1>6. QED
  BY <1>4, <1>5

\* A label has something in it, and nothing empty.
LEMMA LabelSaysSomething ==
  ASSUME NEW d, NEW place
  PROVE  Label(d, place) # {} /\ "" \notin Label(d, place)
<1>1. DeviceString(d) # {} /\ "" \notin DeviceString(d)
  BY DEF DeviceString
<1>2. "" \notin LocationString(place)
  BY DEF LocationString
<1>3. QED
  BY <1>1, <1>2 DEF Label

\* Sessions, places and the entries that ListNamed builds from them.
Session == [id : Int, ip : STRING, ua : SUBSET STRING]
Located == Places \cup {Nowhere}
Entries == {Named(s, place) : s \in Session, place \in Located}

\* n is the entry of session s, at the place that loc has for its address.
EntryOf(n, s, loc) ==
  /\ s.ip # "" => s.ip \in DOMAIN loc
  /\ n = Named(s, IF s.ip = "" THEN Nowhere ELSE loc[s.ip])

\* loc has what the loop's cache has, and maybe more.
Extends(loc) ==
  \A ip \in DOMAIN located : ip \in DOMAIN loc /\ loc[ip] = located[ip]

NoDuplicates(seq) == \A i, j \in 1..Len(seq) : seq[i] = seq[j] => i = j

\* The list so far has an entry for each session the loop has passed, and the
\* cache holds the addresses asked for.
DevicesInv ==
  /\ listed \in Listings
  /\ next \in Nat \ {0}
  /\ named \in Seq(Entries) /\ Len(named) = next - 1 /\ Len(named) <= Len(listed)
  /\ located \in [DOMAIN located -> Located]
  /\ lookups \in Seq(DOMAIN located)
  /\ \A k \in 1..Len(named) : EntryOf(named[k], listed[k], located)
  /\ NoDuplicates(lookups)

\* The loop starts with nothing named and an empty cache.
LEMMA DevicesInitInv == DevicesInit => DevicesInv
<1> SUFFICES ASSUME DevicesInit PROVE DevicesInv
  OBVIOUS
<1>1. listed \in Listings /\ listed \in Seq(Session)
  BY ListingsAssumption DEF DevicesInit, Session
<1>2. /\ named \in Seq(Entries) /\ lookups \in Seq(DOMAIN located)
      /\ Len(named) = 0 /\ Len(lookups) = 0 /\ Len(listed) \in Nat
  BY <1>1 DEF DevicesInit
<1>3. located \in [DOMAIN located -> Located]
  BY DEF DevicesInit
<1>4. next = 1
  BY DEF DevicesInit
<1>5. NoDuplicates(lookups)
  BY <1>2 DEF NoDuplicates
<1>6. QED
  BY <1>1, <1>2, <1>3, <1>4, <1>5 DEF DevicesInv

\* The entries made so far hold in a larger cache.
LEMMA EntryKept ==
  ASSUME NEW n, NEW s, NEW loc, EntryOf(n, s, located), Extends(loc)
  PROVE  EntryOf(n, s, loc)
  BY DEF EntryOf, Extends

\* Adding the entry of the session that the loop is at.
LEMMA NextEntry ==
  ASSUME DevicesInv, next <= Len(listed), listed' = listed, next' = next + 1,
         NEW s, s = listed[next], NEW place \in Located,
         NEW n, n = Named(s, place), named' = Append(named, n),
         NEW loc, loc = located', loc \in [DOMAIN loc -> Located],
         Extends(loc), EntryOf(n, s, loc),
         lookups' \in Seq(DOMAIN loc), NoDuplicates(lookups)'
  PROVE  DevicesInv'
<1>1. listed \in Seq(Session) /\ next \in 1..Len(listed)
  BY ListingsAssumption DEF DevicesInv, Session
<1>2. n \in Entries
  BY <1>1 DEF Entries
<1>3. /\ named' \in Seq(Entries) /\ Len(named') = next
      /\ named'[next] = n
      /\ \A k \in 1..Len(named) : named'[k] = named[k]
  BY <1>2 DEF DevicesInv
<1>4. ASSUME NEW k \in 1..Len(named') PROVE EntryOf(named'[k], listed[k], loc)
  <2>1. CASE k = next
    BY <1>3, <2>1
  <2>2. CASE k # next
    <3>1. k \in 1..Len(named)
      BY <1>1, <1>3, <2>2 DEF DevicesInv
    <3>2. PICK m, x : m = named[k] /\ x = listed[k]
      OBVIOUS
    <3>3. EntryOf(m, x, located)
      BY <3>1, <3>2 DEF DevicesInv
    <3>4. QED
      BY <1>3, <3>1, <3>2, <3>3, EntryKept
  <2>3. QED
    BY <2>1, <2>2
<1>5. next' \in Nat \ {0} /\ Len(named') = next' - 1 /\ Len(named') <= Len(listed')
  BY <1>1, <1>3 DEF DevicesInv
<1>6. \A k \in 1..Len(named') : EntryOf(named'[k], listed'[k], located')
  BY <1>4
<1>7. listed' \in Listings
  BY DEF DevicesInv
<1>8. QED
  BY <1>3, <1>5, <1>6, <1>7 DEF DevicesInv

\* Asking for an address that was not asked for yet.
LEMMA AppendFresh ==
  ASSUME NEW T, NEW U, T \subseteq U, NEW x \in U, x \notin T,
         NEW seq \in Seq(T), NoDuplicates(seq), NEW out, out = Append(seq, x)
  PROVE  out \in Seq(U) /\ NoDuplicates(out)
<1>1. PICK n \in Nat : n = Len(seq)
  OBVIOUS
<1>2. /\ Len(out) = n + 1 /\ out[n + 1] = x
      /\ \A k \in 1..n : out[k] = seq[k] /\ seq[k] \in T
  BY <1>1
<1>3. out \in Seq(U)
  <2>1. seq \in Seq(U)
    BY <1>1, <1>2
  <2>2. QED
    BY <2>1
<1>4. ASSUME NEW i \in 1..(n + 1), NEW j \in 1..(n + 1), out[i] = out[j]
      PROVE  i = j
  <2>1. CASE i \in 1..n /\ j \in 1..n
    BY <1>1, <1>2, <1>4, <2>1 DEF NoDuplicates
  <2>2. CASE i = n + 1 /\ j \in 1..n
    BY <1>2, <1>4, <2>2
  <2>3. CASE j = n + 1 /\ i \in 1..n
    BY <1>2, <1>4, <2>3
  <2>4. QED
    BY <2>1, <2>2, <2>3
<1>5. QED
  BY <1>2, <1>3, <1>4 DEF NoDuplicates

\* Each turn of the loop names the next session and keeps the cache.
LEMMA DevicesNextInv == DevicesInv /\ [DevicesNext]_deviceVars => DevicesInv'
<1> SUFFICES ASSUME DevicesInv, [DevicesNext]_deviceVars PROVE DevicesInv'
  OBVIOUS
<1>1. CASE NameKnown
  <2>1. PICK s, loc : s = listed[next] /\ loc = located'
    OBVIOUS
  <2>2. PICK place : place = IF s.ip = "" THEN Nowhere ELSE located[s.ip]
    OBVIOUS
  <2>3. PICK n : n = Named(s, place)
    OBVIOUS
  <2>4. /\ next <= Len(listed) /\ listed' = listed /\ next' = next + 1
        /\ named' = Append(named, n) /\ loc = located /\ lookups' = lookups
        /\ s.ip = "" \/ s.ip \in DOMAIN located
    BY <1>1, <2>1, <2>2, <2>3 DEF NameKnown, Cached
  <2>5. place \in Located
    BY <2>2, <2>4 DEF Located, DevicesInv
  <2>6. Extends(loc) /\ loc \in [DOMAIN loc -> Located]
    BY <2>4 DEF Extends, DevicesInv
  <2>7. EntryOf(n, s, loc)
    BY <2>2, <2>3, <2>4 DEF EntryOf
  <2>8. lookups' \in Seq(DOMAIN loc) /\ NoDuplicates(lookups)'
    BY <2>4 DEF DevicesInv, NoDuplicates
  <2>9. QED
    BY <2>1, <2>3, <2>4, <2>5, <2>6, <2>7, <2>8, NextEntry
<1>2. CASE \E place \in Places \cup {Nowhere} : NameLocated(place)
  <2>1. PICK place \in Located : NameLocated(place)
    BY <1>2 DEF Located
  <2>2. PICK s, n, loc : s = listed[next] /\ n = Named(s, place) /\ loc = located'
    OBVIOUS
  <2>3. /\ next <= Len(listed) /\ listed' = listed /\ next' = next + 1
        /\ named' = Append(named, n)
        /\ s.ip # "" /\ s.ip \notin DOMAIN located
        /\ loc = [ip \in DOMAIN located \cup {s.ip} |->
                    IF ip = s.ip THEN place ELSE located[ip]]
        /\ lookups' = Append(lookups, s.ip)
    BY <2>1, <2>2 DEF NameLocated, Cached
  <2>4. Extends(loc) /\ loc \in [DOMAIN loc -> Located] /\ s.ip \in DOMAIN loc
        /\ loc[s.ip] = place /\ DOMAIN located \subseteq DOMAIN loc
    BY <2>3 DEF Extends, DevicesInv
  <2>5. EntryOf(n, s, loc)
    BY <2>2, <2>3, <2>4 DEF EntryOf
  <2>6. lookups' \in Seq(DOMAIN loc) /\ NoDuplicates(lookups)'
    <3>1. PICK old, new, T, U, x : /\ old = lookups /\ new = lookups' /\ x = s.ip
                                   /\ T = DOMAIN located /\ U = DOMAIN loc
      OBVIOUS
    <3>2. /\ old \in Seq(T) /\ T \subseteq U /\ x \in U /\ x \notin T
          /\ NoDuplicates(old) /\ new = Append(old, x)
      BY <2>3, <2>4, <3>1 DEF DevicesInv
    <3>3. new \in Seq(U) /\ NoDuplicates(new)
      BY <3>2, AppendFresh
    <3>4. QED
      BY <3>1, <3>3 DEF NoDuplicates
  <2>7. QED
    BY <2>2, <2>3, <2>4, <2>5, <2>6, NextEntry
<1>3. CASE UNCHANGED deviceVars
  <2>1. /\ listed' = listed /\ next' = next /\ located' = located
        /\ lookups' = lookups /\ named' = named
    BY <1>3 DEF deviceVars
  <2>2. QED
    BY <2>1 DEF DevicesInv, NoDuplicates
<1>4. QED
  BY <1>1, <1>2, <1>3 DEF DevicesNext

\* The invariant of the loop.
LEMMA AlwaysDevicesInv == DevicesSpec => []DevicesInv
  BY DevicesInitInv, DevicesNextInv, PTL DEF DevicesSpec

(***************************************************************************)
(* Every list of sessions is named in its order, one place per address and *)
(* one lookup per address, whatever the geolocator answers, and no agent   *)
(* is taken for one that it imitates: for every User-Agent but one that    *)
(* says "crios/" and "chromium/", which the table reads as Chrome.  No     *)
(* browser sends both: the first is Chrome's on iOS.                       *)
(***************************************************************************)
THEOREM AlwaysListingNamesEverySession ==
  ASSUME \A list \in Listings : \A k \in 1..Len(list) :
           ~({"crios/", "chromium/"} \subseteq list[k].ua)
  PROVE  DevicesSpec => []ListingNamesEverySession
<1>1. DevicesInv => ListingNamesEverySession
  <2> SUFFICES ASSUME DevicesInv PROVE ListingNamesEverySession
    OBVIOUS
  <2>1. listed \in Seq(Session) /\ Len(named) \in Nat /\ Len(named) <= Len(listed)
    BY ListingsAssumption DEF DevicesInv, Session
  <2>2. ASSUME NEW k \in 1..Len(named)
        PROVE  LET n == named[k]
               IN  /\ n.id = listed[k].id
                   /\ n.label # {} /\ "" \notin n.label
                   /\ \A j \in 1..Len(named) :
                        named[j].ip = n.ip => named[j].place = n.place
                   /\ n.device.form = "bot" => n.device.os = ""
                   /\ n.device.form # "bot" =>
                        \A b \in Browsers(n.ua) :
                          <<b, n.device.browser>> \notin Imitates
                   /\ n.ua \cap {"iphone", "ipad"} # {} => n.device.os # "macOS"
    <3>1. PICK n, s : n = named[k] /\ s = listed[k]
      OBVIOUS
    <3>2. EntryOf(n, s, located)
      BY <3>1 DEF DevicesInv
    <3>3. PICK place : place = (IF s.ip = "" THEN Nowhere ELSE located[s.ip])
      OBVIOUS
    <3>4. /\ n.id = s.id /\ n.ip = s.ip /\ n.ua = s.ua /\ n.place = place
          /\ n.device = ParseUserAgent(s.ua)
          /\ n.label = Label(ParseUserAgent(s.ua), place)
      BY <3>2, <3>3 DEF EntryOf, Named
    <3>5. n.label # {} /\ "" \notin n.label
      BY <3>4, LabelSaysSomething
    <3>6. ASSUME NEW j \in 1..Len(named), named[j].ip = n.ip
          PROVE  named[j].place = n.place
      <4>1. PICK m, t : m = named[j] /\ t = listed[j]
        OBVIOUS
      <4>2. EntryOf(m, t, located)
        BY <4>1 DEF DevicesInv
      <4>3. m.ip = t.ip /\ m.place = IF t.ip = "" THEN Nowhere ELSE located[t.ip]
        BY <4>2 DEF EntryOf, Named
      <4>4. QED
        BY <3>3, <3>4, <3>6, <4>1, <4>3
    <3>7. ~({"crios/", "chromium/"} \subseteq s.ua)
      BY <2>1, <3>1 DEF DevicesInv
    <3>8. PICK ua, d : ua = s.ua /\ d = ParseUserAgent(ua)
      OBVIOUS
    <3>9. /\ d.form = "bot" => d.os = ""
          /\ d.form # "bot" => \A b \in Browsers(ua) : <<b, d.browser>> \notin Imitates
          /\ ua \cap {"iphone", "ipad"} # {} => d.os # "macOS"
      BY <3>7, <3>8, ParsedAgent
    <3>10. n.device = d /\ n.ua = ua
      BY <3>4, <3>8
    <3>11. QED
      BY <3>1, <3>4, <3>5, <3>6, <3>9, <3>10
  <2>3. QED
    BY <2>2 DEF ListingNamesEverySession, DevicesInv, NoDuplicates
<1>2. QED
  BY <1>1, AlwaysDevicesInv, PTL

-----------------------------------------------------------------------------
(* RateLimiter *)

\* The calls that a history f of allowed calls stands for; those of them that
\* lie back at most n ticks, and the others.
Calls(f) == UNION {{a} \X (1..f[a]) : a \in DOMAIN f}
Young(f, n) == {c \in Calls(f) : c[1] <= n}
Old(f, n) == {c \in Calls(f) : c[1] > n}

Ages == 0..(Window - 1)

\* A window is open: it began Window - left ticks ago.  The calls since then
\* are counted, and those before it are at most the calls of one window.
OpenWindow ==
  /\ Cardinality(Young(recent, Window - left)) <= count
  /\ Cardinality(Young(recent, Window - left)) <= Limit
  /\ Cardinality(Old(recent, Window - left)) <= Limit

LimiterInv ==
  /\ TypeOK
  /\ backend = "memory" => count <= Limit
  /\ backend = "redis" /\ left >= 0 => left >= 1 /\ count >= 1
  /\ left >= 0 => OpenWindow
  /\ left < 0 => recent[0] = 0 /\ Cardinality(Calls(recent)) <= Limit

\* What a call is, and that there are finitely many.
LEMMA CallsShape ==
  ASSUME NEW f \in [Ages -> Nat]
  PROVE  /\ \A a \in Ages : \A k \in 1..f[a] : <<a, k>> \in Calls(f)
         /\ \A c \in Calls(f) :
              /\ c[1] \in Ages /\ c[2] \in 1..f[c[1]] /\ c = <<c[1], c[2]>>
         /\ IsFiniteSet(Calls(f))
<1>1. \A a \in Ages : \A k \in 1..f[a] : <<a, k>> \in Calls(f)
  BY DEF Calls
<1>2. \A c \in Calls(f) : c[1] \in Ages /\ c[2] \in 1..f[c[1]] /\ c = <<c[1], c[2]>>
  BY DEF Calls
<1>3. IsFiniteSet(Calls(f))
  <2>1. PICK g : g = [a \in Ages |-> {a} \X (1..f[a])]
    OBVIOUS
  <2>2. IsFiniteSet(Ages)
    BY WindowAssumption, FS_Interval DEF Ages
  <2>3. PICK S : S = {g[a] : a \in Ages}
    OBVIOUS
  <2>4. g \in Surjection(Ages, S)
    BY <2>1, <2>3 DEF Surjection
  <2>5. IsFiniteSet(S)
    BY <2>2, <2>4, FS_Surjection
  <2>6. ASSUME NEW T \in S PROVE IsFiniteSet(T)
    <3>1. PICK a \in Ages : T = {a} \X (1..f[a])
      BY <2>1, <2>3
    <3>2. IsFiniteSet({a}) /\ IsFiniteSet(1..f[a])
      <4>1. f[a] \in Int /\ 1 \in Int
        OBVIOUS
      <4>2. IsFiniteSet(1..f[a])
        BY <4>1, FS_Interval
      <4>3. QED
        BY <4>2, FS_Singleton
    <3>3. QED
      BY <3>1, <3>2, FS_Product
  <2>7. Calls(f) = UNION S
    BY <2>1, <2>3 DEF Calls
  <2>8. QED
    BY <2>5, <2>6, <2>7, FS_UNION
<1>4. QED
  BY <1>1, <1>2, <1>3

\* The parts of a history are finite, and its size bounds them.
LEMMA CallsCounted ==
  ASSUME NEW f \in [Ages -> Nat], NEW n \in Int
  PROVE  /\ IsFiniteSet(Young(f, n)) /\ IsFiniteSet(Old(f, n))
         /\ Cardinality(Young(f, n)) \in Nat /\ Cardinality(Old(f, n)) \in Nat
         /\ Cardinality(Calls(f)) \in Nat
         /\ Cardinality(Young(f, n)) <= Cardinality(Calls(f))
         /\ Cardinality(Old(f, n)) <= Cardinality(Calls(f))
         /\ Cardinality(Calls(f)) <= Cardinality(Young(f, n)) + Cardinality(Old(f, n))
<1>1. IsFiniteSet(Calls(f))
  BY CallsShape
<1>2. Young(f, n) \subseteq Calls(f) /\ Old(f, n) \subseteq Calls(f)
  BY DEF Young, Old
<1>3. /\ IsFiniteSet(Young(f, n)) /\ IsFiniteSet(Old(f, n))
      /\ Cardinality(Young(f, n)) \in Nat /\ Cardinality(Old(f, n)) \in Nat
      /\ Cardinality(Calls(f)) \in Nat
      /\ Cardinality(Young(f, n)) <= Cardinality(Calls(f))
      /\ Cardinality(Old(f, n)) <= Cardinality(Calls(f))
  BY <1>1, <1>2, FS_Subset, FS_CardinalityType
<1>4. Calls(f) = Young(f, n) \cup Old(f, n)
  <2>1. ASSUME NEW c \in Calls(f) PROVE c[1] <= n \/ c[1] > n
    BY CallsShape, WindowAssumption DEF Ages
  <2>2. QED
    BY <2>1 DEF Young, Old
<1>5. Cardinality(Young(f, n) \cup Old(f, n))
        = Cardinality(Young(f, n)) + Cardinality(Old(f, n))
            - Cardinality(Young(f, n) \cap Old(f, n))
  BY <1>3, FS_Union
<1>6. Cardinality(Young(f, n) \cap Old(f, n)) \in Nat
  BY <1>3, FS_Intersection, FS_CardinalityType
<1>7. PICK c, y, o, b :
        /\ c = Cardinality(Calls(f)) /\ y = Cardinality(Young(f, n))
        /\ o = Cardinality(Old(f, n)) /\ b = Cardinality(Young(f, n) \cap Old(f, n))
  OBVIOUS
<1>8. c \in Nat /\ y \in Nat /\ o \in Nat /\ b \in Nat /\ c = y + o - b
  BY <1>3, <1>4, <1>5, <1>6, <1>7
<1>9. c <= y + o
  BY <1>8
<1>10. QED
  BY <1>3, <1>7, <1>9

\* A call that is allowed is one of now.
LEMMA GrantAdds ==
  ASSUME NEW f \in [Ages -> Nat], NEW g, g = [f EXCEPT ![0] = @ + 1]
  PROVE  /\ g \in [Ages -> Nat]
         /\ \A n \in Nat :
              /\ Cardinality(Young(g, n)) <= Cardinality(Young(f, n)) + 1
              /\ Old(g, n) = Old(f, n)
         /\ f[0] = 0 => Cardinality(Young(g, 0)) <= 1
         /\ \A n \in Nat : Cardinality(Old(g, n)) <= Cardinality(Calls(f))
<1>1. 0 \in Ages /\ g \in [Ages -> Nat]
      /\ g[0] = f[0] + 1 /\ \A a \in Ages \ {0} : g[a] = f[a]
  BY WindowAssumption DEF Ages
<1>2. PICK new : new = <<0, f[0] + 1>>
  OBVIOUS
<1>3. ASSUME NEW c \in Calls(g) PROVE c \in Calls(f) \/ c = new
  <2>1. c[1] \in Ages /\ c[2] \in 1..g[c[1]] /\ c = <<c[1], c[2]>>
    BY <1>1, CallsShape
  <2>2. CASE c[1] = 0
    <3>1. c[2] \in 1..f[0] \/ c[2] = f[0] + 1
      BY <1>1, <2>1, <2>2
    <3>2. QED
      BY <1>1, <1>2, <2>1, <2>2, <3>1, CallsShape
  <2>3. CASE c[1] # 0
    <3>1. c[2] \in 1..f[c[1]]
      BY <1>1, <2>1, <2>3
    <3>2. QED
      BY <2>1, <3>1, CallsShape
  <2>4. QED
    BY <2>2, <2>3
<1>4. ASSUME NEW c \in Calls(f) PROVE c \in Calls(g)
  <2>1. c[1] \in Ages /\ c[2] \in 1..f[c[1]] /\ c = <<c[1], c[2]>>
    BY CallsShape
  <2>2. c[2] \in 1..g[c[1]]
    BY <1>1, <2>1
  <2>3. <<c[1], c[2]>> \in Calls(g)
    BY <1>1, <2>1, <2>2, CallsShape
  <2>4. QED
    BY <2>1, <2>3
<1>5. ASSUME NEW n \in Nat
      PROVE  /\ Cardinality(Young(g, n)) <= Cardinality(Young(f, n)) + 1
             /\ Old(g, n) = Old(f, n)
             /\ Cardinality(Old(g, n)) <= Cardinality(Calls(f))
  <2>1. Young(g, n) \subseteq Young(f, n) \cup {new}
    BY <1>3 DEF Young
  <2>2. IsFiniteSet(Young(f, n)) /\ Cardinality(Young(f, n)) \in Nat
    BY CallsCounted
  <2>3. /\ IsFiniteSet(Young(f, n) \cup {new})
        /\ Cardinality(Young(f, n) \cup {new}) <= Cardinality(Young(f, n)) + 1
    BY <2>2, FS_AddElement
  <2>4. /\ Cardinality(Young(g, n)) \in Nat
        /\ Cardinality(Young(f, n) \cup {new}) \in Nat
        /\ Cardinality(Young(g, n)) <= Cardinality(Young(f, n) \cup {new})
    BY <2>1, <2>3, FS_Subset, FS_CardinalityType
  <2>5. Cardinality(Young(g, n)) <= Cardinality(Young(f, n)) + 1
    BY <2>2, <2>3, <2>4
  <2>6. ~(new[1] > n)
    BY <1>2
  <2>7. Old(g, n) = Old(f, n)
    BY <1>3, <1>4, <2>6 DEF Old
  <2>8. QED
    BY <2>5, <2>7, CallsCounted
<1>6. ASSUME f[0] = 0 PROVE Cardinality(Young(g, 0)) <= 1
  <2>1. ASSUME NEW c \in Young(g, 0) PROVE c = new
    <3>1. c[1] \in Ages /\ c[2] \in 1..g[c[1]] /\ c = <<c[1], c[2]>> /\ c[1] <= 0
      BY <1>1, CallsShape DEF Young
    <3>2. c[1] = 0 /\ c[2] = 1
      BY <1>1, <1>6, <3>1, WindowAssumption DEF Ages
    <3>3. QED
      BY <1>2, <1>6, <3>1, <3>2
  <2>2. Young(g, 0) \subseteq {new}
    BY <2>1
  <2>3. IsFiniteSet({new}) /\ Cardinality({new}) = 1
    BY FS_Singleton
  <2>4. Cardinality(Young(g, 0)) <= Cardinality({new})
    BY <2>2, <2>3, FS_Subset
  <2>5. QED
    BY <2>3, <2>4
<1>7. QED
  BY <1>1, <1>5, <1>6

\* With a tick every call is a tick older, and the oldest ones go.
LEMMA AgedShrinks ==
  ASSUME NEW f \in [Ages -> Nat],
         NEW g, g = [a \in Ages |-> IF a = 0 THEN 0 ELSE f[a - 1]]
  PROVE  /\ g \in [Ages -> Nat] /\ g[0] = 0
         /\ Cardinality(Calls(g)) <= Cardinality(Calls(f))
         /\ \A n \in Nat :
              /\ Cardinality(Young(g, n + 1)) <= Cardinality(Young(f, n))
              /\ Cardinality(Old(g, n + 1)) <= Cardinality(Old(f, n))
<1>1. g \in [Ages -> Nat] /\ g[0] = 0
  <2>1. ASSUME NEW a \in Ages, a # 0 PROVE a - 1 \in Ages
    BY <2>1, WindowAssumption DEF Ages
  <2>2. QED
    BY <2>1, WindowAssumption DEF Ages
<1>2. ASSUME NEW c \in Calls(g)
      PROVE  /\ c[1] - 1 \in Ages /\ c = <<c[1], c[2]>> /\ c[1] \in Ages
             /\ <<c[1] - 1, c[2]>> \in Calls(f)
  <2>1. c[1] \in Ages /\ c[2] \in 1..g[c[1]] /\ c = <<c[1], c[2]>>
    BY <1>1, CallsShape
  <2>2. c[1] # 0
    BY <1>1, <2>1
  <2>3. c[1] - 1 \in Ages
    BY <2>1, <2>2, WindowAssumption DEF Ages
  <2>4. c[2] \in 1..f[c[1] - 1]
    BY <2>1, <2>2
  <2>5. QED
    BY <2>1, <2>3, <2>4, CallsShape
<1>3. ASSUME NEW A \in SUBSET Calls(g), NEW B, IsFiniteSet(B),
             \A c \in A : <<c[1] - 1, c[2]>> \in B
      PROVE  Cardinality(A) <= Cardinality(B)
  <2>1. PICK h : h = [c \in A |-> <<c[1] - 1, c[2]>>]
    OBVIOUS
  <2>2. ASSUME NEW c \in A, NEW d \in A, h[c] = h[d] PROVE c = d
    <3>1. c[1] - 1 = d[1] - 1 /\ c[2] = d[2]
      BY <2>1, <2>2
    <3>2. c \in Calls(g) /\ d \in Calls(g)
      BY <1>3
    <3>3. c[1] \in Ages /\ d[1] \in Ages /\ c = <<c[1], c[2]>> /\ d = <<d[1], d[2]>>
      BY <1>2, <3>2
    <3>4. c[1] = d[1]
      BY <3>1, <3>3, WindowAssumption DEF Ages
    <3>5. QED
      BY <3>1, <3>3, <3>4
  <2>3. h \in Injection(A, B)
    <3>1. h \in [A -> B]
      BY <1>3, <2>1
    <3>2. QED
      BY <2>2, <3>1 DEF Injection, IsInjective
  <2>4. QED
    BY <1>3, <2>3, FS_Injection
<1>4. Cardinality(Calls(g)) <= Cardinality(Calls(f))
  BY <1>2, <1>3, CallsShape
<1>5. ASSUME NEW n \in Nat
      PROVE  /\ Cardinality(Young(g, n + 1)) <= Cardinality(Young(f, n))
             /\ Cardinality(Old(g, n + 1)) <= Cardinality(Old(f, n))
  <2>1. Young(g, n + 1) \subseteq Calls(g) /\ Old(g, n + 1) \subseteq Calls(g)
    BY DEF Young, Old
  <2>2. IsFiniteSet(Young(f, n)) /\ IsFiniteSet(Old(f, n))
    BY CallsCounted
  <2>3. ASSUME NEW c \in Young(g, n + 1) PROVE <<c[1] - 1, c[2]>> \in Young(f, n)
    <3>1. c \in Calls(g) /\ c[1] <= n + 1
      BY DEF Young
    <3>2. c[1] \in Int /\ <<c[1] - 1, c[2]>> \in Calls(f)
      BY <1>2, <3>1, WindowAssumption, SMTT(30) DEF Ages
    <3>3. QED
      BY <3>1, <3>2 DEF Young
  <2>4. ASSUME NEW c \in Old(g, n + 1) PROVE <<c[1] - 1, c[2]>> \in Old(f, n)
    <3>1. c \in Calls(g) /\ c[1] > n + 1
      BY DEF Old
    <3>2. c[1] \in Int /\ <<c[1] - 1, c[2]>> \in Calls(f)
      BY <1>2, <3>1, WindowAssumption, SMTT(30) DEF Ages
    <3>3. QED
      BY <3>1, <3>2 DEF Old
  <2>5. QED
    BY <1>3, <2>1, <2>2, <2>3, <2>4
<1>6. QED
  BY <1>1, <1>4, <1>5

\* The history, with its sizes.
LEMMA LimiterTypes ==
  ASSUME LimiterInv
  PROVE  /\ recent \in [Ages -> Nat] /\ count \in Nat /\ left \in Int /\ left >= -1
         /\ left <= Window /\ Limit \in Nat /\ Limit >= 1 /\ Window \in Nat
         /\ Window >= 1 /\ MaxHits \in Nat /\ MaxHits > Limit /\ count <= MaxHits
         /\ backend \in {"memory", "redis"}
  BY LimitAssumption, WindowAssumption, MaxHitsAssumption
  DEF LimiterInv, TypeOK, Ages

\* The first call of a window.
LEMMA WindowOpens ==
  ASSUME LimiterInv, left < 0, left' = Window, count' \in 1..MaxHits,
         backend' = backend, backend = "memory" => count' <= Limit,
         verdict' \in {"allowed", "denied", "error"},
         \/ recent' = recent
         \/ recent' = [recent EXCEPT ![0] = @ + 1]
  PROVE  LimiterInv'
<1>1. PICK f, g, k : f = recent /\ g = recent' /\ k = count'
  OBVIOUS
<1>2. f \in [Ages -> Nat] /\ f[0] = 0 /\ Cardinality(Calls(f)) <= Limit /\ k >= 1
      /\ k \in Nat
  BY <1>1, LimiterTypes, MaxHitsAssumption DEF LimiterInv
<1>3. /\ g \in [Ages -> Nat]
      /\ Cardinality(Young(g, 0)) <= 1 /\ Cardinality(Old(g, 0)) <= Limit
  <2>1. CASE g = f
    <3>1. Young(f, 0) = {}
      <4>1. ASSUME NEW c \in Young(f, 0) PROVE FALSE
        <5>1. c[1] \in Ages /\ c[2] \in 1..f[c[1]] /\ c[1] <= 0
          BY <1>2, CallsShape DEF Young
        <5>2. c[1] = 0
          BY <5>1, WindowAssumption DEF Ages
        <5>3. QED
          BY <1>2, <5>1, <5>2
      <4>2. QED
        BY <4>1
    <3>2. Cardinality(Young(f, 0)) = 0
      BY <3>1, FS_EmptySet
    <3>3. /\ Cardinality(Old(f, 0)) \in Nat /\ Cardinality(Calls(f)) \in Nat
          /\ Cardinality(Old(f, 0)) <= Cardinality(Calls(f))
      BY <1>2, CallsCounted
    <3>4. QED
      BY <1>2, <2>1, <3>2, <3>3, LimitAssumption
  <2>2. CASE g = [f EXCEPT ![0] = @ + 1]
    <3>1. /\ g \in [Ages -> Nat] /\ Cardinality(Young(g, 0)) <= 1
          /\ Cardinality(Old(g, 0)) <= Cardinality(Calls(f))
      BY <1>2, <2>2, GrantAdds
    <3>2. Cardinality(Old(g, 0)) \in Nat /\ Cardinality(Calls(f)) \in Nat
      BY <1>2, <3>1, CallsCounted
    <3>3. QED
      BY <1>2, <3>1, <3>2, LimitAssumption
  <2>3. QED
    BY <1>1, <2>1, <2>2
<1>4. Cardinality(Young(g, 0)) \in Nat
  BY <1>3, CallsCounted
<1>5. PICK n : n = Window - left' /\ n = 0
  BY WindowAssumption
<1>6. /\ Cardinality(Young(g, n)) <= k /\ Cardinality(Young(g, n)) <= Limit
      /\ Cardinality(Old(g, n)) <= Limit
  BY <1>2, <1>3, <1>4, <1>5, LimitAssumption
<1>7. OpenWindow'
  BY <1>1, <1>5, <1>6 DEF OpenWindow
<1>8. left' >= 1 /\ left' \in -1..Window
  BY WindowAssumption
<1>9. TypeOK'
  <2>1. recent' \in [0..(Window - 1) -> Nat]
    BY <1>1, <1>3 DEF Ages
  <2>2. count' \in 0..MaxHits
    BY MaxHitsAssumption
  <2>3. QED
    BY <1>8, <2>1, <2>2 DEF LimiterInv, TypeOK
<1>10. QED
  BY <1>2, <1>1, <1>7, <1>8, <1>9 DEF LimiterInv

\* A call in an open window: it is counted, or the window is full.
LEMMA WindowGoesOn ==
  ASSUME LimiterInv, left >= 0, left' = left, backend' = backend,
         backend = "memory" => count' <= Limit,
         verdict' \in {"allowed", "denied", "error"}, count' \in 0..MaxHits,
         \/ recent' = recent /\ count' >= count
         \/ recent' = [recent EXCEPT ![0] = @ + 1] /\ count' = count + 1 /\ count < Limit
  PROVE  LimiterInv'
<1>1. PICK f, g, k, j, n :
        f = recent /\ g = recent' /\ k = count /\ j = count' /\ n = Window - left
  OBVIOUS
<1>2. /\ f \in [Ages -> Nat] /\ k \in Nat /\ j \in Nat /\ n \in Nat
      /\ Limit \in Nat
  BY <1>1, LimiterTypes, MaxHitsAssumption
<1>3. /\ Cardinality(Young(f, n)) <= k /\ Cardinality(Young(f, n)) <= Limit
      /\ Cardinality(Old(f, n)) <= Limit
  BY <1>1 DEF LimiterInv, OpenWindow
<1>4. Cardinality(Young(f, n)) \in Nat
  BY <1>2, CallsCounted
<1>5. /\ g \in [Ages -> Nat] /\ j >= k
      /\ Cardinality(Young(g, n)) <= j /\ Cardinality(Young(g, n)) <= Limit
      /\ Cardinality(Old(g, n)) <= Limit
  <2>1. CASE g = f /\ j >= k
    BY <1>2, <1>3, <1>4, <2>1
  <2>2. CASE g = [f EXCEPT ![0] = @ + 1] /\ j = k + 1 /\ k < Limit
    <3>1. /\ g \in [Ages -> Nat] /\ Old(g, n) = Old(f, n)
          /\ Cardinality(Young(g, n)) <= Cardinality(Young(f, n)) + 1
      BY <1>2, <2>2, GrantAdds
    <3>2. Cardinality(Young(g, n)) \in Nat
      BY <1>2, <3>1, CallsCounted
    <3>3. QED
      BY <1>2, <1>3, <1>4, <2>2, <3>1, <3>2
  <2>3. QED
    BY <1>1, <2>1, <2>2
<1>6. OpenWindow'
  BY <1>1, <1>5 DEF OpenWindow
<1>7. TypeOK'
  BY <1>1, <1>5 DEF LimiterInv, TypeOK, Ages
<1>8. backend = "redis" => left >= 1 /\ j >= 1
  BY <1>1, <1>2, <1>5, LimiterTypes DEF LimiterInv
<1>9. ~(left < 0)
  BY LimiterTypes
<1>10. QED
  BY <1>1, <1>6, <1>7, <1>8, <1>9 DEF LimiterInv

\* Time passes: the window's end comes nearer, and behind it all calls are
\* those of one window.
LEMMA TickKeeps ==
  ASSUME LimiterInv, Tick, backend' = backend
  PROVE  LimiterInv'
<1>1. PICK f, g, n : f = recent /\ g = recent' /\ n = Window - left
  OBVIOUS
<1>2. /\ f \in [Ages -> Nat] /\ left \in Int /\ left >= -1 /\ left <= Window
      /\ n \in Nat /\ Window \in Nat /\ Limit \in Nat
  BY <1>1, LimiterTypes
<1>3. g = [a \in Ages |-> IF a = 0 THEN 0 ELSE f[a - 1]]
  BY <1>1 DEF Tick, Aged, Ages
<1>4. /\ g \in [Ages -> Nat] /\ g[0] = 0
      /\ Cardinality(Calls(g)) <= Cardinality(Calls(f))
      /\ Cardinality(Young(g, n + 1)) <= Cardinality(Young(f, n))
      /\ Cardinality(Old(g, n + 1)) <= Cardinality(Old(f, n))
  BY <1>2, <1>3, AgedShrinks
<1>5. /\ Cardinality(Calls(f)) \in Nat /\ Cardinality(Calls(g)) \in Nat
      /\ Cardinality(Young(g, n + 1)) \in Nat /\ Cardinality(Young(f, n)) \in Nat
      /\ Cardinality(Old(g, n + 1)) \in Nat /\ Cardinality(Old(f, n)) \in Nat
  BY <1>2, <1>4, CallsCounted
<1>6. /\ left' \in -1..Window
      /\ count' \in 0..MaxHits
      /\ backend = "memory" => count' = count
      /\ left' >= 0 => left >= 1 /\ left' = left - 1 /\ count' = count
      /\ backend = "redis" /\ left' >= 0 => left' >= 1
  BY <1>2, LimiterTypes DEF Tick, LimiterInv
<1>7. verdict' = verdict
  BY DEF Tick
<1>8. TypeOK'
  BY <1>1, <1>4, <1>6, <1>7 DEF LimiterInv, TypeOK, Ages
<1>9. ASSUME left' >= 0 PROVE OpenWindow'
  <2>1. /\ Cardinality(Young(f, n)) <= count /\ Cardinality(Young(f, n)) <= Limit
        /\ Cardinality(Old(f, n)) <= Limit
    BY <1>1, <1>2, <1>6, <1>9 DEF LimiterInv, OpenWindow
  <2>2. PICK m : m = Window - left' /\ m = n + 1
    BY <1>1, <1>2, <1>6, <1>9
  <2>3. count \in Nat /\ count' = count
    BY <1>6, <1>9, LimiterTypes
  <2>4. /\ Cardinality(Young(g, m)) <= count' /\ Cardinality(Young(g, m)) <= Limit
        /\ Cardinality(Old(g, m)) <= Limit
    BY <1>2, <1>4, <1>5, <2>1, <2>2, <2>3
  <2>5. QED
    BY <1>1, <2>2, <2>4 DEF OpenWindow
<1>10. Cardinality(Calls(f)) <= Limit \/ left' >= 0
  <2>1. CASE left < 0
    BY <1>1, <2>1 DEF LimiterInv
  <2>2. CASE left >= 0 /\ ~(left' >= 0)
    <3>1. left \in {0, 1}
      BY <1>2, <2>2 DEF Tick
    <3>2. Cardinality(Young(f, n)) <= Limit
      BY <1>1, <2>2 DEF LimiterInv, OpenWindow
    <3>3. Young(f, n) = Calls(f)
      <4>1. ASSUME NEW c \in Calls(f) PROVE c[1] <= n
        BY <1>1, <1>2, <3>1, CallsShape, WindowAssumption DEF Ages
      <4>2. QED
        BY <4>1 DEF Young
    <3>4. QED
      BY <3>2, <3>3
  <2>3. QED
    BY <1>2, <2>1, <2>2
<1>11. ASSUME left' < 0 PROVE Cardinality(Calls(g)) <= Limit
  <2>1. ~(left' >= 0)
    BY <1>6, <1>11
  <2>2. QED
    BY <1>2, <1>4, <1>5, <1>10, <2>1
<1>12. backend = "redis" /\ left' >= 0 => count' >= 1
  BY <1>2, <1>6 DEF LimiterInv
<1>13. QED
  BY <1>1, <1>4, <1>6, <1>8, <1>9, <1>11, <1>12 DEF LimiterInv

\* Each call is the first of a window or one in it.
LEMMA LimiterNextInv == LimiterInv /\ [LimiterNext]_limiterVars => LimiterInv'
<1> SUFFICES ASSUME LimiterInv, [LimiterNext]_limiterVars PROVE LimiterInv'
  OBVIOUS
<1>1. /\ left \in Int /\ count \in Nat /\ Limit \in Nat /\ Limit >= 1
      /\ MaxHits \in Nat /\ MaxHits > Limit /\ count <= MaxHits
  BY LimiterTypes
<1>2. CASE AllowNewWindow /\ backend' = backend
  <2>1. count' \in 1..MaxHits /\ count' <= Limit
    BY <1>1, <1>2 DEF AllowNewWindow
  <2>2. QED
    BY <1>2, <2>1, WindowOpens DEF AllowNewWindow, Grant
<1>3. CASE AllowInWindow /\ backend' = backend
  <2>1. count <= Limit
    BY <1>3 DEF AllowInWindow, LimiterInv
  <2>2. count' \in 0..MaxHits /\ count' <= Limit /\ count' >= count
    BY <1>1, <1>3, <2>1 DEF AllowInWindow, AtLimit
  <2>3. QED
    BY <1>1, <1>3, <2>2, WindowGoesOn DEF AllowInWindow, AtLimit, Grant, Deny
<1>4. CASE (AllowRedis \/ AllowUnanswered) /\ backend' = backend
  <2>1. /\ backend = "redis" /\ Script
        /\ verdict' \in {"allowed", "denied", "error"}
        /\ \/ recent' = recent
           \/ recent' = [recent EXCEPT ![0] = @ + 1] /\ count + 1 <= Limit
    BY <1>1, <1>4 DEF AllowRedis, AllowUnanswered, Script, Grant, Deny, Exceeds
  <2>2. /\ count' \in 1..MaxHits /\ count' >= count
        /\ count + 1 <= Limit => count' = count + 1
    BY <1>1, <2>1 DEF Script, Saturated
  <2>3. CASE left < 0
    <3>1. left' = Window
      BY <2>1, <2>3 DEF Script, Rearms
    <3>2. QED
      BY <1>4, <2>1, <2>2, <2>3, <3>1, WindowOpens
  <2>4. CASE ~(left < 0)
    <3>1. left >= 0 /\ count >= 1
      BY <1>1, <2>1, <2>4 DEF LimiterInv
    <3>2. left' = left
      BY <1>1, <2>1, <2>4, <3>1 DEF Script, Rearms
    <3>3. count' \in 0..MaxHits /\ (count + 1 <= Limit => count < Limit)
      BY <1>1, <2>2
    <3>4. QED
      BY <1>4, <2>1, <2>2, <3>1, <3>2, <3>3, WindowGoesOn
  <2>5. QED
    BY <2>3, <2>4
<1>5. CASE Tick /\ backend' = backend
  BY <1>5, TickKeeps
<1>6. CASE UNCHANGED limiterVars
  BY <1>6 DEF limiterVars, LimiterInv, TypeOK, OpenWindow
<1>7. QED
  BY <1>2, <1>3, <1>4, <1>5, <1>6 DEF LimiterNext, Allow

\* No call has been allowed in the first state, whatever Redis holds.
LEMMA LimiterInitInv == LimiterInit => LimiterInv
<1> SUFFICES ASSUME LimiterInit PROVE LimiterInv
  OBVIOUS
<1>1. TypeOK /\ (backend = "memory" => count <= Limit) /\ left < 0 /\ ~(left >= 0)
  BY LimitAssumption, WindowAssumption, MaxHitsAssumption DEF LimiterInit, TypeOK
<1>2. recent \in [Ages -> Nat] /\ \A a \in Ages : recent[a] = 0
  BY DEF LimiterInit, Ages
<1>3. 0 \in Ages
  BY WindowAssumption DEF Ages
<1>4. Calls(recent) = {}
  <2>1. ASSUME NEW c \in Calls(recent) PROVE FALSE
    BY <1>2, CallsShape
  <2>2. QED
    BY <2>1
<1>5. Cardinality(Calls(recent)) = 0
  BY <1>4, FS_EmptySet
<1>6. QED
  BY <1>1, <1>2, <1>3, <1>5, LimitAssumption DEF LimiterInv

(***************************************************************************)
(* For every limit and window, either limiter and any counter that Redis   *)
(* may start with, no stretch of time as long as the window has more than  *)
(* two windows' worth of allowed calls.                                    *)
(***************************************************************************)
THEOREM AlwaysBurstBounded == LimiterSpec => []BurstBounded
<1>1. LimiterInv => BurstBounded
  <2> SUFFICES ASSUME LimiterInv PROVE Cardinality(Calls(recent)) <= 2 * Limit
    BY DEF BurstBounded, Allowed, Calls
  <2>1. PICK f, n : f = recent /\ n = Window - left
    OBVIOUS
  <2>2. f \in [Ages -> Nat] /\ n \in Int /\ Limit \in Nat /\ left \in Int
    BY <2>1, LimiterTypes
  <2>3. PICK c, y, o :
          /\ c = Cardinality(Calls(f)) /\ y = Cardinality(Young(f, n))
          /\ o = Cardinality(Old(f, n))
    OBVIOUS
  <2>4. c \in Nat /\ y \in Nat /\ o \in Nat /\ c <= y + o
    BY <2>2, <2>3, CallsCounted
  <2>5. c <= Limit \/ (y <= Limit /\ o <= Limit)
    BY <2>1, <2>2, <2>3 DEF LimiterInv, OpenWindow
  <2>6. c <= 2 * Limit
    BY <2>2, <2>4, <2>5
  <2>7. QED
    BY <2>1, <2>3, <2>6
<1>2. QED
  BY <1>1, LimiterInitInv, LimiterNextInv, PTL DEF LimiterSpec

-----------------------------------------------------------------------------
(* LogPipeline *)

\* The type of a record on its way, and of what a sink got.
Shape == STRING \cup {"hmac", "[redacted]"}
LogFields == UNION {[DOMAIN f -> Shape] : f \in Records}
Passed == Contexts \cup {"background", "none"}
Record == [ctx : Passed, level : Int, fields : LogFields]
Delivery == [at : DOMAIN tree, ctx : Passed, level : Int, fields : LogFields]

LogTypeOK ==
  /\ tree \in Trees
  /\ written # NoWrite =>
       written \in [ctx : Contexts, level : Levels, fields : Records]
  /\ progress \in [DOMAIN tree -> {"idle", "running", "returned", "panicked"}]
  /\ given \in [DOMAIN tree -> Record \cup {NoWrite}]
  /\ delivered \in Seq(Delivery)
  /\ written = NoWrite =>
       delivered = <<>> /\ \A p \in DOMAIN tree : progress[p] = "idle"

\* What a logger was called with is what was logged, but for what the loggers
\* on the way to it do to a record.
Faithful(p) ==
  /\ given[p] \in Record
  /\ Passes(p)
  /\ given[p].ctx = BoundContext(written.ctx)
  /\ Clamp(given[p].level) = Clamp(written.level)
  /\ Shown(p, given[p].fields)

AllFaithful ==
  \A p \in DOMAIN tree : progress[p] # "idle" => written # NoWrite /\ Faithful(p)

\* Does the logger at p hand on the record that it was called with?
Forwards(p) == tree[p].kind = "filter" => Enabled(tree[p], given[p].level)

\* Calls are nested: of a logger at p and the kth that it writes to.
NestedAt(p, k) ==
  LET q == Append(p, k)
  IN  /\ progress[q] # "idle" => progress[p] # "idle"
      /\ Busy(q) => Busy(p)
      /\ Ended(p) /\ Forwards(p) => Ended(q)
      /\ progress[q] = "panicked" /\ Ended(p) /\ tree[p].kind # "multi"
           => progress[p] = "panicked"

Nested == \A p \in DOMAIN tree : \A k \in 1..Width(tree[p]) : NestedAt(p, k)

\* Every panic goes back to a sink with no fan-out in between.
BlamedOn(p, s) ==
  /\ s \in Sinks /\ Broken(s) /\ Passes(s)
  /\ \A m \in Way(s) : tree[m].kind = "multi" => m \in Way(p)

Blamed == \A p \in DOMAIN tree : progress[p] = "panicked" => \E s : BlamedOn(p, s)

\* A sink that has returned is one that works and has its record, once.
GotIt(k) ==
  LET s == delivered[k].at
  IN  /\ s \in Sinks /\ ~Broken(s) /\ progress[s] = "returned"
      /\ tree[s].kind = "sink" => delivered[k].ctx = given[s].ctx
      /\ Clamp(delivered[k].level) = Clamp(given[s].level)
      /\ delivered[k].fields = given[s].fields

Fulfilled ==
  /\ \A k \in 1..Len(delivered) : GotIt(k)
  /\ \A j, k \in 1..Len(delivered) : delivered[j].at = delivered[k].at => j = k
  /\ \A s \in Sinks : Ended(s) =>
       IF Broken(s) THEN progress[s] = "panicked" ELSE DeliveriesTo(s) # {}

LogInv == LogTypeOK /\ AllFaithful /\ Nested /\ Blamed /\ Fulfilled

-----------------------------------------------------------------------------
(* Places *)

\* A logger writes to a number of loggers.
LEMMA WidthIsNat ==
  ASSUME NEW l \in Logger
  PROVE  /\ Width(l) \in Nat
         /\ l.kind = "multi" => Width(l) = l.of
         /\ l.kind \in {"filter", "redactor"} => Width(l) = 1
         /\ l.kind \in {"nop", "console", "sink"} => Width(l) = 0
         /\ l.kind \in {"nop", "console", "sink", "filter", "redactor", "multi"}
         /\ l.kind = "filter" => l.min \in 0..3
  BY DEF Logger, Width, LevelDebug, LevelError

\* The places on the way to one are places, each the next one's caller.
LEMMA Prefixes ==
  ASSUME IsTree(tree), NEW p \in DOMAIN tree
  PROVE  /\ p \in Seq(Nat) /\ Len(p) \in Nat /\ tree[p] \in Logger
         /\ SubSeq(p, 1, 0) = <<>> /\ SubSeq(p, 1, Len(p)) = p
         /\ \A i \in 1..Len(p) :
              /\ SubSeq(p, 1, i - 1) \in DOMAIN tree
              /\ p[i] \in 1..Width(tree[SubSeq(p, 1, i - 1)])
              /\ SubSeq(p, 1, i) = Append(SubSeq(p, 1, i - 1), p[i])
<1>1. /\ p \in Seq(Nat) /\ tree[p] \in Logger
      /\ \A i \in 1..Len(p) : /\ SubSeq(p, 1, i - 1) \in DOMAIN tree
                              /\ p[i] \in 1..Width(tree[SubSeq(p, 1, i - 1)])
  BY DEF IsTree
<1>2. Len(p) \in Nat
  BY <1>1, LenProperties
<1>3. SubSeq(p, 1, 0) = <<>>
  BY SubSeqEmpty
<1>4. SubSeq(p, 1, Len(p)) = p
  BY <1>1, SubSeqFull
<1>5. ASSUME NEW i \in 1..Len(p)
      PROVE  SubSeq(p, 1, i) = Append(SubSeq(p, 1, i - 1), p[i])
  <2>1. SubSeq(p, 1, i) = SubSeq(p, 1, i - 1) \o <<p[i]>>
    BY <1>1, <1>2, SubSeqRecursiveSecond
  <2>2. SubSeq(p, 1, i - 1) \in Seq(Nat)
    BY <1>1 DEF IsTree
  <2>3. p[i] \in Nat
    BY <1>1, ElementOfSeq
  <2>4. QED
    BY <2>1, <2>2, <2>3, AppendIsConcat
<1>6. QED
  BY <1>1, <1>2, <1>3, <1>4, <1>5

\* The loggers on the way to the kth that p writes to are p and those on the
\* way to p; and no other logger writes to it.
LEMMA Child ==
  ASSUME IsTree(tree), NEW p \in DOMAIN tree, NEW k \in 1..Width(tree[p])
  PROVE  /\ Append(p, k) \in DOMAIN tree /\ Append(p, k) # <<>>
         /\ Way(Append(p, k)) = Way(p) \cup {p}
         /\ \A x \in DOMAIN tree : \A j \in 1..Width(tree[x]) :
              Append(x, j) = Append(p, k) => x = p
<1> DEFINE q == Append(p, k)
<1>1. p \in Seq(Nat) /\ tree[p] \in Logger /\ k \in Nat /\ q \in DOMAIN tree
  BY WidthIsNat DEF IsTree
<1>2. /\ q \in Seq(Nat) /\ q # <<>> /\ Len(q) = Len(p) + 1 /\ Len(p) \in Nat
      /\ \A i \in 1..Len(p) : q[i] = p[i]
  BY <1>1, AppendProperties, LenProperties
<1>3. ASSUME NEW i \in 0..Len(p)
      PROVE  SubSeq(q, 1, i) = SubSeq(p, 1, i)
  <2>1. /\ \A j \in 1..i : q[j] \in Nat /\ p[j] \in Nat /\ q[j] = p[j]
    BY <1>1, <1>2, ElementOfSeq
  <2>2. /\ SubSeq(q, 1, i) \in Seq(Nat) /\ SubSeq(p, 1, i) \in Seq(Nat)
        /\ Len(SubSeq(q, 1, i)) = i /\ Len(SubSeq(p, 1, i)) = i
        /\ \A j \in 1..i : SubSeq(q, 1, i)[j] = q[j] /\ SubSeq(p, 1, i)[j] = p[j]
    BY <1>2, <2>1, SubSeqProperties
  <2>3. QED
    BY <2>1, <2>2, SeqEqual
<1>4. SubSeq(p, 1, Len(p)) = p
  BY Prefixes
<1>5. Way(q) = Way(p) \cup {p}
  <2>1. 0..(Len(q) - 1) = 0..(Len(p) - 1) \cup {Len(p)}
    BY <1>2
  <2>2. Way(q) = {SubSeq(p, 1, i) : i \in 0..(Len(p) - 1) \cup {Len(p)}}
    BY <1>2, <1>3, <2>1 DEF Way
  <2>3. QED
    BY <1>4, <2>2 DEF Way
<1>6. ASSUME NEW x \in DOMAIN tree, NEW j \in 1..Width(tree[x]), Append(x, j) = q
      PROVE  x = p
  <2>1. x \in Seq(Nat) /\ tree[x] \in Logger
    BY DEF IsTree
  <2>2. j \in Nat
    BY <2>1, WidthIsNat
  <2>3. QED
    BY <1>1, <1>6, <2>1, <2>2, AppendInjective
<1>7. QED
  BY <1>1, <1>2, <1>5, <1>6

\* No logger is on the way to the outermost one.
LEMMA WayOfRoot ==
  ASSUME IsTree(tree)
  PROVE  /\ Way(<<>>) = {} /\ <<>> \in DOMAIN tree
         /\ \A x \in DOMAIN tree : \A j \in 1..Width(tree[x]) : Append(x, j) # <<>>
         /\ \A p \in DOMAIN tree : /\ Way(p) \subseteq DOMAIN tree
                                   /\ <<>> \in Way(p) \cup {p}
<1>1. <<>> \in DOMAIN tree
  BY DEF IsTree
<1>2. Len(<<>>) = 0
  BY EmptySeq
<1>3. Way(<<>>) = {}
  BY <1>2 DEF Way
<1>4. ASSUME NEW p \in DOMAIN tree
      PROVE  Way(p) \subseteq DOMAIN tree /\ <<>> \in Way(p) \cup {p}
  <2>1. \A i \in 0..(Len(p) - 1) : i + 1 \in 1..Len(p) /\ (i + 1) - 1 = i
    BY <1>4, Prefixes
  <2>2. \A i \in 0..(Len(p) - 1) : SubSeq(p, 1, i) \in DOMAIN tree
    BY <2>1, Prefixes
  <2>3. CASE Len(p) = 0
    BY <2>3, Prefixes DEF Way
  <2>4. CASE Len(p) # 0
    <3>1. 0 \in 0..(Len(p) - 1)
      BY <2>4, Prefixes
    <3>2. QED
      BY <2>2, <3>1, Prefixes DEF Way
  <2>5. QED
    BY <2>2, <2>3, <2>4 DEF Way
<1>5. QED
  BY <1>1, <1>3, <1>4, Child

-----------------------------------------------------------------------------
(* Steps *)

\* A logger that is not called stays faithful.
LEMMA StaysFaithful ==
  ASSUME NEW p, Faithful(p), UNCHANGED <<tree, written>>, given'[p] = given[p]
  PROVE  Faithful(p)'
<1>1. Passes(p)'
  BY DEF Faithful, Passes, Enabled
<1>2. Shown(p, given[p].fields)'
  BY DEF Faithful, Shown, Covered
<1>3. given'[p] \in Record'
  BY DEF Faithful, Record
<1>4. QED
  BY <1>1, <1>2, <1>3 DEF Faithful

\* A logger that is running passes a record on to the next.
LEMMA EmitStep ==
  ASSUME LogInv, IsTree(tree), NEW p \in DOMAIN tree, Busy(p),
         NEW k \in 1..Width(tree[p]), NEW record \in Record,
         record.ctx = given[p].ctx,
         Clamp(record.level) = Clamp(given[p].level),
         Shown(Append(p, k), record.fields), Passes(Append(p, k)),
         Emit(Append(p, k), record)
  PROVE  LogInv'
<1> DEFINE q == Append(p, k)
<1>1. /\ q \in DOMAIN tree /\ progress[q] = "idle" /\ p # q
      /\ \A x \in DOMAIN tree : \A j \in 1..Width(tree[x]) : Append(x, j) = q => x = p
  BY Child DEF Emit, Busy
<1>2. /\ progress' = [progress EXCEPT ![q] = "running"]
      /\ given' = [given EXCEPT ![q] = record]
      /\ UNCHANGED <<tree, written, delivered>>
  BY DEF Emit
<1>3. LogTypeOK /\ AllFaithful /\ Nested /\ Blamed /\ Fulfilled
  BY DEF LogInv
<1>4. /\ progress \in [DOMAIN tree -> {"idle", "running", "returned", "panicked"}]
      /\ given \in [DOMAIN tree -> Record \cup {NoWrite}]
  BY <1>3 DEF LogTypeOK
<1>5. /\ progress'[q] = "running" /\ given'[q] = record
      /\ \A x \in DOMAIN tree : x # q => progress'[x] = progress[x] /\ given'[x] = given[x]
  BY <1>1, <1>2, <1>4
<1>6. written # NoWrite /\ Faithful(p)
  BY <1>3 DEF AllFaithful, Busy
<1>7. LogTypeOK'
  <2>1. progress' \in [DOMAIN tree -> {"idle", "running", "returned", "panicked"}]
    BY <1>2, <1>4
  <2>2. given' \in [DOMAIN tree -> Record \cup {NoWrite}]
    BY <1>2, <1>4
  <2>3. QED
    BY <1>2, <1>3, <1>6, <2>1, <2>2 DEF LogTypeOK, Delivery, Record
<1>8. AllFaithful'
  <2>1. Faithful(q)'
    BY <1>2, <1>5, <1>6 DEF Faithful, Passes, Shown, Covered, Record
  <2>2. ASSUME NEW x \in DOMAIN tree, progress'[x] # "idle", x # q
        PROVE  Faithful(x)'
    <3>1. Faithful(x)
      BY <1>3, <1>5, <2>2 DEF AllFaithful
    <3>2. given'[x] = given[x]
      BY <1>5, <2>2
    <3>3. QED
      BY <1>2, <3>1, <3>2, StaysFaithful
  <2>3. QED
    BY <1>2, <1>6, <2>1, <2>2 DEF AllFaithful
<1>9. Nested'
  <2> SUFFICES ASSUME NEW x \in DOMAIN tree, NEW j \in 1..Width(tree[x])
               PROVE  NestedAt(x, j)'
    BY <1>2 DEF Nested
  <2> DEFINE y == Append(x, j)
  <2>1. y \in DOMAIN tree /\ NestedAt(x, j)
    BY <1>3, Child DEF Nested
  <2>2. CASE y = q
    <3>1. x = p /\ progress'[x] = "running"
      BY <1>1, <1>5, <2>2 DEF Busy
    <3>2. QED
      BY <1>5, <2>2, <3>1 DEF NestedAt, Busy, Ended
  <2>3. CASE y # q /\ x = q
    <3>1. progress'[y] = "idle" /\ progress'[x] = "running"
      BY <1>1, <1>5, <2>1, <2>3 DEF NestedAt
    <3>2. QED
      BY <3>1 DEF NestedAt, Busy, Ended
  <2>4. CASE y # q /\ x # q
    <3>1. progress'[x] = progress[x] /\ progress'[y] = progress[y] /\ given'[x] = given[x]
      BY <1>5, <2>1, <2>4
    <3>2. QED
      BY <1>2, <2>1, <3>1 DEF NestedAt, Busy, Ended, Forwards, Enabled
  <2>5. QED
    BY <2>2, <2>3, <2>4
<1>10. Blamed'
  <2> SUFFICES ASSUME NEW x \in DOMAIN tree, progress'[x] = "panicked"
               PROVE  (\E s : BlamedOn(x, s))'
    BY <1>2 DEF Blamed
  <2>1. PICK s : BlamedOn(x, s)
    BY <1>3, <1>5 DEF Blamed
  <2>2. BlamedOn(x, s)'
    BY <1>2, <2>1 DEF BlamedOn, Sinks, Broken, Passes
  <2>3. QED
    BY <2>2
<1>11. Fulfilled'
  <2>1. ASSUME NEW i \in 1..Len(delivered) PROVE GotIt(i)'
    <3>1. GotIt(i)
      BY <1>3 DEF Fulfilled
    <3>2. delivered[i].at \in DOMAIN tree /\ delivered[i].at # q
      BY <1>1, <3>1 DEF GotIt, Sinks
    <3>3. QED
      BY <1>2, <1>5, <3>1, <3>2 DEF GotIt, Sinks, Broken
  <2>2. ASSUME NEW s \in Sinks, Ended(s)'
        PROVE  IF Broken(s) THEN progress'[s] = "panicked" ELSE DeliveriesTo(s) # {}
    <3>1. progress'[s] = progress[s]
      BY <1>5, <2>2 DEF Ended, Sinks
    <3>2. QED
      BY <1>3, <2>2, <3>1 DEF Fulfilled, Ended
  <2>3. QED
    BY <1>2, <1>3, <2>1, <2>2 DEF Fulfilled, Sinks, Broken, DeliveriesTo
<1>12. QED
  BY <1>7, <1>8, <1>9, <1>10, <1>11 DEF LogInv

\* A logger whose calls are over returns or panics: all but what it may have
\* delivered.
LEMMA EndStep ==
  ASSUME LogInv, IsTree(tree), NEW p \in DOMAIN tree, Busy(p),
         NEW how \in {"returned", "panicked"}, End(p, how),
         \A k \in 1..Width(tree[p]) :
           /\ ~Busy(Append(p, k))
           /\ Forwards(p) => Ended(Append(p, k))
           /\ progress[Append(p, k)] = "panicked" /\ tree[p].kind # "multi"
                => how = "panicked",
         how = "panicked" => \E s : BlamedOn(p, s),
         delivered' \in Seq(Delivery)
  PROVE  LogTypeOK' /\ AllFaithful' /\ Nested' /\ Blamed'
<1>1. /\ progress' = [progress EXCEPT ![p] = how]
      /\ UNCHANGED <<tree, written, given>>
  BY DEF End
<1>2. LogTypeOK /\ AllFaithful /\ Nested /\ Blamed
  BY DEF LogInv
<1>3. progress \in [DOMAIN tree -> {"idle", "running", "returned", "panicked"}]
  BY <1>2 DEF LogTypeOK
<1>4. /\ progress'[p] = how /\ progress[p] = "running"
      /\ \A x \in DOMAIN tree : x # p => progress'[x] = progress[x]
  BY <1>1, <1>3 DEF Busy
<1>5. written # NoWrite
  BY <1>2, <1>4 DEF AllFaithful
<1>6. LogTypeOK'
  <2>1. progress' \in [DOMAIN tree -> {"idle", "running", "returned", "panicked"}]
    BY <1>1, <1>3
  <2>2. QED
    BY <1>1, <1>2, <1>5, <2>1 DEF LogTypeOK, Delivery, Record
<1>7. AllFaithful'
  <2> SUFFICES ASSUME NEW x \in DOMAIN tree, progress'[x] # "idle"
               PROVE  Faithful(x)'
    BY <1>1, <1>5 DEF AllFaithful
  <2>1. Faithful(x)
    BY <1>2, <1>4 DEF AllFaithful
  <2>2. QED
    BY <1>1, <2>1, StaysFaithful
<1>8. Nested'
  <2> SUFFICES ASSUME NEW x \in DOMAIN tree, NEW j \in 1..Width(tree[x])
               PROVE  NestedAt(x, j)'
    BY <1>1 DEF Nested
  <2> DEFINE y == Append(x, j)
  <2>1. y \in DOMAIN tree /\ NestedAt(x, j)
    BY <1>2, Child DEF Nested
  <2>2. Forwards(x)' <=> Forwards(x)
    BY <1>1 DEF Forwards, Enabled
  <2>3. CASE x = p
    <3>1. y # p
      BY <1>4, <2>3 DEF Busy
    <3>2. progress'[y] = progress[y] /\ progress'[x] = how
      BY <1>4, <2>1, <2>3, <3>1
    <3>3. /\ progress'[y] # "running"
          /\ Forwards(x) => Ended(y)'
          /\ progress'[y] = "panicked" /\ tree[x].kind # "multi" => how = "panicked"
      BY <2>3, <3>2 DEF Busy, Ended
    <3>4. QED
      BY <1>1, <2>2, <3>2, <3>3 DEF NestedAt, Busy, Ended
  <2>4. CASE x # p /\ y = p
    <3>1. progress[x] = "running" /\ progress'[x] = "running"
      BY <1>4, <2>1, <2>4 DEF NestedAt, Busy
    <3>2. QED
      BY <1>4, <2>4, <3>1 DEF NestedAt, Busy, Ended
  <2>5. CASE x # p /\ y # p
    <3>1. progress'[x] = progress[x] /\ progress'[y] = progress[y]
      BY <1>4, <2>1, <2>5
    <3>2. QED
      BY <1>1, <2>1, <2>2, <3>1 DEF NestedAt, Busy, Ended
  <2>6. QED
    BY <2>3, <2>4, <2>5
<1>9. Blamed'
  <2> SUFFICES ASSUME NEW x \in DOMAIN tree, progress'[x] = "panicked"
               PROVE  (\E s : BlamedOn(x, s))'
    BY <1>1 DEF Blamed
  <2>1. PICK s : BlamedOn(x, s)
    BY <1>2, <1>4 DEF Blamed
  <2>2. BlamedOn(x, s)'
    BY <1>1, <2>1 DEF BlamedOn, Sinks, Broken, Passes
  <2>3. QED
    BY <2>2
<1>10. QED
  BY <1>6, <1>7, <1>8, <1>9

\* And if it delivers nothing, all of it.
LEMMA SilentEnd ==
  ASSUME LogInv, IsTree(tree), NEW p \in DOMAIN tree, Busy(p),
         NEW how \in {"returned", "panicked"}, End(p, how), UNCHANGED delivered,
         \A k \in 1..Width(tree[p]) :
           /\ ~Busy(Append(p, k))
           /\ Forwards(p) => Ended(Append(p, k))
           /\ progress[Append(p, k)] = "panicked" /\ tree[p].kind # "multi"
                => how = "panicked",
         how = "panicked" => \E s : BlamedOn(p, s),
         p \in Sinks => Broken(p) /\ how = "panicked"
  PROVE  LogInv'
<1>1. /\ progress' = [progress EXCEPT ![p] = how]
      /\ UNCHANGED <<tree, written, given, delivered>>
  BY DEF End
<1>2. LogTypeOK /\ Fulfilled
  BY DEF LogInv
<1>3. /\ progress \in [DOMAIN tree -> {"idle", "running", "returned", "panicked"}]
      /\ delivered \in Seq(Delivery)
  BY <1>2 DEF LogTypeOK
<1>4. /\ progress'[p] = how /\ progress[p] = "running"
      /\ \A x \in DOMAIN tree : x # p => progress'[x] = progress[x]
  BY <1>1, <1>3 DEF Busy
<1>5. LogTypeOK' /\ AllFaithful' /\ Nested' /\ Blamed'
  BY <1>1, <1>3, EndStep
<1>6. Fulfilled'
  <2>1. ASSUME NEW i \in 1..Len(delivered) PROVE GotIt(i)'
    <3>1. GotIt(i)
      BY <1>2 DEF Fulfilled
    <3>2. delivered[i].at \in DOMAIN tree /\ delivered[i].at # p
      BY <1>4, <3>1 DEF GotIt, Sinks
    <3>3. QED
      BY <1>1, <1>4, <3>1, <3>2 DEF GotIt, Sinks, Broken
  <2>2. ASSUME NEW s \in Sinks, Ended(s)'
        PROVE  IF Broken(s) THEN progress'[s] = "panicked" ELSE DeliveriesTo(s) # {}
    <3>1. CASE s = p
      BY <1>4, <2>2, <3>1
    <3>2. CASE s # p
      <4>1. progress'[s] = progress[s]
        BY <1>4, <2>2, <3>2 DEF Sinks
      <4>2. QED
        BY <1>2, <2>2, <4>1 DEF Fulfilled, Ended
    <3>3. QED
      BY <3>1, <3>2
  <2>3. QED
    BY <1>1, <1>2, <2>1, <2>2 DEF Fulfilled, Sinks, Broken, DeliveriesTo
<1>7. QED
  BY <1>5, <1>6 DEF LogInv

\* A sink that works delivers its record.
LEMMA SinkEnd ==
  ASSUME LogInv, IsTree(tree), NEW p \in Sinks, Busy(p), ~Broken(p),
         End(p, "returned"), NEW record \in Record,
         tree[p].kind = "sink" => record.ctx = given[p].ctx,
         Clamp(record.level) = Clamp(given[p].level),
         record.fields = given[p].fields,
         Deliver(p, record)
  PROVE  LogInv'
<1> DEFINE d == [at |-> p, ctx |-> record.ctx, level |-> record.level,
                 fields |-> record.fields]
<1>1. /\ progress' = [progress EXCEPT ![p] = "returned"]
      /\ UNCHANGED <<tree, written, given>> /\ delivered' = Append(delivered, d)
  BY DEF End, Deliver
<1>2. LogTypeOK /\ Fulfilled
  BY DEF LogInv
<1>3. /\ progress \in [DOMAIN tree -> {"idle", "running", "returned", "panicked"}]
      /\ delivered \in Seq(Delivery) /\ d \in Delivery /\ p \in DOMAIN tree
  BY <1>2 DEF LogTypeOK, Sinks, Delivery, Record
<1>4. /\ progress'[p] = "returned" /\ progress[p] = "running"
      /\ \A x \in DOMAIN tree : x # p => progress'[x] = progress[x]
  BY <1>1, <1>3 DEF Busy
<1>5. /\ delivered' \in Seq(Delivery) /\ Len(delivered') = Len(delivered) + 1
      /\ Len(delivered) \in Nat /\ delivered'[Len(delivered) + 1] = d
      /\ \A i \in 1..Len(delivered) : delivered'[i] = delivered[i]
  BY <1>1, <1>3, AppendProperties, LenProperties
<1>6. LogTypeOK' /\ AllFaithful' /\ Nested' /\ Blamed'
  <2>1. Width(tree[p]) = 0
    BY DEF Sinks, Width
  <2>2. QED
    BY <1>3, <1>5, <2>1, EndStep
<1>7. ASSUME NEW i \in 1..Len(delivered)
      PROVE  GotIt(i)' /\ delivered'[i].at # p
  <2>1. GotIt(i) /\ delivered'[i] = delivered[i]
    BY <1>2, <1>5 DEF Fulfilled
  <2>2. delivered[i].at \in DOMAIN tree /\ delivered[i].at # p
    BY <1>4, <2>1 DEF GotIt, Sinks
  <2>3. QED
    BY <1>1, <1>4, <2>1, <2>2 DEF GotIt, Sinks, Broken
<1>8. ASSUME NEW n, n = Len(delivered) + 1 PROVE GotIt(n)'
  BY <1>1, <1>4, <1>5, <1>8 DEF GotIt, Sinks, Broken
<1>9. 1..Len(delivered') = 1..Len(delivered) \cup {Len(delivered) + 1}
  BY <1>5
<1>10. \A i \in 1..Len(delivered') : GotIt(i)'
  BY <1>7, <1>8, <1>9
<1>11. \A i, j \in 1..Len(delivered') : delivered'[i].at = delivered'[j].at => i = j
  <2>1. \A i, j \in 1..Len(delivered) : delivered[i].at = delivered[j].at => i = j
    BY <1>2 DEF Fulfilled
  <2>2. delivered'[Len(delivered) + 1].at = p
    BY <1>5
  <2>3. QED
    BY <1>5, <1>7, <1>9, <2>1, <2>2
<1>12. ASSUME NEW s \in Sinks, Ended(s)'
       PROVE  IF Broken(s) THEN progress'[s] = "panicked" ELSE (DeliveriesTo(s))' # {}
  <2>1. CASE s = p
    <3>1. Len(delivered) + 1 \in (DeliveriesTo(p))'
      BY <1>5, <1>9 DEF DeliveriesTo
    <3>2. QED
      BY <2>1, <3>1
  <2>2. CASE s # p
    <3>1. progress'[s] = progress[s]
      BY <1>4, <1>12, <2>2 DEF Sinks
    <3>2. IF Broken(s) THEN progress[s] = "panicked" ELSE DeliveriesTo(s) # {}
      BY <1>2, <1>12, <3>1 DEF Fulfilled, Ended
    <3>3. DeliveriesTo(s) \subseteq (DeliveriesTo(s))'
      BY <1>5, <1>9 DEF DeliveriesTo
    <3>4. QED
      BY <3>1, <3>2, <3>3
  <2>3. QED
    BY <2>1, <2>2
<1>13. Fulfilled'
  BY <1>1, <1>10, <1>11, <1>12 DEF Fulfilled, Sinks, Broken
<1>14. QED
  BY <1>6, <1>13 DEF LogInv

\* What a running logger was called with, and how to hand it on.
LEMMA Given ==
  ASSUME LogInv, NEW p \in DOMAIN tree, Busy(p)
  PROVE  /\ Faithful(p) /\ given[p] \in Record /\ written # NoWrite
         /\ given[p].level \in Int /\ given[p].fields \in LogFields
         /\ Clamp(Clamp(given[p].level)) = Clamp(given[p].level)
         /\ Clamp(given[p].level) \in Int
<1>1. Faithful(p) /\ given[p] \in Record /\ written # NoWrite
  BY DEF LogInv, AllFaithful, Busy, Faithful
<1>2. QED
  BY <1>1 DEF Record, Clamp, LevelDebug, LevelError

LEMMA NopLogKeepsInv ==
  ASSUME LogInv, IsTree(tree), NEW p \in DOMAIN tree, Busy(p), NopLog(p)
  PROVE  LogInv'
<1>1. Width(tree[p]) = 0 /\ p \notin Sinks
  BY DEF NopLog, Width, Sinks
<1>2. QED
  BY <1>1, SilentEnd DEF NopLog

LEMMA ConsoleLogKeepsInv ==
  ASSUME LogInv, IsTree(tree), NEW p \in DOMAIN tree, Busy(p), ConsoleLog(p)
  PROVE  LogInv'
<1> DEFINE r == [ctx |-> "none", level |-> Clamp(given[p].level),
                 fields |-> given[p].fields]
<1>1. p \in Sinks /\ ~Broken(p) /\ tree[p].kind # "sink"
  BY DEF ConsoleLog, Sinks, Broken
<1>2. /\ r \in Record /\ Clamp(r.level) = Clamp(given[p].level)
      /\ r.fields = given[p].fields
  BY Given DEF Record, Passed
<1>3. QED
  BY <1>1, <1>2, SinkEnd DEF ConsoleLog

LEMMA SinkLogKeepsInv ==
  ASSUME LogInv, IsTree(tree), NEW p \in DOMAIN tree, Busy(p), SinkLog(p)
  PROVE  LogInv'
<1>1. p \in Sinks /\ Width(tree[p]) = 0 /\ (Broken(p) <=> tree[p].broken)
  BY DEF SinkLog, Sinks, Broken, Width
<1>2. CASE tree[p].broken /\ End(p, "panicked") /\ UNCHANGED delivered
  <2>1. BlamedOn(p, p)
    BY <1>1, <1>2, Given DEF BlamedOn, Faithful
  <2>2. QED
    BY <1>1, <1>2, <2>1, SilentEnd
<1>3. CASE ~tree[p].broken /\ End(p, "returned") /\ Deliver(p, given[p])
  BY <1>1, <1>3, Given, SinkEnd
<1>4. QED
  BY <1>2, <1>3 DEF SinkLog

LEMMA FilterLogKeepsInv ==
  ASSUME LogInv, IsTree(tree), NEW p \in DOMAIN tree, Busy(p), FilterLog(p)
  PROVE  LogInv'
<1> DEFINE q == Append(p, 1)
           r == [given[p] EXCEPT !.level = Clamp(@)]
<1>1. Width(tree[p]) = 1 /\ 1 \in 1..Width(tree[p]) /\ p \notin Sinks
  BY DEF FilterLog, Width, Sinks
<1>2. q \in DOMAIN tree /\ Way(q) = Way(p) \cup {p}
  BY <1>1, Child
<1>3. Enabled(tree[p], given[p].level) <=> Enabled(tree[p], written.level)
  BY Given DEF Faithful, Enabled
<1>4. CASE Enabled(tree[p], given[p].level) /\ Emit(q, r)
  <2>1. /\ r \in Record /\ r.ctx = given[p].ctx /\ r.fields = given[p].fields
        /\ Clamp(r.level) = Clamp(given[p].level)
    BY Given DEF Record
  <2>2. Passes(q)
    BY <1>2, <1>3, <1>4, Given DEF Passes, Faithful
  <2>3. \A key : Covered(q, key) <=> Covered(p, key)
    BY <1>2 DEF Covered, FilterLog
  <2>4. Shown(q, r.fields)
    BY <2>1, <2>3, Given DEF Shown, Faithful
  <2>5. QED
    BY <1>1, <1>4, <2>1, <2>2, <2>4, EmitStep
<1>5. CASE /\ ~Enabled(tree[p], given[p].level)
           /\ End(p, "returned") /\ UNCHANGED delivered
  <2>1. ASSUME progress[q] # "idle" PROVE FALSE
    <3>1. Passes(q)
      BY <1>2, <2>1 DEF LogInv, AllFaithful, Faithful
    <3>2. QED
      BY <1>2, <1>3, <1>5, <3>1 DEF Passes, FilterLog
  <2>2. \A k \in 1..Width(tree[p]) : Append(p, k) = q
    BY <1>1
  <2>3. ~Forwards(p) /\ ~Busy(q) /\ progress[q] # "panicked"
    BY <1>5, <2>1 DEF Forwards, FilterLog, Busy
  <2>4. QED
    BY <1>1, <1>5, <2>2, <2>3, SilentEnd
<1>6. QED
  BY <1>4, <1>5 DEF FilterLog, Inner

LEMMA RedactorLogKeepsInv ==
  ASSUME LogInv, IsTree(tree), NEW p \in DOMAIN tree, Busy(p), RedactorLog(p)
  PROVE  LogInv'
<1> DEFINE q == Append(p, 1)
           f == given[p].fields
           r == [given[p] EXCEPT !.fields = Redact(tree[p], @)]
<1>1. Width(tree[p]) = 1 /\ 1 \in 1..Width(tree[p]) /\ tree[p].kind = "redactor"
  BY DEF RedactorLog, Width
<1>2. q \in DOMAIN tree /\ Way(q) = Way(p) \cup {p}
  BY <1>1, Child
<1>3. /\ DOMAIN Redact(tree[p], f) = DOMAIN f
      /\ \A key \in DOMAIN f :
           Redact(tree[p], f)[key] =
             IF f[key] = "" \/ Lower(key) \notin tree[p].keys THEN f[key]
             ELSE IF tree[p].hashed THEN "hmac" ELSE "[redacted]"
  BY DEF Redact
<1>4. Redact(tree[p], f) \in LogFields
  <2>1. PICK g \in Records : f \in [DOMAIN g -> Shape]
    BY Given DEF LogFields
  <2>2. Redact(tree[p], f) \in [DOMAIN g -> Shape]
    <3>1. DOMAIN f = DOMAIN g /\ \A key \in DOMAIN f : f[key] \in Shape
      BY <2>1
    <3>2. \A key \in DOMAIN f : Redact(tree[p], f)[key] \in Shape
      BY <1>3, <3>1 DEF Shape
    <3>3. QED
      BY <3>1, <3>2 DEF Redact
  <2>3. QED
    BY <2>2 DEF LogFields
<1>5. /\ r \in Record /\ r.ctx = given[p].ctx /\ r.level = given[p].level
      /\ r.fields = Redact(tree[p], f)
  BY <1>4, Given DEF Record
<1>6. Passes(q)
  BY <1>1, <1>2, Given DEF Passes, Faithful
<1>7. \A key : Covered(q, key) <=> Covered(p, key) \/ Lower(key) \in tree[p].keys
  BY <1>1, <1>2 DEF Covered
<1>8. Shown(p, f)
  BY Given DEF Faithful
<1>9. Shown(q, Redact(tree[p], f))
  <2>1. ASSUME NEW key \in DOMAIN f
        PROVE  IF written.fields[key] = "" \/ ~Covered(q, key)
               THEN Redact(tree[p], f)[key] = written.fields[key]
               ELSE Redact(tree[p], f)[key] \in {"hmac", "[redacted]"}
    <3>1. IF written.fields[key] = "" \/ ~Covered(p, key)
          THEN f[key] = written.fields[key]
          ELSE f[key] \in {"hmac", "[redacted]"}
      BY <1>8, <2>1 DEF Shown
    <3>2. QED
      BY <1>3, <1>7, <2>1, <3>1
  <2>2. QED
    BY <1>3, <1>8, <2>1 DEF Shown
<1>10. QED
  BY <1>1, <1>5, <1>6, <1>9, EmitStep DEF RedactorLog, Inner

LEMMA UnwindKeepsInv ==
  ASSUME LogInv, IsTree(tree), NEW p \in DOMAIN tree, Busy(p), Unwind(p)
  PROVE  LogInv'
<1> DEFINE q == Append(p, 1)
<1>1. /\ Width(tree[p]) = 1 /\ 1 \in 1..Width(tree[p]) /\ p \notin Sinks
      /\ \A k \in 1..Width(tree[p]) : Append(p, k) = q
  BY DEF Unwind, Width, Sinks
<1>2. q \in DOMAIN tree /\ Way(q) = Way(p) \cup {p}
  BY <1>1, Child
<1>3. /\ progress[q] \in {"returned", "panicked"} /\ ~Busy(q) /\ Ended(q)
      /\ End(p, progress[q]) /\ UNCHANGED delivered
  BY DEF Unwind, Ended, Busy, Inner
<1>4. ASSUME progress[q] = "panicked" PROVE \E s : BlamedOn(p, s)
  <2>1. PICK s : BlamedOn(q, s)
    BY <1>2, <1>4 DEF LogInv, Blamed
  <2>2. BlamedOn(p, s)
    BY <1>2, <2>1 DEF BlamedOn, Unwind
  <2>3. QED
    BY <2>2
<1>5. QED
  BY <1>1, <1>3, <1>4, SilentEnd

LEMMA MultiLogKeepsInv ==
  ASSUME LogInv, IsTree(tree), NEW p \in DOMAIN tree, Busy(p), MultiLog(p)
  PROVE  LogInv'
<1>1. PICK k \in 1..tree[p].of : Emit(Append(p, k), given[p])
  BY DEF MultiLog
<1>2. tree[p].kind = "multi" /\ k \in 1..Width(tree[p])
  BY <1>1 DEF MultiLog, Width
<1>3. Way(Append(p, k)) = Way(p) \cup {p}
  BY <1>2, Child
<1>4. Passes(Append(p, k))
  BY <1>2, <1>3, Given DEF Passes, Faithful
<1>5. \A key : Covered(Append(p, k), key) <=> Covered(p, key)
  BY <1>2, <1>3 DEF Covered
<1>6. Shown(Append(p, k), given[p].fields)
  BY <1>5, Given DEF Shown, Faithful
<1>7. QED
  BY <1>1, <1>2, <1>4, <1>6, Given, EmitStep

LEMMA MultiReturnsKeepsInv ==
  ASSUME LogInv, IsTree(tree), NEW p \in DOMAIN tree, Busy(p), MultiReturns(p)
  PROVE  LogInv'
<1>1. tree[p].kind = "multi" /\ Width(tree[p]) = tree[p].of /\ p \notin Sinks
  BY DEF MultiReturns, Width, Sinks
<1>2. \A k \in 1..Width(tree[p]) : Ended(Append(p, k)) /\ ~Busy(Append(p, k))
  BY <1>1 DEF MultiReturns, Ended, Busy
<1>3. QED
  BY <1>1, <1>2, SilentEnd DEF MultiReturns

LEMMA WriteKeepsInv ==
  ASSUME LogInv, IsTree(tree),
         NEW ctx \in Contexts, NEW level \in Levels, NEW fields \in Records,
         Write(ctx, level, fields)
  PROVE  LogInv'
<1> DEFINE w == [ctx |-> ctx, level |-> level, fields |-> fields]
           r == [ctx |-> BoundContext(ctx), level |-> level, fields |-> fields]
<1>1. /\ tree' = tree /\ delivered' = delivered /\ written' = w
      /\ progress' = [progress EXCEPT ![<<>>] = "running"]
      /\ given' = [given EXCEPT ![<<>>] = r]
      /\ written = NoWrite
  BY DEF Write
<1>2. LogTypeOK /\ w # NoWrite
  BY RecordsAssumption DEF LogInv
<1>3. /\ delivered = <<>> /\ \A p \in DOMAIN tree : progress[p] = "idle"
      /\ progress \in [DOMAIN tree -> {"idle", "running", "returned", "panicked"}]
      /\ given \in [DOMAIN tree -> Record \cup {NoWrite}]
  BY <1>1, <1>2 DEF LogTypeOK
<1>4. r \in Record
  <2>1. fields \in LogFields
    <3>1. fields \in [DOMAIN fields -> STRING]
      BY RecordsAssumption
    <3>2. fields \in [DOMAIN fields -> Shape]
      BY <3>1 DEF Shape
    <3>3. QED
      BY <3>2 DEF LogFields
  <2>2. level \in Int /\ BoundContext(ctx) \in Passed
    BY LevelsAssumption DEF BoundContext, Passed
  <2>3. QED
    BY <2>1, <2>2 DEF Record
<1>5. /\ <<>> \in DOMAIN tree /\ Way(<<>>) = {}
      /\ \A x \in DOMAIN tree : \A j \in 1..Width(tree[x]) : Append(x, j) # <<>>
  BY WayOfRoot
<1>6. /\ progress'[<<>>] = "running" /\ given'[<<>>] = r
      /\ \A p \in DOMAIN tree : p # <<>> => progress'[p] = "idle"
  BY <1>1, <1>3, <1>5
<1>7. LogTypeOK'
  <2>1. progress' \in [DOMAIN tree -> {"idle", "running", "returned", "panicked"}]
    BY <1>1, <1>3
  <2>2. given' \in [DOMAIN tree -> Record \cup {NoWrite}]
    BY <1>1, <1>3, <1>4
  <2>3. QED
    BY <1>1, <1>2, <2>1, <2>2 DEF LogTypeOK, Delivery, Record
<1>8. AllFaithful'
  <2>1. Passes(<<>>)'
    BY <1>5 DEF Passes
  <2>2. Shown(<<>>, fields)'
    BY <1>1, <1>5 DEF Shown, Covered
  <2>3. Faithful(<<>>)'
    BY <1>1, <1>4, <1>6, <2>1, <2>2 DEF Faithful
  <2>4. QED
    BY <1>1, <1>2, <1>6, <2>3 DEF AllFaithful
<1>9. Nested'
  <2> SUFFICES ASSUME NEW x \in DOMAIN tree, NEW j \in 1..Width(tree[x])
               PROVE  NestedAt(x, j)'
    BY <1>1 DEF Nested
  <2>1. progress'[Append(x, j)] = "idle" /\ progress'[x] \in {"idle", "running"}
    BY <1>5, <1>6, Child
  <2>2. QED
    BY <2>1 DEF NestedAt, Busy, Ended
<1>10. Blamed'
  BY <1>1, <1>6 DEF Blamed
<1>11. Fulfilled'
  <2>1. Len(delivered') = 0
    BY <1>1, <1>3, EmptySeq
  <2>2. QED
    BY <1>1, <1>6, <2>1 DEF Fulfilled, Sinks, Ended
<1>12. QED
  BY <1>7, <1>8, <1>9, <1>10, <1>11 DEF LogInv

LEMMA LogStepKeepsInv ==
  ASSUME LogInv, [LogNext]_logVars
  PROVE  LogInv'
<1>1. IsTree(tree)
  BY TreesAssumption DEF LogInv, LogTypeOK
<1>2. ASSUME NEW p \in DOMAIN tree, LogStep(p) PROVE LogInv'
  BY <1>1, <1>2, NopLogKeepsInv, ConsoleLogKeepsInv, SinkLogKeepsInv, FilterLogKeepsInv,
     RedactorLogKeepsInv, UnwindKeepsInv, MultiLogKeepsInv, MultiReturnsKeepsInv
     DEF LogStep
<1>3. CASE UNCHANGED logVars
  <2>1. /\ tree' = tree /\ written' = written /\ given' = given
        /\ progress' = progress /\ delivered' = delivered
    BY <1>3 DEF logVars
  <2>2. LogTypeOK' /\ AllFaithful'
    <3>1. LogTypeOK'
      BY <2>1 DEF LogInv, LogTypeOK, Delivery, Record
    <3>2. \A p \in DOMAIN tree : Faithful(p) => Faithful(p)'
      BY <2>1, StaysFaithful
    <3>3. QED
      BY <2>1, <3>1, <3>2 DEF LogInv, AllFaithful
  <2>3. Nested'
    BY <2>1 DEF LogInv, Nested, NestedAt, Busy, Ended, Forwards
  <2>4. Blamed' /\ Fulfilled'
    BY <2>1 DEF LogInv, Blamed, BlamedOn, Sinks, Broken, Passes, Fulfilled, GotIt,
                DeliveriesTo, Ended
  <2>5. QED
    BY <2>2, <2>3, <2>4 DEF LogInv
<1>4. QED
  BY <1>1, <1>2, <1>3, WriteKeepsInv DEF LogNext

LEMMA LogInitInv ==
  ASSUME LogInit
  PROVE  LogInv
<1>1. /\ tree \in Trees /\ written = NoWrite /\ delivered = <<>>
      /\ given = [p \in DOMAIN tree |-> NoWrite]
      /\ progress = [p \in DOMAIN tree |-> "idle"]
  BY DEF LogInit
<1>2. \A p \in DOMAIN tree : progress[p] = "idle"
  BY <1>1
<1>3. LogTypeOK
  BY <1>1, <1>2, EmptySeq DEF LogTypeOK
<1>4. AllFaithful /\ Blamed
  BY <1>2 DEF AllFaithful, Blamed
<1>5. Nested
  <2>1. IsTree(tree)
    BY <1>1, TreesAssumption
  <2>2. QED
    BY <1>2, <2>1, Child DEF Nested, NestedAt, Busy, Ended
<1>6. Fulfilled
  BY <1>1, <1>2, EmptySeq DEF Fulfilled, Sinks, Ended
<1>7. QED
  BY <1>3, <1>4, <1>5, <1>6 DEF LogInv

\* Once the outermost logger has ended, so has every one on the way to a place
\* that the record gets to.
LEMMA PassedIsEnded ==
  ASSUME LogInv, IsTree(tree), Ended(<<>>), NEW p \in DOMAIN tree, Passes(p)
  PROVE  \A i \in 0..Len(p) : Ended(SubSeq(p, 1, i))
<1> DEFINE T == {i \in 0..Len(p) : ~Ended(SubSeq(p, 1, i))}
<1> SUFFICES ASSUME T # {} PROVE FALSE
  OBVIOUS
<1>1. Len(p) \in Nat /\ T \subseteq Nat
  BY Prefixes
<1>2. PICK i \in T : \A j \in T : i <= j
  BY <1>1, LeastNumber
<1>3. i \in 1..Len(p) /\ i - 1 \in 0..(Len(p) - 1) /\ i - 1 \notin T
  <2>1. i # 0
    BY <1>2, Prefixes
  <2>2. QED
    BY <1>1, <1>2, <2>1
<1> DEFINE x == SubSeq(p, 1, i - 1)
<1>4. /\ x \in DOMAIN tree /\ p[i] \in 1..Width(tree[x])
      /\ SubSeq(p, 1, i) = Append(x, p[i])
  BY <1>3, Prefixes
<1>5. Ended(x) /\ x \in Way(p)
  BY <1>3 DEF Way
<1>6. Forwards(x)
  <2>1. Faithful(x)
    BY <1>4, <1>5 DEF LogInv, AllFaithful, Ended
  <2>2. QED
    BY <1>5, <2>1 DEF Passes, Faithful, Forwards, Enabled
<1>7. Ended(Append(x, p[i]))
  BY <1>4, <1>5, <1>6 DEF LogInv, Nested, NestedAt
<1>8. QED
  BY <1>2, <1>4, <1>7

\* And a panic with no fan-out above it gets to the caller.
LEMMA PanicReachesCaller ==
  ASSUME LogInv, IsTree(tree), Ended(<<>>), NEW s \in Sinks, Broken(s), Passes(s),
         \A m \in Way(s) : tree[m].kind # "multi"
  PROVE  progress[<<>>] = "panicked"
<1>1. s \in DOMAIN tree /\ Len(s) \in Nat
  BY Prefixes DEF Sinks
<1>2. \A i \in 0..Len(s) : Ended(SubSeq(s, 1, i))
  BY <1>1, PassedIsEnded
<1> DEFINE T == {n \in 0..Len(s) : progress[SubSeq(s, 1, Len(s) - n)] # "panicked"}
<1> SUFFICES ASSUME T # {} PROVE FALSE
  <2>1. Len(s) \in 0..Len(s) /\ Len(s) - Len(s) = 0
    BY <1>1
  <2>2. SubSeq(s, 1, 0) = <<>>
    BY <1>1, Prefixes
  <2>3. QED
    BY <2>1, <2>2
<1>3. T \subseteq Nat
  BY <1>1
<1>4. PICK n \in T : \A j \in T : n <= j
  BY <1>3, LeastNumber
<1>5. progress[s] = "panicked"
  <2>1. Ended(s)
    <3>1. Len(s) \in 0..Len(s) /\ SubSeq(s, 1, Len(s)) = s
      BY <1>1, Prefixes
    <3>2. QED
      BY <1>2, <3>1
  <2>2. QED
    BY <2>1 DEF LogInv, Fulfilled
<1>6. n # 0
  <2>1. SubSeq(s, 1, Len(s) - 0) = s
    BY <1>1, Prefixes
  <2>2. QED
    BY <1>4, <1>5, <2>1
<1>7. PICK i : i = Len(s) - n + 1
  OBVIOUS
<1>8. /\ i \in 1..Len(s) /\ i - 1 = Len(s) - n /\ i - 1 \in 0..(Len(s) - 1)
      /\ i = Len(s) - (n - 1) /\ n - 1 \in 0..Len(s) /\ n - 1 \notin T
  BY <1>1, <1>4, <1>6, <1>7
<1> DEFINE x == SubSeq(s, 1, i - 1)
<1>9. /\ x \in DOMAIN tree /\ s[i] \in 1..Width(tree[x])
      /\ SubSeq(s, 1, i) = Append(x, s[i])
  <2>1. /\ s \in DOMAIN tree /\ i \in 1..Len(s)
    BY <1>1, <1>8
  <2>2. QED
    BY <2>1, Prefixes
<1>10. progress[Append(x, s[i])] = "panicked"
  BY <1>8, <1>9
<1>11. Ended(x) /\ x \in Way(s)
  <2>1. i - 1 \in 0..Len(s)
    BY <1>1, <1>8
  <2>2. QED
    BY <1>2, <1>8, <2>1 DEF Way
<1>12. progress[x] = "panicked"
  BY <1>9, <1>10, <1>11 DEF LogInv, Nested, NestedAt
<1>13. QED
  BY <1>4, <1>8, <1>12

LEMMA LogInvIsEnough ==
  ASSUME LogInv
  PROVE  EverySinkGetsItsRecord
<1> SUFFICES ASSUME Ended(<<>>) PROVE EverySinkGetsItsRecord
  BY DEF EverySinkGetsItsRecord
<1>1. IsTree(tree)
  BY TreesAssumption DEF LogInv, LogTypeOK
<1>2. ASSUME NEW s \in Sinks, NEW k \in DeliveriesTo(s)
      PROVE  /\ ~Broken(s) /\ Passes(s)
             /\ tree[s].kind = "sink" => delivered[k].ctx = BoundContext(written.ctx)
             /\ Clamp(delivered[k].level) = Clamp(written.level)
             /\ Shown(s, delivered[k].fields)
  <2>1. GotIt(k) /\ delivered[k].at = s
    BY <1>2 DEF LogInv, Fulfilled, DeliveriesTo
  <2>2. Faithful(s)
    BY <2>1 DEF GotIt, LogInv, AllFaithful, Sinks
  <2>3. QED
    BY <2>1, <2>2 DEF GotIt, Faithful
<1>3. ASSUME NEW s \in Sinks, Passes(s), ~Broken(s)
      PROVE  DeliveriesTo(s) # {}
  <2>1. Ended(s)
    <3>1. s \in DOMAIN tree /\ Len(s) \in 0..Len(s) /\ SubSeq(s, 1, Len(s)) = s
      BY <1>1, Prefixes DEF Sinks
    <3>2. QED
      BY <1>1, <1>3, <3>1, PassedIsEnded
  <2>2. QED
    BY <1>3, <2>1 DEF LogInv, Fulfilled
<1>4. ASSUME NEW s \in Sinks, NEW j \in DeliveriesTo(s), NEW k \in DeliveriesTo(s)
      PROVE  j = k
  BY DEF LogInv, Fulfilled, DeliveriesTo
<1>5. ASSUME progress[<<>>] = "panicked"
      PROVE  \E s \in Sinks : /\ Broken(s) /\ Passes(s)
                              /\ \A m \in Way(s) : tree[m].kind # "multi"
  <2>1. <<>> \in DOMAIN tree /\ Way(<<>>) = {}
    BY <1>1, WayOfRoot
  <2>2. PICK s : BlamedOn(<<>>, s)
    BY <1>5, <2>1 DEF LogInv, Blamed
  <2>3. QED
    BY <2>1, <2>2 DEF BlamedOn
<1>6. QED
  BY <1>1, <1>2, <1>3, <1>4, <1>5, PanicReachesCaller DEF EverySinkGetsItsRecord

\* A write that is over has reached every sink that it should have, once, with
\* what the decorators on the way leave of it.
THEOREM AlwaysEverySinkGetsItsRecord == LogSpec => []EverySinkGetsItsRecord
<1>1. LogInit => LogInv
  BY LogInitInv
<1>2. LogInv /\ [LogNext]_logVars => LogInv'
  BY LogStepKeepsInv
<1>3. LogInv => EverySinkGetsItsRecord
  BY LogInvIsEnough
<1>4. QED
  BY <1>1, <1>2, <1>3, PTL DEF LogSpec

-----------------------------------------------------------------------------
(* Compositions *)

\* The places of the kth tree below a logger.
LEMMA Below ==
  ASSUME NEW k \in Nat, NEW q \in Seq(Nat), NEW p, p = <<k>> \o q
  PROVE  /\ p \in Seq(Nat) /\ p # <<>> /\ Head(p) = k /\ Tail(p) = q
         /\ Len(q) \in Nat /\ Len(p) = Len(q) + 1
         /\ p[1] = k /\ \A i \in 1..Len(q) : p[i + 1] = q[i]
         /\ SubSeq(p, 1, 0) = <<>>
         /\ \A i \in 1..Len(q) : SubSeq(p, 1, i) = <<k>> \o SubSeq(q, 1, i - 1)
<1> DEFINE hd == <<k>>
<1>1. hd \in Seq(Nat) /\ Len(hd) = 1 /\ hd[1] = k /\ Len(q) \in Nat
  BY LenProperties
<1>2. /\ p \in Seq(Nat) /\ Len(p) = 1 + Len(q)
      /\ \A i \in 1..(1 + Len(q)) : p[i] = IF i <= 1 THEN hd[i] ELSE q[i - 1]
  BY <1>1, ConcatProperties
<1>3. p[1] = k /\ \A i \in 1..Len(q) : p[i + 1] = q[i]
  BY <1>1, <1>2
<1>4. p # <<>>
  BY <1>1, <1>2, EmptySeq
<1>5. Head(p) = k
  BY <1>2, <1>3, <1>4
<1>6. Tail(p) = q
  <2>1. /\ Tail(p) \in Seq(Nat) /\ Len(Tail(p)) = Len(q)
        /\ \A i \in 1..Len(Tail(p)) : Tail(p)[i] = p[i + 1]
    BY <1>1, <1>2, <1>4, HeadTailProperties
  <2>2. QED
    BY <1>3, <2>1, SeqEqual
<1>7. ASSUME NEW i \in 1..Len(q)
      PROVE  SubSeq(p, 1, i) = <<k>> \o SubSeq(q, 1, i - 1)
  <2>1. /\ SubSeq(p, 1, i) \in Seq(Nat) /\ Len(SubSeq(p, 1, i)) = i
        /\ \A j \in 1..i : SubSeq(p, 1, i)[j] = p[j]
    <3>1. \A j \in 1..i : p[j] \in Nat
      BY <1>1, <1>2, ElementOfSeq
    <3>2. QED
      BY <1>1, <3>1, SubSeqProperties
  <2> DEFINE t == SubSeq(q, 1, i - 1)
  <2>2. t \in Seq(Nat) /\ Len(t) = i - 1 /\ \A j \in 1..(i - 1) : t[j] = q[j]
    <3>1. \A j \in 1..(i - 1) : q[j] \in Nat
      BY <1>1, ElementOfSeq
    <3>2. QED
      BY <1>1, <3>1, SubSeqProperties
  <2>3. /\ hd \o t \in Seq(Nat) /\ Len(hd \o t) = i
        /\ \A j \in 1..i : (hd \o t)[j] = IF j <= 1 THEN hd[j] ELSE t[j - 1]
    BY <1>1, <2>2, ConcatProperties
  <2>4. \A j \in 1..i : SubSeq(p, 1, i)[j] = (hd \o t)[j]
    BY <1>1, <1>2, <2>1, <2>2, <2>3
  <2>5. QED
    BY <2>1, <2>3, <2>4, SeqEqual
<1>8. SubSeq(p, 1, 0) = <<>>
  BY SubSeqEmpty
<1>9. p \in Seq(Nat) /\ Len(q) \in Nat /\ Len(p) = Len(q) + 1
  BY <1>1, <1>2
<1>10. \A i \in 1..Len(q) : SubSeq(p, 1, i) = <<k>> \o SubSeq(q, 1, i - 1)
  BY <1>7
<1>11. QED
  BY <1>3, <1>4, <1>5, <1>6, <1>8, <1>9, <1>10

\* And the places that follow one of them.
LEMMA NextBelow ==
  ASSUME NEW k \in Nat, NEW q \in Seq(Nat), NEW j \in Nat
  PROVE  Append(<<k>> \o q, j) = <<k>> \o Append(q, j)
<1>1. <<k>> \in Seq(Nat) /\ <<j>> \in Seq(Nat)
  OBVIOUS
<1>2. <<k>> \o q \in Seq(Nat)
  BY <1>1, ConcatProperties
<1>3. Append(<<k>> \o q, j) = (<<k>> \o q) \o <<j>> /\ Append(q, j) = q \o <<j>>
  BY <1>2, AppendIsConcat
<1>4. QED
  BY <1>1, <1>3, ConcatAssociative

\* A logger alone is a composition.
LEMMA LeafIsTree ==
  ASSUME NEW l \in Logger, Width(l) = 0
  PROVE  IsTree(Leaf(l))
<1>1. DOMAIN Leaf(l) = {<<>>} /\ Leaf(l)[<<>>] = l /\ <<>> \in Seq(Nat) /\ Len(<<>>) = 0
  BY EmptySeq DEF Leaf
<1>2. QED
  BY <1>1 DEF IsTree

\* A logger in front of compositions, as many as it writes to, is one: what
\* every constructor relies on, to whatever depth a host goes on with it.
THEOREM CompositionsAreTrees ==
  ASSUME NEW l \in Logger, NEW inner, Len(inner) = Width(l),
         \A k \in 1..Width(l) : IsTree(inner[k])
  PROVE  IsTree(Over(l, inner))
<1> DEFINE t == Over(l, inner)
           places(k) == {<<k>> \o q : q \in DOMAIN inner[k]}
<1>1. Width(l) \in Nat
  BY WidthIsNat
<1>2. DOMAIN t = {<<>>} \cup UNION {places(k) : k \in 1..Width(l)}
  BY DEF Over
<1>3. ASSUME NEW k \in 1..Width(l), NEW q \in DOMAIN inner[k]
      PROVE  /\ q \in Seq(Nat) /\ k \in Nat /\ <<k>> \o q \in DOMAIN t
             /\ t[<<k>> \o q] = inner[k][q]
  <2>1. q \in Seq(Nat) /\ k \in Nat
    BY <1>1 DEF IsTree
  <2>2. <<k>> \o q \in DOMAIN t
    BY <1>2
  <2>3. t[<<k>> \o q] = inner[k][q]
    <3>1. /\ <<k>> \o q # <<>> /\ Head(<<k>> \o q) = k /\ Tail(<<k>> \o q) = q
      BY <2>1, Below
    <3>2. \A p \in DOMAIN t : p # <<>> => t[p] = inner[Head(p)][Tail(p)]
      BY <1>2 DEF Over
    <3>3. QED
      BY <2>2, <3>1, <3>2
  <2>4. QED
    BY <2>1, <2>2, <2>3
<1>4. t[<<>>] = l /\ <<>> \in DOMAIN t
  BY DEF Over
<1>5. ASSUME NEW p \in DOMAIN t
      PROVE  /\ p \in Seq(Nat) /\ t[p] \in Logger
             /\ \A k \in 1..Width(t[p]) : Append(p, k) \in DOMAIN t
             /\ \A i \in 1..Len(p) : /\ SubSeq(p, 1, i - 1) \in DOMAIN t
                                     /\ p[i] \in 1..Width(t[SubSeq(p, 1, i - 1)])
  <2>1. CASE p = <<>>
    <3>1. p \in Seq(Nat) /\ Len(p) = 0
      BY <2>1, EmptySeq
    <3>2. ASSUME NEW k \in 1..Width(l) PROVE Append(p, k) \in DOMAIN t
      <4>1. <<>> \in DOMAIN inner[k] /\ k \in Nat
        BY <1>1 DEF IsTree
      <4>2. Append(p, k) = <<k>> \o <<>>
        <5>1. Append(p, k) = <<>> \o <<k>> /\ <<k>> \in Seq(Nat)
          BY <2>1, <3>1, <4>1, AppendIsConcat
        <5>2. QED
          BY <5>1, ConcatEmptySeq
      <4>3. QED
        BY <1>3, <4>1, <4>2
    <3>3. QED
      BY <1>4, <2>1, <3>1, <3>2
  <2>2. CASE p # <<>>
    <3>0. PICK k \in 1..Width(l) : p \in places(k)
      BY <1>2, <2>2
    <3>1. PICK q \in DOMAIN inner[k] : p = <<k>> \o q
      BY <3>0
    <3>2. /\ q \in Seq(Nat) /\ k \in Nat /\ t[p] = inner[k][q]
          /\ IsTree(inner[k])
      BY <1>3, <3>1
    <3>3. /\ p \in Seq(Nat) /\ Len(q) \in Nat /\ Len(p) = Len(q) + 1 /\ p[1] = k
          /\ \A i \in 1..Len(q) : p[i + 1] = q[i]
          /\ SubSeq(p, 1, 0) = <<>>
          /\ \A i \in 1..Len(q) : SubSeq(p, 1, i) = <<k>> \o SubSeq(q, 1, i - 1)
      BY <3>1, <3>2, Below
    <3>4. t[p] \in Logger /\ Width(t[p]) \in Nat
      BY <3>2, WidthIsNat DEF IsTree
    <3>5. ASSUME NEW j \in 1..Width(t[p]) PROVE Append(p, j) \in DOMAIN t
      <4>1. Append(q, j) \in DOMAIN inner[k] /\ j \in Nat
        BY <3>2, <3>4 DEF IsTree
      <4>2. Append(p, j) = <<k>> \o Append(q, j)
        BY <3>1, <3>2, <4>1, NextBelow
      <4>3. QED
        BY <1>3, <4>1, <4>2
    <3>6. ASSUME NEW i \in 1..Len(p)
          PROVE  /\ SubSeq(p, 1, i - 1) \in DOMAIN t
                 /\ p[i] \in 1..Width(t[SubSeq(p, 1, i - 1)])
      <4>1. CASE i = 1
        <5>1. SubSeq(p, 1, i - 1) = <<>> /\ p[i] = k
          BY <3>3, <4>1
        <5>2. QED
          BY <1>4, <5>1
      <4>2. CASE i # 1
        <5> DEFINE h == i - 1
        <5>1. h \in 1..Len(q) /\ p[i] = q[h]
          BY <3>3, <4>2
        <5>2. /\ SubSeq(q, 1, h - 1) \in DOMAIN inner[k]
              /\ q[h] \in 1..Width(inner[k][SubSeq(q, 1, h - 1)])
          BY <3>2, <5>1 DEF IsTree
        <5>3. SubSeq(p, 1, h) = <<k>> \o SubSeq(q, 1, h - 1)
          BY <3>3, <5>1
        <5>4. QED
          BY <1>3, <5>1, <5>2, <5>3
      <4>3. QED
        BY <4>1, <4>2
    <3>7. QED
      BY <3>3, <3>4, <3>5, <3>6
  <2>3. QED
    BY <2>1, <2>2
<1>6. QED
  BY <1>4, <1>5 DEF IsTree

=============================================================================
