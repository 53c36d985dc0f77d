------------------------- MODULE AcceptanceFinalization -------------------------
(***************************************************************************)
(* An attempt on a project from CubeMX whose last deadline passed before   *)
(* its fix was verified is finalized from the evidence there is: a proof   *)
(* binds the attempt, the diagnosis and the test run, and an attempt of    *)
(* two revisions of its own stands on the proof (acceptance/               *)
(* recovery_workflows.py, from line 3453).  Callers of both work at once.  *)
(***************************************************************************)
EXTENDS AcceptanceAttempt

CONSTANT Window  \* FINALIZATION_WINDOW_SECONDS

ASSUME WindowAssumption == Window \in Nat

VARIABLES
    proofs,  \* the proofs that are published
    final    \* the revisions of the finalization, by number

finalization == <<proofs, final>>

(* A proof names the newest event of the diagnosis and the run after the   *)
(* change; what else it names is the attempt's.                            *)
Proof == [revision : Operation, run : Change]

ASSUME NoneIsNoProof == None \notin [proof : Proof, stamp : 0 .. MaxClock]

Ended_Whenever == Published = 0 .. 6

(* The attempt has every stage but the last, and no time for that one.     *)
Ended == Published = 0 .. 6 /\ clock > roots[6].stamp + Timeout

(* The diagnosis has not moved on since its newest event was named.        *)
Resolved(p) ==
    LET out == roots[6].out
        l == log[out[4].session] IN
    /\ SessionOf(out, out[4].session) /\ In(l, "RESOLVED")
    /\ Len(l) = p.revision /\ out[5].revision < p.revision

(* The runs, the declared change and its verification agree.               *)
Supported(p) ==
    /\ [build |-> roots[6].out[3].run, passed |-> FALSE] \in runs
    /\ Verified(roots[6].out, [arg |-> p.run])

(* _load_finalization_graph_locked: everything a proof p stands for.       *)
Graph(p) == Ended /\ Resolved(p) /\ Supported(p)

(* _finalization_current_firmware_matches: the build after the change.     *)
StillBuilt == firmware = source /\ source = roots[6].out[6].build

Going(c, at, p, rev) == call' = [call EXCEPT ![c] = [Idle EXCEPT !.at = at, !.rev = rev, !.arg = p]]

(* _finalization_request_matches_proof                                     *)
Matches(p, rev) == final[rev] # None /\ final[rev].proof = p

Newer == IF final[1] # None THEN 1 ELSE 0

(* To begin, a caller binds a proof or names one that is published; when   *)
(* the finalization is there already, with the same proof, it is read.     *)
Bind(c) ==
    /\ call[c].at = "idle" /\ adapter = "physical" /\ diagnosis = None
    /\ \E p \in Proof :
         /\ Graph(p)
         /\ \/ Matches(p, 0) /\ Going(c, "answer", p, Newer) /\ UNCHANGED diagnosis
            \/ /\ final[0] = None /\ p \in proofs
               /\ Going(c, "bound", p, 0) /\ UNCHANGED diagnosis
            \/ /\ final[0] = None /\ p \notin proofs /\ StillBuilt
               /\ Going(c, "bind", p, 0) /\ diagnosis' = c
    /\ told' = [told EXCEPT ![c] = None]
    /\ UNCHANGED <<log, adapter, clock, project, roots, evidence, finalization>>

(* No one else can have published it: whoever does holds the diagnosis.    *)
LockProof(c) ==
    /\ call[c].at = "bind" /\ evidence = None
    /\ Ended /\ StillBuilt
    /\ call' = [call EXCEPT ![c].at = "prove"] /\ evidence' = c
    /\ UNCHANGED <<log, adapter, clock, project, roots, diagnosis, told, finalization>>

PublishProof(c) ==
    /\ call[c].at = "prove" /\ proofs' = proofs \cup {call[c].arg}
    /\ call' = [call EXCEPT ![c].at = "bound"] /\ evidence' = None /\ diagnosis' = None
    /\ UNCHANGED <<log, adapter, clock, project, roots, told, final>>

(* The proof is published and its locks are given back; what it stands for *)
(* is authenticated again, under the lock of the diagnosis.                *)
Reopen(c) ==
    /\ call[c].at = "bound" /\ diagnosis = None
    /\ call[c].arg \in proofs /\ Graph(call[c].arg) /\ StillBuilt
    /\ call' = [call EXCEPT ![c].at = "held"] /\ diagnosis' = c
    /\ UNCHANGED <<log, adapter, clock, project, roots, evidence, told, finalization>>

OpenAt(t) == t <= final[0].stamp + Window

(* The checkpoint that completes a finalization, or is asked for again.    *)
Complete(c) ==
    /\ call[c].at = "idle" /\ adapter = "physical" /\ diagnosis = None
    /\ \E p \in proofs :
         /\ Matches(p, 0) /\ Graph(p)
         /\ \/ final[1] # None /\ Going(c, "answer", p, 1) /\ UNCHANGED diagnosis
            \/ /\ final[1] = None /\ StillBuilt /\ OpenAt(clock)
               /\ Going(c, "held", p, 1) /\ diagnosis' = c
    /\ told' = [told EXCEPT ![c] = None]
    /\ UNCHANGED <<log, adapter, clock, project, roots, evidence, finalization>>

(* Under both locks the revision may have appeared; if not, what can have  *)
(* changed is looked at once more, and the revision gets its stamp.        *)
LockFinal(c) ==
    /\ call[c].at = "held" /\ evidence = None
    /\ LET rev == call[c].rev IN
       \/ /\ final[rev] # None /\ Matches(call[c].arg, rev)
          /\ call' = [call EXCEPT ![c].at = "answer", ![c].rev = Newer]
          /\ diagnosis' = None /\ UNCHANGED evidence
       \/ /\ final[rev] = None /\ Ended /\ StillBuilt /\ (rev = 1 => OpenAt(clock))
          /\ call' = [call EXCEPT ![c].at = "stamped", ![c].new = clock]
          /\ evidence' = c /\ UNCHANGED diagnosis
    /\ UNCHANGED <<log, adapter, clock, project, roots, told, finalization>>

Lasts(c) == clock <= (IF call[c].rev = 0 THEN call[c].new ELSE final[0].stamp) + Window

PublishFinal(c) ==
    /\ call[c].at = "stamped" /\ Lasts(c)
    /\ final' = [final EXCEPT ![call[c].rev] = [proof |-> call[c].arg, stamp |-> call[c].new]]
    /\ call' = [call EXCEPT ![c].at = "answer", ![c].new = None]
    /\ evidence' = None /\ diagnosis' = None
    /\ UNCHANGED <<log, adapter, clock, project, roots, told, proofs>>

(* _validate_finalization_result: with no lock held the attempt is read    *)
(* again, and has to be the one that is about to be returned.              *)
Answer(c) ==
    /\ call[c].at = "answer" /\ diagnosis = None
    /\ Graph(call[c].arg) /\ call[c].rev = Newer
    /\ told' = [told EXCEPT ![c] = [rev |-> 8 + call[c].rev, arg |-> call[c].arg, s |-> None]]
    /\ call' = [call EXCEPT ![c] = Idle]
    /\ UNCHANGED <<log, adapter, clock, project, roots, evidence, diagnosis, finalization>>

Finalize(c) ==
    \/ Bind(c) \/ LockProof(c) \/ PublishProof(c) \/ Reopen(c) \/ Complete(c)
    \/ LockFinal(c) \/ PublishFinal(c) \/ Answer(c)

FInit == Init /\ proofs = {} /\ final = [rev \in {0, 1} |-> None]

FNext ==
    \/ Next /\ UNCHANGED finalization
    \/ \E c \in Client : Finalize(c)

FSpec == FInit /\ [][FNext]_<<vars, finalization>>

--------------------------------------------------------------------------------
(* What every later call asks of the roots, of the attempt and of its      *)
(* finalization: the second revision stands on the same proof as the first *)
(* and came within its window, and the proof is there.                     *)
EveryChainLoads ==
    /\ ChainLoads
    /\ final[0] # None => final[0].proof \in proofs
    /\ final[1] # None => /\ final[0] # None /\ final[1].proof = final[0].proof
                          /\ final[1].stamp \in final[0].stamp .. final[0].stamp + Window

(* A fix is accepted once: when a proof is there, what it stands for is    *)
(* so, and the attempt that it finalizes never completes by itself.        *)
FixedOnce ==
    /\ CompletedMeansFixed
    /\ proofs # {} => roots[7] = None /\ roots[6] # None
    /\ \A p \in proofs :
         LET out == roots[6].out
             l == log[out[4].session] IN
         /\ {[build |-> out[2].build, passed |-> FALSE], [build |-> p.run, passed |-> TRUE]}
                \subseteq runs
         /\ p.run = out[4].intent /\ p.run # out[2].build
         /\ In(l, "RESOLVED") /\ Newest(l).arg = p.run /\ Len(l) = p.revision

(* A caller that was told a stage, or a revision of the finalization, is   *)
(* complete asked for what is recorded; and when two begin one             *)
(* finalization, both are told of the proof it stands on.                  *)
EveryAnswerIsRecorded ==
    /\ AnswersAreRecorded
    /\ \A c \in Client : told[c] # None /\ told[c].rev \in {8, 9} => Matches(told[c].arg, told[c].rev - 8)
================================================================================
