---------------------------- MODULE ResultLedger ----------------------------
(***************************************************************************)
(* What the orchestration store promises about results, with the clock,    *)
(* the lease rows, the tokens and the authorizations hidden.  Every claim  *)
(* of an attempt opens a new epoch; at any time an attempt has at most one *)
(* holder, the claimant of its newest epoch; only the holder decides the   *)
(* attempt's verdict, once; and a decided verdict is applied to the node   *)
(* at most once, while the node is in progress.                            *)
(***************************************************************************)
EXTENDS Naturals

CONSTANTS Nodes, Attempts, NodeOf

VARIABLES
  phase,     \* lifecycle state of every node
  epoch,     \* number of times an attempt has been claimed
  holder,    \* the epoch whose claimant holds the attempt; 0: nobody
  verdict,   \* what was decided for an attempt; "none": nothing yet
  applied    \* the attempts whose verdict has been applied to their node

ledgerVars == <<phase, epoch, holder, verdict, applied>>

Init ==
  /\ phase = [n \in Nodes |-> "absent"]
  /\ epoch = [a \in Attempts |-> 0]
  /\ holder = [a \in Attempts |-> 0]
  /\ verdict = [a \in Attempts |-> "none"]
  /\ applied = {}

\* A work's nodes appear together.
Open(S) ==
  /\ \A n \in S : phase[n] = "absent"
  /\ phase' = [n \in Nodes |-> IF n \in S THEN "pending" ELSE phase[n]]
  /\ UNCHANGED <<epoch, holder, verdict, applied>>

\* A node moves forward; it never leaves a terminal phase.
Advance(n) ==
  /\ \/ phase[n] = "pending" /\ phase' = [phase EXCEPT ![n] = "ready"]
     \/ phase[n] = "ready" /\ phase' = [phase EXCEPT ![n] = "in_progress"]
     \/ /\ phase[n] = "in_progress"
        /\ \E s \in {"passed", "failed"} : phase' = [phase EXCEPT ![n] = s]
  /\ UNCHANGED <<epoch, holder, verdict, applied>>

\* A claim opens the next epoch.  A claim made with an old clock reading may
\* be expired at birth and then holds nothing.
GrantEpoch(a) ==
  /\ holder[a] = 0
  /\ epoch' = [epoch EXCEPT ![a] = @ + 1]
  /\ \/ holder' = [holder EXCEPT ![a] = epoch[a] + 1]
     \/ holder' = holder
  /\ UNCHANGED <<phase, verdict, applied>>

\* Any number of holders lose their attempts at once (time passes for all).
Revoke(S) ==
  /\ holder' = [a \in Attempts |-> IF a \in S THEN 0 ELSE holder[a]]
  /\ UNCHANGED <<phase, epoch, verdict, applied>>

Decide(a) ==
  /\ holder[a] # 0
  /\ holder[a] = epoch[a]
  /\ verdict[a] = "none"
  /\ \E o \in {"passed", "failed"} : verdict' = [verdict EXCEPT ![a] = o]
  /\ UNCHANGED <<phase, epoch, holder, applied>>

Apply(a) ==
  /\ verdict[a] # "none"
  /\ a \notin applied
  /\ phase[NodeOf[a]] = "in_progress"
  /\ phase' = [phase EXCEPT ![NodeOf[a]] = verdict[a]]
  /\ applied' = applied \cup {a}
  /\ UNCHANGED <<epoch, holder, verdict>>

Next ==
  \/ \E S \in SUBSET Nodes : Open(S)
  \/ \E n \in Nodes : Advance(n)
  \/ \E a \in Attempts : GrantEpoch(a)
  \/ \E S \in SUBSET Attempts : Revoke(S)
  \/ \E a \in Attempts : Decide(a)
  \/ \E a \in Attempts : Apply(a)

Spec == Init /\ [][Next]_ledgerVars
=============================================================================
