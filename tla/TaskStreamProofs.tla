-------------------------- MODULE TaskStreamProofs --------------------------
(***************************************************************************)
(* What a client may conclude from the last message of its stream, checked *)
(* by TLAPS.  The invariant of the run carries over, since the stream only *)
(* reads what the run writes.                                              *)
(***************************************************************************)
EXTENDS TaskStream, SandboxProofs

(* What was told of an outcome is what the row holds.                      *)
Told ==
  /\ told \in {"completed", "failed"} => row.status = told
  /\ SandboxInv

(* An outcome that the client is told cannot change: only the coroutine    *)
(* writes it, just before it cleans up, and a cancel request expects a row *)
(* without one.                                                            *)
LEMMA OutcomeIsFinal ==
  ASSUME SandboxInv, [SandboxNext]_svars, row.status \in {"completed", "failed"}
  PROVE  row'.status = row.status
<1>1. pc \in {"stop", "remove", "ended"}
  BY DEF SandboxInv, Settled
<1>2. QED
  BY <1>1, RowIsFinal DEF SandboxInv

LEMMA StreamStep ==
  ASSUME [StreamNext]_tvars
  PROVE  /\ [SandboxNext]_svars
         /\ told' \in {"completed", "failed"} => \/ told' = told
                                                 \/ told' = row.status /\ UNCHANGED svars
<1>1. CASE Poller
  BY <1>1 DEF Poller, LookForTranscript, CheckStatus
<1>2. CASE ~Poller
  BY <1>2 DEF StreamNext, tvars
<1>3. QED
  BY <1>1, <1>2

LEMMA ToldStep ==
  ASSUME Told, [StreamNext]_tvars
  PROVE  Told'
<1>1. [SandboxNext]_svars
  BY StreamStep
<1>2. SandboxInv'
  BY <1>1, SandboxInvStep DEF Told
<1>3. ASSUME told' \in {"completed", "failed"}
      PROVE  row'.status = told'
  <2>1. CASE told' = told
    BY <1>1, <1>3, <2>1, OutcomeIsFinal DEF Told
  <2>2. CASE told' = row.status /\ UNCHANGED svars
    BY <2>2 DEF svars, hostVars
  <2>3. QED
    BY <1>3, <2>1, <2>2, StreamStep
<1>4. QED
  BY <1>2, <1>3 DEF Told

LEMMA ToldInvariant == StreamSpec => []Told
<1>1. StreamInit => Told
  BY SandboxInvInit DEF StreamInit, Told
<1>2. Told /\ [StreamNext]_tvars => Told'
  BY ToldStep
<1>3. QED
  BY <1>1, <1>2, PTL DEF StreamSpec

(* A client told that its task completed or failed need not ask again,     *)
(* whatever the run, a cancel request or Docker does afterwards.           *)
THEOREM DoneTheorem == StreamSpec => DoneIsFinal
<1>1. Told /\ [StreamNext]_tvars => [(told \in {"completed", "failed"}) => row'.status = told]_tvars
  <2> SUFFICES ASSUME Told, [StreamNext]_tvars, told \in {"completed", "failed"}
               PROVE  row'.status = told
    OBVIOUS
  <2>1. [SandboxNext]_svars
    BY StreamStep
  <2>2. QED
    BY <2>1, OutcomeIsFinal DEF Told
<1>2. QED
  BY <1>1, ToldInvariant, PTL DEF StreamSpec, DoneIsFinal
=============================================================================
