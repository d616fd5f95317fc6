---------------------------- MODULE RecoveryPaths ----------------------------
(***************************************************************************)
(* The recovering scan beside the strict parser over the same input, with  *)
(* the same limits.                                                        *)
(***************************************************************************)
EXTENDS RecoveringScan, FromBytes

StrictYields == Yields(input)

FirstFault == LeastOr(FaultsAt, Len(items) + 1)

CountLimits == LimitExceeded \ {"max_input_bytes"}

SpanOf(item) == [from |-> item.from, to |-> item.to]

-----------------------------------------------------------------------------
(***************************************************************************)
(* What the scan yields before its first fault is what the strict parser   *)
(* yields, and an input without a fault is one the strict parser accepts.  *)
(* The first fault carries the strict parser's error, unless the fault     *)
(* itself, which counts as a segment, is one segment or one fault too many.*)
(***************************************************************************)
StrictPrefix ==
  done =>
    /\ [i \in 1..FirstFault-1 |-> SpanOf(items[i])] = StrictYields.segs
    /\ FaultsAt = {} <=> StrictYields.error = NoError
    /\ FaultsAt # {} =>
         \/ items[FirstFault].error = StrictYields.error
         \/ items[FirstFault].error.kind \in CountLimits
=============================================================================
