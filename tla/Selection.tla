------------------------------ MODULE Selection ------------------------------
(***************************************************************************)
(* The loop by which a table's snapshot is narrowed to the entries wanted: *)
(* the entries are gone through in order and the kept ones are pushed.     *)
(* Listener tables select by it, native ones (jinnd-events) and the guests' *)
(* topics (jinnd-wasm).                                                    *)
(***************************************************************************)
LOCAL INSTANCE Naturals
LOCAL INSTANCE Sequences

\* The entries of the snapshot that are in kept, in its order.
Select(snapshot, kept) ==
    LET pick[n \in 0..Len(snapshot)] ==
          IF n = 0 THEN <<>>
          ELSE IF snapshot[n] \in kept THEN Append(pick[n - 1], snapshot[n])
          ELSE pick[n - 1]
    IN  pick[Len(snapshot)]
==============================================================================
