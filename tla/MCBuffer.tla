------------------------------ MODULE MCBuffer ------------------------------
EXTENDS Buffer

MCNumbers == {-16, -1, 0, 1, 2, 5}
MCValues == {3, 6, 120, 300}
MCStrings == {<<>>, <<1, 0, 2>>}
MCHexStrings == {<<1, 0, 1, 1>>, <<1, NoDigit, 0, 1>>, <<0, 1, 1>>}
MCArrays == {<<>>, <<1, 2, 3, 0>>, <<2, 1>>}
MCJunk == {0, 1, 6, SizeMax}

(***************************************************************************)
(* The loop of iotjs_bufferwrap_copy_internal, byte by byte, agrees with   *)
(* its closed form, on one piece of memory with every overlap.             *)
(***************************************************************************)
LoopCopy(bytes, from, at, n) ==
    LET after[k \in 0 .. n] ==
            IF k = 0 THEN bytes
            ELSE [after[k - 1] EXCEPT ![at + k - 1] = after[k - 1][from + k - 1]]
    IN  after[n]

ASSUME ClosedFormIsLoop ==
    LET whole == OfSequence(<<1, 2, 3, 0, 1, 3>>)
    IN  \A from, to, at \in 0 .. 6 :
            CopyWithin(whole, from, to, at).bytes
               = LoopCopy(whole.bytes, from, at, Copied(from, to, at, 6))
=============================================================================
