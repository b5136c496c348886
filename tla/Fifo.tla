-------------------------------- MODULE Fifo ----------------------------------
(***************************************************************************)
(* What a bounded single-producer single-consumer queue promises, the      *)
(* abstract specification SpscQueue and AudioRingBuffer implement: the     *)
(* producer appends elements while they fit, the consumer takes elements   *)
(* from the front, and what the consumer has taken is exactly what was     *)
(* appended, in order, with nothing lost, repeated or invented.  A step    *)
(* may move several elements (AudioRingBuffer moves up to `count` samples  *)
(* per call).                                                              *)
(***************************************************************************)
EXTENDS Naturals, Sequences

CONSTANT Capacity   \* the number of elements the queue can hold

VARIABLES
  queue,            \* the elements appended and not yet taken
  taken             \* everything the consumer has taken, in order

Init == queue = << >> /\ taken = << >>

\* The producer appends one or more elements, and the result fits.
Put ==
  /\ Len(queue) < Len(queue')
  /\ Len(queue') <= Capacity
  /\ SubSeq(queue', 1, Len(queue)) = queue
  /\ UNCHANGED taken

\* The consumer takes one or more elements from the front.
Take ==
  LET n == Len(queue) - Len(queue')
  IN  /\ n > 0
      /\ queue' = SubSeq(queue, n + 1, Len(queue))
      /\ taken' = taken \o SubSeq(queue, 1, n)

Spec == Init /\ [][Put \/ Take]_<<queue, taken>>

=============================================================================
