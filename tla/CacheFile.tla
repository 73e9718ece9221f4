----------------------------- MODULE CacheFile -----------------------------
(* What a file of .cache can hold, and what os.WriteFile makes of it. *)

\* No goroutine is at work on it.
Idle == [pc |-> "idle"]

Absent      == [kind |-> "absent"]
Empty       == [kind |-> "empty"]
Torn        == [kind |-> "torn"]
Whole(data) == [kind |-> "whole", of |-> data]

\* WriteFile truncates and then writes.  When somebody else has written meanwhile, a tail
\* of something longer may stay behind what is written over it.
Overwritten(content, data) ==
  {Whole(data)} \cup (IF content = Empty THEN {} ELSE {Torn})
=============================================================================
