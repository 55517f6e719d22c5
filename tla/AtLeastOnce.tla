----------------------------- MODULE AtLeastOnce -----------------------------
(***************************************************************************)
(* What the relay promises about a numbered stream it follows with a       *)
(* stored bookmark ("crash+restart resumes both upstreams without loss"):  *)
(* whatever the bookmark has passed was dealt with, whichever connections  *)
(* come and go and wherever they fail.  The frames of a labeler (Upstream) *)
(* and the commits of the network (Firehose) are such streams.             *)
(*                                                                         *)
(* Dealing with an item twice is no step here: items may repeat.           *)
(***************************************************************************)
EXTENDS Integers

CONSTANTS
    Sole,       \* is there one reader at a time?
    MayForget,  \* may a reader fail to see the bookmark?
    MayRewind   \* may the machine lose power?

VARIABLES
    head,      \* the items published
    matters,   \* those that call for something
    bookmark,  \* the stored cursor, 0 if there is none
    dealt,     \* the items dealt with
    blank,     \* is there a reader that found no bookmark, about to start?
    base       \* the head when such a reader last started

vars == <<head, matters, bookmark, dealt, blank, base>>

Init ==
    /\ head = 0 /\ matters = {}
    /\ bookmark = 0 /\ dealt = {}
    /\ blank = FALSE
    /\ base = 0

\* Since the last start without a bookmark, b leaves nothing behind.
Backed(b) == b <= head /\ (base + 1 .. b) \cap matters \subseteq dealt

Publish ==
    /\ head' = head + 1
    /\ matters' \in {matters, matters \cup {head + 1}}
    /\ UNCHANGED <<bookmark, dealt, blank, base>>

\* A reader looks for a bookmark, and there is none.
Look ==
    /\ bookmark = 0
    /\ blank' = TRUE
    /\ UNCHANGED <<head, matters, bookmark, dealt, base>>

\* It starts at the head: what came before is not promised.
Start ==
    /\ blank
    /\ base' = head
    /\ blank' \in BOOLEAN
    /\ UNCHANGED <<head, matters, bookmark, dealt>>

\* Readers give up, or the process dies.
Stop ==
    /\ blank' = FALSE
    /\ UNCHANGED <<head, matters, bookmark, dealt, base>>

\* Items are dealt with for the first time in their order.
Deal ==
    /\ \E n \in 1 .. head :
          /\ Backed(n - 1)
          /\ dealt' = dealt \cup {n}
    /\ UNCHANGED <<head, matters, bookmark, blank, base>>

\* The bookmark moves over what was dealt with, and forward if nobody else moves it.
Mark ==
    /\ \E b \in 1 .. head :
          /\ Backed(b)
          /\ Sole => b >= bookmark
          /\ bookmark' = b
    /\ UNCHANGED <<head, matters, dealt, blank, base>>

\* A reader that cannot see the bookmark gives up what is behind it.
Forget ==
    /\ MayForget
    /\ bookmark # 0
    /\ dealt' = dealt \cup ((bookmark + 1 .. head) \cap matters)
    /\ UNCHANGED <<head, matters, bookmark, blank, base>>

\* The machine forgets the latest of both, and the bookmark is backed still.
Rewind ==
    /\ MayRewind
    /\ dealt' \subseteq dealt
    /\ bookmark' \in 0 .. head
    /\ (base + 1 .. bookmark') \cap matters \subseteq dealt'
    /\ blank' = FALSE
    /\ UNCHANGED <<head, matters, base>>

Next == Publish \/ Look \/ Start \/ Stop \/ Deal \/ Mark \/ Forget \/ Rewind

Spec == Init /\ [][Next]_vars
=============================================================================
