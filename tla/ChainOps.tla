------------------------------ MODULE ChainOps ------------------------------
(***************************************************************************)
(* What core/track.c does to the list of active filters: adding one and    *)
(* acting on the code a filter returned.  Positions count from 0; -1       *)
(* stands for ~0U.                                                         *)
(***************************************************************************)
EXTENDS Integers, Sequences

\* The filter at position c.
At(ch, c) == ch[c + 1]

Without(ch, c) == SubSeq(ch, 1, c) \o SubSeq(ch, c + 2, Len(ch))

\* trk_filter_add: put f at position pos.
InsertAt(ch, pos, f) == SubSeq(ch, 1, pos) \o <<f>> \o SubSeq(ch, pos + 1, Len(ch))

\* go_fwd: the last filter of the chain is called again instead.
Forward(ch, c) ==
  IF c + 1 = Len(ch) THEN [ch |-> ch, c |-> c, r |-> "MORE"]
                     ELSE [ch |-> ch, c |-> c + 1, r |-> "DATA"]

\* trk_filter_handle_result: the chain, the position and the code track_run
\* acts on.
Handle(ch, c, r) ==
  CASE r = "DONE" ->
         IF Len(ch) = 1 THEN [ch |-> <<>>, c |-> -1, r |-> "FIN"]
         ELSE Forward(Without(ch, c), c - 1)
    [] r = "LASTOUT" ->
         IF c + 1 = Len(ch) THEN [ch |-> <<>>, c |-> -1, r |-> "FIN"]
         ELSE Forward(SubSeq(ch, c + 2, Len(ch)), -1)
    [] r \in {"OK", "DATA"} -> Forward(ch, c)
    [] r \in {"MORE", "BACK"} ->
         IF c = 0 THEN [ch |-> ch, c |-> c, r |-> "ERR"]
                  ELSE [ch |-> ch, c |-> c - 1, r |-> r]
    [] OTHER -> [ch |-> ch, c |-> c, r |-> r]

-----------------------------------------------------------------------------
(* A running chain as one value, for the modules that put real filters     *)
(* into it.  A call of a filter is a record c: what it sees (c.fwd,        *)
(* c.first, c.din), its own state c.f, the track's c.t, and what it        *)
(* leaves: its code c.r, its output c.out and the filters it added right   *)
(* before itself, c.prev, and right behind, c.add.                         *)

NewLine(ch, none) ==
  [ch |-> ch, cur |-> 0, fwd |-> FALSE, din |-> none, skip |-> {}, pc |-> "run",
   failed |-> FALSE]

\* trk_filter_run: what the filter at the current position sees.
CallOf(v, f, t, none) ==
  [fwd |-> v.fwd, first |-> v.cur = 0, din |-> v.din, f |-> f, t |-> t,
   r |-> "DATA", out |-> none, add |-> <<>>, prev |-> <<>>]

Passed(v) == At(v.ch, v.cur) \in v.skip /\ v.cur # 0

Ret(c, r, out) == [c EXCEPT !.r = r, !.out = out]

\* Each filter added next to the current one goes right behind it.
AddedNext(ch, cur, add) == SubSeq(ch, 1, cur + 1) \o add \o SubSeq(ch, cur + 2, Len(ch))

\* track_filter with PHI_TF_PREV: the current filter moves along.
AddedPrev(v, prev) ==
  [v EXCEPT !.ch = SubSeq(@, 1, v.cur) \o prev \o SubSeq(@, v.cur + 1, Len(@)),
            !.cur = @ + Len(prev)]

\* One turn of track_run's loop with a filter that returned r.
Turned(v, add, r, out, none) ==
  LET f == At(v.ch, v.cur)
      h == Handle(AddedNext(v.ch, v.cur, add), v.cur, r)
      w == [v EXCEPT !.ch = h.ch, !.cur = h.c,
                     !.skip = IF r = "OK" THEN @ \union {f} ELSE @ \ {f}]
  IN CASE h.r = "MORE"  -> [w EXCEPT !.fwd = FALSE, !.din = none]
       [] h.r = "BACK"  -> [w EXCEPT !.fwd = FALSE, !.din = out]
       [] h.r = "DATA"  -> [w EXCEPT !.fwd = TRUE, !.din = out]
       [] h.r = "ASYNC" -> [w EXCEPT !.pc = "async"]
       [] h.r = "FIN"   -> [w EXCEPT !.pc = "end"]
       [] OTHER         -> [w EXCEPT !.pc = "end", !.failed = TRUE]

=============================================================================
