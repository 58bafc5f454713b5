------------------------------- MODULE Access -------------------------------
(***************************************************************************)
(* Access lists (internal/access): a list is parsed from entries that name *)
(* one ID or an inclusive range, its ranges are sorted and merged, and an  *)
(* ID is looked up by binary search.  IDs keep the width of the code, one  *)
(* past the largest ID wraps to 0.                                         *)
(***************************************************************************)
EXTENDS Integers, Sequences, SequencesExt

CONSTANT MaxID      \* the largest ID a list can name: 2^32 - 1 in the code

ASSUME MaxIDAssumption == MaxID \in Nat \ {0}

Blank == ""     \* a setting that says nothing

(* An entry as it is written.  0 stands for whatever parseID refuses: 0    *)
(* itself, what is not a number, and a range with a side missing.          *)
Span(lo, hi) == [lo |-> lo, hi |-> hi]
EntryOK(e) == e.lo \in 1..MaxID /\ e.hi \in 1..MaxID /\ e.lo <= e.hi

(* Parse refuses an unknown mode and a permit list without entries.        *)
ParseOK(acl) ==
  /\ acl.mode \in {Blank, "deny", "permit"}
  /\ acl.mode = "permit" => acl.ids # <<>>
  /\ \A i \in DOMAIN acl.ids : EntryOK(acl.ids[i])

SpanBefore(a, b) == IF a.lo # b.lo THEN a.lo < b.lo ELSE a.hi < b.hi

(* merge: sorted, then folded into the last range it touches.  last.hi + 1 *)
(* is a uint32.                                                            *)
Touches(last, s) == s.lo <= last.hi \/ s.lo = (last.hi + 1) % (MaxID + 1)

(* Mutant: a range inside the last one cuts it short. *)
ExtendShrinking(out, s) ==
  IF out # <<>> /\ Touches(Last(out), s)
  THEN [out EXCEPT ![Len(out)].hi = s.hi]
  ELSE Append(out, s)

Extend(out, s) ==
  IF out # <<>> /\ Touches(Last(out), s)
  THEN [out EXCEPT ![Len(out)].hi = IF s.hi > @ THEN s.hi ELSE @]
  ELSE Append(out, s)

(* sort.Slice: the entries in an order in which none comes after a greater. *)
Sorted(spans) ==
  LET order == CHOOSE q \in Bijection(DOMAIN spans, DOMAIN spans) :
                 \A i, j \in DOMAIN spans : i < j => ~SpanBefore(spans[q[j]], spans[q[i]])
  IN  [i \in DOMAIN spans |-> spans[order[i]]]

Merged(spans) ==
  LET s == Sorted(spans)
      out[i \in 0..Len(s)] == IF i = 0 THEN <<>> ELSE Extend(out[i - 1], s[i])
  IN  out[Len(s)]

Parsed(acl) == [mode |-> IF acl.mode = "permit" THEN "permit" ELSE "deny",
                spans |-> Merged(acl.ids)]

(* names: the first range that ends at or after the ID, if it also starts  *)
(* at or before it.  sort.Search is right only when the ends ascend.       *)
Names(list, id) ==
  LET ends == {i \in DOMAIN list.spans : list.spans[i].hi >= id}
  IN  ends # {} /\ list.spans[CHOOSE i \in ends : \A j \in ends : i <= j].lo <= id

Allows(list, id) == IF list.mode = "permit" THEN Names(list, id) ELSE ~Names(list, id)

-----------------------------------------------------------------------------
(* What an operator means by a list: an ID is named when an entry covers   *)
(* it, and sort.Search finds what a search from the front finds because    *)
(* the merged ranges ascend and leave gaps between them.                   *)
MeansWhatItSays(acl) ==
  LET list == Parsed(acl)
  IN  /\ \A id \in 1..MaxID :
           Names(list, id) <=> \E i \in DOMAIN acl.ids : id \in acl.ids[i].lo..acl.ids[i].hi
      /\ \A i \in 1..(Len(list.spans) - 1) : list.spans[i].hi + 1 < list.spans[i + 1].lo
=============================================================================
