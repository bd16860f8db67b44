------------------------------ MODULE IonicTso ------------------------------
(***************************************************************************)
(* The segmentation walk of ionic_tx_tso (ionic_txrx.c): how one mapped   *)
(* TSO skb -- the linear head bufs[0] and the fragments bufs[1..nfrags] -- *)
(* is cut into one descriptor per segment, the first segment carrying the  *)
(* headers (hdrlen + mss bytes), every later one mss bytes.  A descriptor  *)
(* holds its first piece in the main descriptor and the rest in its SG     *)
(* elements.  Addresses are abstracted to <<buffer, offset>>: frag_addr    *)
(* advancing by chunk_len is the offset advancing within the buffer.       *)
(* Each step is one iteration of the inner or outer loop.                  *)
(***************************************************************************)
EXTENDS Naturals, Sequences, SequencesExt

CONSTANTS
  MaxSgElems,  \* q->max_sg_elems: ionic_tx_descs_needed linearizes above it
  MaxBufLen,   \* largest buffer length (bytes) offered
  MaxHdr,      \* largest hdrlen offered
  MaxMss       \* largest gso_size offered

VARIABLES
  bl,          \* buf_info[i].len for bufs[1..nbufs] (from ionic_tx_map_skb)
  hdrlen, mss, \* header length and gso_size of the skb
  pc,          \* "outer", "inner" or "done"
  bi,          \* buffers grabbed so far (buf_info - desc_info->bufs)
  foff,        \* frag_addr as an offset into buffer bi
  frag_rem, tso_rem, seg_rem,
  desc,        \* main descriptor piece <<buf, off, len>>, or <<>> (desc == NULL)
  sg,          \* SG elements filled for the current descriptor
  nsge,        \* desc_nsge
  start,       \* start: the next post is the SOT descriptor
  out          \* descriptors posted by ionic_tx_tso_post, in ring order

vars == <<bl, hdrlen, mss, pc, bi, foff, frag_rem, tso_rem, seg_rem, desc,
          sg, nsge, start, out>>

Plus(a, b) == a + b
Len0(s) == FoldSeq(Plus, 0, s)       \* total bytes of a length sequence
MinOf(a, b) == IF a <= b THEN a ELSE b

\* Mapped skbs the stack can hand over after ionic_tx_descs_needed: at most
\* max_sg_elems fragments, non-empty buffers, a payload beyond the headers.
Inputs == {<<l, h, m>> \in (UNION {[1 .. n -> 1 .. MaxBufLen] : n \in 1 .. MaxSgElems + 1})
                          \X (1 .. MaxHdr) \X (1 .. MaxMss) : Len0(l) > h}

\* Entry of ionic_tx_tso after ionic_tx_map_skb and the pseudo checksum:
\* tso_rem = len; seg_rem = min(tso_rem, hdrlen + mss); frag_rem = 0.
Init ==
  /\ \E in \in Inputs : bl = in[1] /\ hdrlen = in[2] /\ mss = in[3]
  /\ tso_rem = Len0(bl)
  /\ seg_rem = MinOf(Len0(bl), hdrlen + mss)
  /\ bi = 0 /\ foff = 0 /\ frag_rem = 0
  /\ pc = "outer" /\ start = TRUE
  /\ desc = <<>> /\ sg = <<>> /\ nsge = 0 /\ out = <<>>

\* while (tso_rem > 0): desc = NULL, elem = NULL, desc_nsge = 0
TsoNextDesc ==
  /\ pc = "outer" /\ tso_rem > 0
  /\ pc' = "inner" /\ desc' = <<>> /\ sg' = <<>> /\ nsge' = 0
  /\ UNCHANGED <<bl, hdrlen, mss, bi, foff, frag_rem, tso_rem, seg_rem, start, out>>

\* Mutant: chunk_len = seg_rem, ignoring the end of the fragment.
TsoChunkNoMin ==
  /\ pc = "inner" /\ seg_rem > 0
  /\ LET grab == frag_rem = 0
         b    == IF grab THEN bi + 1 ELSE bi
         off  == IF grab THEN 0 ELSE foff
         rem  == IF grab THEN bl[b] ELSE frag_rem
         n    == seg_rem
     IN /\ bi' = b
        /\ IF desc = <<>>
             THEN desc' = <<b, off, n>> /\ UNCHANGED <<sg, nsge>>
             ELSE sg' = Append(sg, <<b, off, n>>) /\ nsge' = nsge + 1
                  /\ UNCHANGED desc
        /\ foff' = off + n
        /\ frag_rem' = rem - n
        /\ tso_rem' = tso_rem - n
        /\ seg_rem' = seg_rem - n
  /\ UNCHANGED <<bl, hdrlen, mss, pc, start, out>>

\* One pass of the inner while (seg_rem > 0): grab the next buffer when the
\* current one is exhausted, take chunk_len = min(frag_rem, seg_rem) into
\* the main descriptor (first chunk) or the next SG element.
TsoChunk ==
  /\ pc = "inner" /\ seg_rem > 0
  /\ LET grab == frag_rem = 0
         b    == IF grab THEN bi + 1 ELSE bi
         off  == IF grab THEN 0 ELSE foff
         rem  == IF grab THEN bl[b] ELSE frag_rem
         n    == MinOf(rem, seg_rem)
     IN /\ bi' = b
        /\ IF desc = <<>>
             THEN desc' = <<b, off, n>> /\ UNCHANGED <<sg, nsge>>
             ELSE sg' = Append(sg, <<b, off, n>>) /\ nsge' = nsge + 1
                  /\ UNCHANGED desc
        /\ foff' = off + n
        /\ frag_rem' = rem - n
        /\ tso_rem' = tso_rem - n
        /\ seg_rem' = seg_rem - n
  /\ UNCHANGED <<bl, hdrlen, mss, pc, start, out>>

\* Mutant: every segment sized as if it carried the headers.
TsoPostHdrEvery ==
  /\ pc = "inner" /\ seg_rem = 0
  /\ seg_rem' = MinOf(tso_rem, hdrlen + mss)
  /\ out' = Append(out, [main |-> desc, sg |-> sg, nsge |-> nsge,
                         sot |-> start, eot |-> tso_rem = 0])
  /\ start' = FALSE
  /\ pc' = "outer"
  /\ UNCHANGED <<bl, hdrlen, mss, bi, foff, frag_rem, tso_rem, desc, sg, nsge>>

\* Inner loop done: seg_rem = min(tso_rem, mss); done = (tso_rem == 0);
\* ionic_tx_tso_post with SOT on the first descriptor and EOT on the last.
TsoPost ==
  /\ pc = "inner" /\ seg_rem = 0
  /\ seg_rem' = MinOf(tso_rem, mss)
  /\ out' = Append(out, [main |-> desc, sg |-> sg, nsge |-> nsge,
                         sot |-> start, eot |-> tso_rem = 0])
  /\ start' = FALSE
  /\ pc' = "outer"
  /\ UNCHANGED <<bl, hdrlen, mss, bi, foff, frag_rem, tso_rem, desc, sg, nsge>>

\* tso_rem == 0: leave the loop and account the packet.
TsoFinish ==
  /\ pc = "outer" /\ tso_rem = 0
  /\ pc' = "done"
  /\ UNCHANGED <<bl, hdrlen, mss, bi, foff, frag_rem, tso_rem, seg_rem, desc,
                 sg, nsge, start, out>>

Next == TsoNextDesc \/ TsoChunk \/ TsoPost \/ TsoFinish

Spec == Init /\ [][Next]_vars

-----------------------------------------------------------------------------

Piece == Nat \X Nat \X Nat

TypeOK ==
  /\ pc \in {"outer", "inner", "done"}
  /\ {bi, foff, frag_rem, tso_rem, seg_rem, nsge} \subseteq Nat
  /\ desc \in Piece \cup {<<>>} /\ sg \in Seq(Piece) /\ start \in BOOLEAN
  /\ out \in Seq([main : Piece, sg : Seq(Piece), nsge : Nat,
                  sot : BOOLEAN, eot : BOOLEAN])

-----------------------------------------------------------------------------
(* Reference segmentation, written from the TSO contract rather than the  *)
(* loop: byte ranges [lo, hi) of the segments, and the pieces of the       *)
(* buffers each range covers.                                              *)

TotalLen == Len0(bl)
BufStart(b) == Len0(SubSeq(bl, 1, b - 1))

RECURSIVE SegsFrom(_)
SegsFrom(lo) ==
  IF lo >= TotalLen THEN <<>>
  ELSE LET hi == MinOf(TotalLen, lo + (IF lo = 0 THEN hdrlen + mss ELSE mss))
       IN <<<<lo, hi>>>> \o SegsFrom(hi)

PiecesOf(lo, hi) ==
  LET Cut(b) == LET s == BufStart(b)
                    a == IF lo > s THEN lo ELSE s
                    e == MinOf(hi, s + bl[b])
                IN <<b, a - s, e - a>>
      covering == SelectSeq([b \in 1 .. Len(bl) |-> b],
                            LAMBDA b : BufStart(b) < hi /\ lo < BufStart(b) + bl[b])
  IN [k \in 1 .. Len(covering) |-> Cut(covering[k])]

Reference ==
  LET segs == SegsFrom(0)
      ps(k) == PiecesOf(segs[k][1], segs[k][2])
  IN [k \in 1 .. Len(segs) |->
        [main |-> Head(ps(k)), sg |-> Tail(ps(k)), nsge |-> Len(ps(k)) - 1,
         sot |-> k = 1, eot |-> k = Len(segs)]]

\* The descriptors ionic_tx_tso posts describe exactly the segments of the
\* packet: each byte of the skb lies in one descriptor of the right
\* segment, in order, with SOT on the first and EOT on the last; the walk
\* never reads a buffer past bufs[nbufs - 1] on the way.  Breaks if the
\* header is counted into a later segment, a fragment offset is not
\* advanced, or a buffer is skipped.
TsoMatchesReference ==
  /\ (pc = "inner" /\ seg_rem > 0 /\ frag_rem = 0) => bi < Len(bl)
  /\ pc = "done" => out = Reference

=============================================================================
