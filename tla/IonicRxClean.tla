---------------------------- MODULE IonicRxClean ----------------------------
(***************************************************************************)
(* How ionic_rx_clean hands a received frame to GRO, and who owns each    *)
(* sk_buff while it does, with lif->rx_copybreak written concurrently by  *)
(* the ethtool tunable handler.  ionic_rx_clean reads rx_copybreak twice:  *)
(*   line 324  len <= rx_copybreak ? ionic_rx_copybreak (napi_alloc_skb,   *)
(*             a fresh skb) : ionic_rx_frags (napi_get_frags, the skb      *)
(*             NAPI keeps in napi->skb);                                   *)
(*   line 410  len <= rx_copybreak ? napi_gro_receive(skb) :               *)
(*             napi_gro_frags(napi), which takes napi->skb.                *)
(* The page side of both paths is in IonicRxq; here a frame is only its    *)
(* length, and an skb is a model value from a small pool.  napi_gro_frags  *)
(* either passes the skb up or, when GRO merged or dropped it, gives it    *)
(* back to napi->skb (napi_reuse_skb).                                     *)
(***************************************************************************)
EXTENDS Naturals, FiniteSets

CONSTANTS
  Skbs,        \* sk_buff pool
  NoSkb,       \* NULL
  Lens,        \* comp->len values the device reports
  CopyBreaks   \* values ethtool may store in lif->rx_copybreak

ASSUME NoSkb \notin Skbs /\ Lens \subseteq Nat /\ CopyBreaks \subseteq Nat

VARIABLES
  rx_copybreak,  \* q->lif->rx_copybreak
  napi_skb,      \* napi->skb, the frags skb NAPI keeps between frames
  free,          \* skbs not allocated
  stack,         \* skbs owned by the network stack
  pc,            \* ionic_rx_clean: "idle", "built" between lines 324 and 410,
                 \* or "oops" after a NULL dereference in napi_gro_frags
  cur,           \* the skb ionic_rx_clean holds
  clen           \* comp->len of the frame being cleaned

vars == <<rx_copybreak, napi_skb, free, stack, pc, cur, clen>>

-----------------------------------------------------------------------------
(* ethtool context                                                          *)

\* ETHTOOL_RX_COPYBREAK: a plain store to lif->rx_copybreak, with no
\* synchronisation against NAPI.
SetCopybreak(v) ==
  /\ rx_copybreak' = v
  /\ UNCHANGED <<napi_skb, free, stack, pc, cur, clen>>

-----------------------------------------------------------------------------
(* NAPI context: ionic_rx_clean for one completion                          *)

\* Line 324 chooses ionic_rx_copybreak: napi_alloc_skb takes a fresh skb.
\* (A NULL from napi_alloc_skb or napi_get_frags only counts a drop.)
RxCopybreak(len) ==
  /\ pc = "idle" /\ len <= rx_copybreak
  /\ \E s \in free :
       /\ free' = free \ {s} /\ cur' = s
       /\ pc' = "built" /\ clen' = len
  /\ UNCHANGED <<rx_copybreak, napi_skb, stack>>

\* Line 324 chooses ionic_rx_frags: napi_get_frags returns napi->skb,
\* allocating it first when NAPI holds none.
RxFrags(len) ==
  /\ pc = "idle" /\ len > rx_copybreak
  /\ \/ /\ napi_skb # NoSkb
        /\ cur' = napi_skb /\ UNCHANGED <<napi_skb, free>>
     \/ /\ napi_skb = NoSkb
        /\ \E s \in free :
             free' = free \ {s} /\ napi_skb' = s /\ cur' = s
  /\ pc' = "built" /\ clen' = len
  /\ UNCHANGED <<rx_copybreak, stack>>

\* napi_gro_frags(napi): the skb in napi->skb goes up and napi->skb is
\* cleared, or GRO frees it back into napi->skb (napi_reuse_skb).
GroFrags ==
  \/ /\ stack' = stack \cup {napi_skb}
     /\ napi_skb' = NoSkb
  \/ UNCHANGED <<stack, napi_skb>>

\* Line 410 reads rx_copybreak again and delivers: napi_gro_receive of the
\* skb built, or napi_gro_frags, which dereferences napi->skb -- NULL when
\* the frame was copied and NAPI holds no frags skb, and then the NAPI
\* context dies there holding the copied skb.
RxDeliver ==
  /\ pc = "built"
  /\ \/ /\ clen <= rx_copybreak
        /\ stack' = stack \cup {cur} /\ UNCHANGED napi_skb
        /\ pc' = "idle" /\ cur' = NoSkb
     \/ /\ clen > rx_copybreak /\ napi_skb # NoSkb
        /\ GroFrags
        /\ pc' = "idle" /\ cur' = NoSkb
     \/ /\ clen > rx_copybreak /\ napi_skb = NoSkb
        /\ pc' = "oops" /\ UNCHANGED <<stack, napi_skb, cur>>
  /\ UNCHANGED <<rx_copybreak, free, clen>>

-----------------------------------------------------------------------------
(* The stack finishes with an skb (consume or free).                        *)

StackFree(s) ==
  /\ s \in stack
  /\ stack' = stack \ {s} /\ free' = free \cup {s}
  /\ UNCHANGED <<rx_copybreak, napi_skb, pc, cur, clen>>

Init ==
  /\ rx_copybreak \in CopyBreaks
  /\ napi_skb = NoSkb /\ free = Skbs /\ stack = {}
  /\ pc = "idle" /\ cur = NoSkb /\ clen = CHOOSE l \in Lens : TRUE

Next ==
  \/ \E v \in CopyBreaks : SetCopybreak(v)
  \/ \E len \in Lens : RxCopybreak(len) \/ RxFrags(len)
  \/ RxDeliver
  \/ \E s \in Skbs : StackFree(s)

Spec == Init /\ [][Next]_vars

-----------------------------------------------------------------------------

\* Where an skb can be: unallocated, owned by the stack, kept in napi->skb,
\* or held by ionic_rx_clean between its two reads of rx_copybreak.
Holders(s) ==
  {h \in {"free", "stack", "napi", "cur"} :
     \/ h = "free" /\ s \in free
     \/ h = "stack" /\ s \in stack
     \/ h = "napi" /\ s = napi_skb
     \/ h = "cur" /\ s = cur /\ s # napi_skb}

\* Every skb has exactly one owner across ethtool changes of rx_copybreak,
\* GRO reuse and a drained skb pool, and ionic_rx_clean delivers every skb
\* it built: it never gives the stack an skb NAPI still keeps in napi->skb
\* (napi_gro_receive of the frags skb, which the next napi_get_frags hands
\* out again), and never passes a copied skb over for napi_gro_frags on a
\* NULL napi->skb.
RxSkbOwnedOnce == /\ \A s \in Skbs : Cardinality(Holders(s)) = 1
                  /\ pc # "oops"

=============================================================================
