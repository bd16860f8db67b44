------------------------------ MODULE IonicTxq ------------------------------
(***************************************************************************)
(* One ionic transmit queue pair (src/drivers/linux/eth/ionic/ionic_txrx.c)*)
(* and the three contexts that touch it:                                   *)
(*   - the stack's transmit context running ionic_start_xmit under the     *)
(*     netdev TX lock (admission, ionic_maybe_stop_tx, DMA mapping,        *)
(*     ionic_tx / ionic_tx_tso posting);                                   *)
(*   - the device, which consumes descriptors up to the last doorbell and  *)
(*     writes completion entries tagged with a generation colour;          *)
(*   - the NAPI context running ionic_tx_napi: ionic_cq_service with       *)
(*     ionic_tx_service / ionic_tx_clean, then ionic_txq_poke_doorbell and *)
(*     the napi_deadline timer.                                            *)
(* Packets are model values that are reused once freed, so the stream of  *)
(* packets is unbounded.  A packet's buffers are <<p, 0>> (the linear head *)
(* mapped with dma_map_single) and <<p, j>>, j >= 1 (fragment j-1).        *)
(***************************************************************************)
EXTENDS Naturals, FiniteSets, Sequences

CONSTANTS
  NumDescs,      \* q->num_descs (power of two); the TX CQ has as many entries
  Pkts,          \* skb identities (model values)
  MaxSegs,       \* largest gso_segs the stack hands over
  MaxFrags,      \* largest nr_frags the stack hands over
  MaxSgElems,    \* q->max_sg_elems
  TxBudget,      \* NAPI budget passed to ionic_cq_service
  StopThresh,    \* the literal 4 of ionic_maybe_stop_tx(q, 4)
  XmitMore,      \* build has HAVE_SKB_XMIT_MORE (doorbell deferred on xmit_more)
  AllocFaults,   \* skb_linearize / skb_cow_head may fail
  HeadMapFaults, \* dma_map_single of the head may fail
  FragMapFaults, \* skb_frag_dma_map may fail
  Teardown,      \* the LIF may be stopped, the queue torn down and reopened
  HwstampModes,  \* kinds of queue checked: TRUE is lif->hwstamp_txq
  TsoOneSeg,     \* the stack may hand over a GSO skb with gso_segs = 1
  NoPkt          \* model value: no skb (NULL cb_arg / nothing in hand)

ASSUME NumDescs \in {2, 4, 8, 16} /\ NoPkt \notin Pkts
ASSUME TxBudget \in Nat \ {0} /\ MaxSegs \in Nat \ {0}

VARIABLES
  head_idx, tail_idx, \* q->head_idx, q->tail_idx
  info,               \* q->info[i]: cb_arg skb, mapped bufs[0..nbufs-1], EOT/last
  stopped,            \* __netif_subqueue_stopped for this queue
  dbell,              \* index last written to the doorbell (q->dbval | head_idx)
  hw_tail,            \* next descriptor the device will complete
  cqe,                \* completion ring: colour and comp_index per entry
  hw_cq_head, hw_color, \* device's CQ write position and generation colour
  cq_tail_idx, done_color, \* cq->tail_idx, cq->done_color
  svc,                \* comp_index of the entry ionic_tx_service is walking to
  mapped,             \* DMA mappings currently held
  dma_err,            \* an unmap of an address that was not mapped happened
  live,               \* skbs handed to the driver and not yet freed
  free_err,           \* an skb was freed twice
  xpc, cur, batch,    \* xmit context: program point, skb in hand, promised next skb
  npc, work,          \* NAPI context: idle/poll, work_done of this poll
  timer,              \* napi_deadline timer armed
  lif,                \* "up"; "stopping" (IONIC_LIF_F_UP cleared); "flush",
                      \* "empty" (queue disabled, being drained); "down"
  hwstamp             \* q->features & IONIC_TXQ_F_HWSTAMP, fixed at creation

vars == <<head_idx, tail_idx, info, stopped, dbell, hw_tail, cqe, hw_cq_head,
          hw_color, cq_tail_idx, svc, done_color, mapped, dma_err, live, free_err,
          xpc, cur, batch, npc, work, timer, lif, hwstamp>>

Idx == 0 .. NumDescs - 1
Incr(i) == (i + 1) % NumDescs
Dist(a, b) == (b + NumDescs - a) % NumDescs
\* i lies in the half-open ring window [a, b)
InWindow(i, a, b) == Dist(a, i) < Dist(a, b)

Buf == Pkts \X (0 .. MaxFrags)
Bufs(pk) == {<<pk.p, j>> : j \in 0 .. pk.nfrags}
EmptySlot == [skb |-> NoPkt, bufs |-> {}, eop |-> FALSE]
Packet == [p : Pkts, gso : BOOLEAN, segs : 1 .. MaxSegs,
           nfrags : 0 .. MaxFrags, more : BOOLEAN]

\* ionic_q_space_avail: one slot is always kept free
SpaceAvail == NumDescs - 1 - Dist(tail_idx, head_idx)
HasSpace(n) == n <= SpaceAvail

\* ionic_tx_descs_needed: one descriptor per gso segment, else one
DescsNeeded(pk) == IF pk.gso THEN pk.segs ELSE 1

\* the demand ionic_maybe_stop_tx is checking in the current call
Need == IF xpc \in {"check", "stop", "recheck"} THEN DescsNeeded(cur) ELSE StopThresh

\* dev_kfree_skb / dev_consume_skb_any of a set of skbs
FreeSkbs(S) == /\ live' = live \ S
               /\ free_err' = (free_err \/ ~(S \subseteq live))

\* the LIF states in which the device and NAPI still run
Running == {"up", "stopping"}

-----------------------------------------------------------------------------
(* Transmit context: ionic_start_xmit                                       *)

\* skbs the qdisc may hand over next: the requeued one, the promised next one
\* of an xmit_more batch, or any skb not owned by the driver.
Offer == IF cur # NoPkt THEN {cur}
         ELSE {pk \in Packet : /\ IF batch # NoPkt THEN pk.p = batch
                                                   ELSE pk.p \notin live
                               /\ pk.gso \/ pk.segs = 1
                               /\ pk.gso /\ pk.segs = 1 => TsoOneSeg
                               /\ pk.more => XmitMore}

\* mutant: ionic_start_xmit without the IONIC_LIF_F_UP test
StartXmitNoUp(pk) ==
  /\ xpc = "idle" /\ ~stopped
  /\ \E nxt \in (IF pk.more THEN Pkts \ (live \cup {pk.p}) ELSE {NoPkt}) :
       batch' = IF pk = cur THEN batch ELSE nxt
  /\ cur' = IF pk.nfrags <= MaxSgElems THEN pk ELSE [pk EXCEPT !.nfrags = 0]
  /\ xpc' = "check" /\ live' = live \cup {pk.p}
  /\ UNCHANGED <<head_idx, tail_idx, info, stopped, dbell, hw_tail, cqe,
                 hw_cq_head, hw_color, cq_tail_idx, svc, done_color, mapped,
                 dma_err, free_err, npc, work, timer, lif, hwstamp>>

\* ionic_start_xmit entry and ionic_tx_descs_needed (linearize when too many
\* frags).  xmit_more is a promise that another skb follows.
StartXmit(pk) ==
  /\ xpc = "idle" /\ ~stopped
  /\ \E nxt \in (IF pk.more THEN Pkts \ (live \cup {pk.p}) ELSE {NoPkt}) :
       batch' = IF pk = cur THEN batch ELSE nxt
  /\ \/ /\ lif # "up"                      \* IONIC_LIF_F_UP clear: drop
        /\ cur' = NoPkt /\ xpc' = "idle"
        /\ live' = live \ {pk.p} /\ UNCHANGED free_err
     \/ /\ lif = "up" /\ pk.nfrags <= MaxSgElems
        /\ cur' = pk /\ xpc' = "check" /\ live' = live \cup {pk.p}
        /\ UNCHANGED free_err
     \/ /\ lif = "up" /\ pk.nfrags > MaxSgElems  \* skb_linearize succeeds
        /\ cur' = [pk EXCEPT !.nfrags = 0] /\ xpc' = "check"
        /\ live' = live \cup {pk.p}
        /\ UNCHANGED free_err
     \/ /\ lif = "up" /\ pk.nfrags > MaxSgElems /\ AllocFaults  \* linearize fails
        /\ cur' = NoPkt /\ xpc' = "idle"
        /\ live' = live \ {pk.p} /\ UNCHANGED free_err
  /\ UNCHANGED <<head_idx, tail_idx, info, stopped, dbell, hw_tail, cqe,
                 hw_cq_head, hw_color, cq_tail_idx, svc, done_color, mapped,
                 dma_err, npc, work, timer, lif, hwstamp>>

StackSend == batch = NoPkt /\ \E pk \in Offer : pk.p \notin live /\ StartXmit(pk)
\* the qdisc re-runs a requeued skb, or the rest of an xmit_more batch
StackResend == \E pk \in Offer : (pk = cur \/ pk.p = batch) /\ StartXmit(pk)

XmitUnchanged == UNCHANGED <<head_idx, tail_idx, info, dbell, hw_tail, cqe,
                             hw_cq_head, hw_color, cq_tail_idx, svc, done_color,
                             mapped, dma_err, live, free_err, batch, npc,
                             work, timer, lif, hwstamp>>

\* ionic_maybe_stop_tx: first ionic_q_has_space (only ionic_start_xmit's
\* path to a regular queue calls it)
MaybeStopCheck ==
  /\ xpc \in {"check", "check2"} /\ ~hwstamp
  /\ IF HasSpace(Need)
       THEN xpc' = IF xpc = "check" THEN "map" ELSE "idle"
       ELSE xpc' = IF xpc = "check" THEN "stop" ELSE "stop2"
  /\ UNCHANGED <<stopped, cur>> /\ XmitUnchanged

\* ionic_maybe_stop_tx: netif_stop_subqueue
MaybeStopStop ==
  /\ xpc \in {"stop", "stop2"}
  /\ stopped' = TRUE
  /\ xpc' = IF xpc = "stop" THEN "recheck" ELSE "recheck2"
  /\ UNCHANGED cur /\ XmitUnchanged

\* mutant: ionic_maybe_stop_tx without the re-check after stopping
MaybeStopRecheckNone ==
  /\ xpc \in {"recheck", "recheck2"}
  /\ xpc' = "idle" /\ UNCHANGED <<stopped, cur>> /\ XmitUnchanged

\* ionic_maybe_stop_tx: smp_rmb, second ionic_q_has_space, wake if space.
\* On no space the first call returns NETDEV_TX_BUSY and the skb stays
\* with the qdisc (cur is kept as the requeued skb).
MaybeStopRecheck ==
  /\ xpc \in {"recheck", "recheck2"}
  /\ \/ /\ HasSpace(Need)
        /\ stopped' = FALSE
        /\ xpc' = IF xpc = "recheck" THEN "map" ELSE "idle"
     \/ /\ ~HasSpace(Need)
        /\ xpc' = "idle" /\ UNCHANGED stopped
  /\ UNCHANGED cur /\ XmitUnchanged

\* ionic_tx_map_skb maps the head (HeadOk) and the first k fragments
MapSet(pk, headOk, k) == (IF headOk THEN {<<pk.p, 0>>} ELSE {})
                         \cup {<<pk.p, j>> : j \in 1 .. k}

\* ionic_tx_map_single returns 0 on failure and the caller tests it with
\* dma_mapping_error(dev, 0), which is false: the failure goes unnoticed.
HeadOutcomes == IF HeadMapFaults THEN BOOLEAN ELSE {TRUE}

\* mutant: ionic_tx_tso passing the skb as cb_arg on every descriptor
PostSlotsSkbAll(pk) == [i \in Idx |->
  IF InWindow(i, head_idx, (head_idx + DescsNeeded(pk)) % NumDescs)
    THEN [skb  |-> pk.p,
          bufs |-> IF i = head_idx THEN Bufs(pk) ELSE {},
          eop  |-> i = (head_idx + DescsNeeded(pk) - 1) % NumDescs]
    ELSE info[i]]

\* descriptors posted for pk at head_idx: ionic_tx posts one, ionic_tx_tso
\* one per segment with the skb and buffers on the first (SOT) and EOT on
\* the last
PostSlots(pk) == [i \in Idx |->
  IF InWindow(i, head_idx, (head_idx + DescsNeeded(pk)) % NumDescs)
    THEN [skb  |-> IF i = head_idx THEN pk.p ELSE NoPkt,
          bufs |-> IF i = head_idx THEN Bufs(pk) ELSE {},
          eop  |-> i = (head_idx + DescsNeeded(pk) - 1) % NumDescs]
    ELSE info[i]]

\* whether posting pk rings the doorbell: ionic_tx posts with
\* !netdev_xmit_more(); ionic_tx_tso_post posts the SOT descriptor with
\* ring_dbell false and each later one with done, so TSO rings on the EOT
\* descriptor -- unless the EOT is the SOT, when nothing rings.
TxRings(pk) == IF pk.gso THEN DescsNeeded(pk) > 1 ELSE ~pk.more

\* ionic_tx / ionic_tx_tso with every mapping call returning: post, ring the
\* doorbell as TxRings says, then ionic_maybe_stop_tx(q, 4)
TxPost ==
  /\ xpc = "map"
  /\ \E headOk \in HeadOutcomes :
       mapped' = mapped \cup MapSet(cur, headOk, cur.nfrags)
  /\ info' = PostSlots(cur)
  /\ head_idx' = (head_idx + DescsNeeded(cur)) % NumDescs
  /\ dbell' = IF TxRings(cur) THEN head_idx' ELSE dbell
  /\ xpc' = (IF hwstamp THEN "idle" ELSE "check2") /\ cur' = NoPkt
  /\ UNCHANGED <<tail_idx, stopped, hw_tail, cqe, hw_cq_head, hw_color,
                 cq_tail_idx, svc, done_color, dma_err, live, free_err, batch,
                 npc, work, timer, lif, hwstamp>>

\* mutant: err_out_drop without dev_kfree_skb
DropCurNoFree == /\ xpc' = "idle" /\ cur' = NoPkt
                 /\ UNCHANGED <<live, free_err>>
                 /\ UNCHANGED <<head_idx, tail_idx, info, stopped, dbell,
                                hw_tail, cqe, hw_cq_head, hw_color,
                                cq_tail_idx, svc, done_color, batch, npc, work, timer,
                                lif, hwstamp>>

\* err_out_drop after a failed ionic_tx / ionic_tx_tso
DropCur == /\ xpc' = "idle" /\ cur' = NoPkt
           /\ FreeSkbs({cur.p})
           /\ UNCHANGED <<head_idx, tail_idx, info, stopped, dbell, hw_tail,
                          cqe, hw_cq_head, hw_color, cq_tail_idx, svc, done_color,
                          batch, npc, work, timer, lif, hwstamp>>

\* mutant: the hwstamp path handling a full ring as ionic_maybe_stop_tx does,
\* stopping the subqueue and returning NETDEV_TX_BUSY
HwstampSpaceCheckBusy ==
  /\ xpc = "check" /\ hwstamp
  /\ \/ /\ HasSpace(DescsNeeded(cur)) /\ xpc' = "map" /\ UNCHANGED stopped
     \/ /\ ~HasSpace(DescsNeeded(cur)) /\ xpc' = "idle" /\ stopped' = TRUE
  /\ UNCHANGED cur /\ XmitUnchanged

\* ionic_start_hwstamp_xmit: no stop and no NETDEV_TX_BUSY; an skb that
\* does not fit (ionic_q_has_space) is dropped with dev_kfree_skb
HwstampSpaceCheck ==
  /\ xpc = "check" /\ hwstamp
  /\ \/ /\ HasSpace(DescsNeeded(cur)) /\ xpc' = "map"
        /\ UNCHANGED <<stopped, cur>> /\ XmitUnchanged
     \/ /\ ~HasSpace(DescsNeeded(cur))
        /\ DropCur /\ UNCHANGED <<mapped, dma_err>>

\* ionic_tx_map_skb, fragment k fails: the dma_fail unwind walks buf_info
\* back over the k mapped fragments, then dma_unmap_single(buf_info) --
\* which is bufs[1], not the head bufs[0]
TxMapFragFail ==
  /\ xpc = "map" /\ FragMapFaults
  /\ \E headOk \in HeadOutcomes, k \in 0 .. cur.nfrags - 1 :
       LET held  == mapped \cup MapSet(cur, headOk, k)
           after == held \ {<<cur.p, j>> : j \in 1 .. k}
       IN  /\ mapped' = after \ {<<cur.p, 1>>}
           /\ dma_err' = (dma_err \/ <<cur.p, 1>> \notin after)
  /\ DropCur

\* mutant: the skb_cow_head failure path returns without unmapping
TsoCsumFailNoUnmap ==
  /\ xpc = "map" /\ cur.gso /\ AllocFaults
  /\ \E headOk \in HeadOutcomes :
       /\ mapped' = mapped \cup MapSet(cur, headOk, cur.nfrags)
       /\ UNCHANGED dma_err
  /\ DropCur

\* ionic_tx_tso: the pseudo checksum's skb_cow_head fails after mapping;
\* ionic_tx_desc_unmap_bufs undoes every mapping
TsoCsumFail ==
  /\ xpc = "map" /\ cur.gso /\ AllocFaults
  /\ \E headOk \in HeadOutcomes :
       /\ mapped' = (mapped \cup MapSet(cur, headOk, cur.nfrags)) \ Bufs(cur)
       /\ dma_err' = (dma_err \/ ~headOk)
  /\ DropCur

-----------------------------------------------------------------------------
(* Device: consumes descriptors announced by the doorbell and completes up *)
(* to the end of some packet with one completion entry.                    *)

HwComplete ==
  /\ lif \in Running /\ hw_tail # dbell
  /\ \E e \in Idx :
       /\ InWindow(e, hw_tail, dbell) /\ info[e].eop
       /\ cqe' = [cqe EXCEPT ![hw_cq_head] = [color |-> hw_color, index |-> e]]
       /\ hw_tail' = Incr(e)
  /\ hw_cq_head' = Incr(hw_cq_head)
  /\ hw_color' = IF hw_cq_head = NumDescs - 1 THEN ~hw_color ELSE hw_color
  /\ UNCHANGED <<head_idx, tail_idx, info, stopped, dbell, cq_tail_idx, svc,
                 done_color, mapped, dma_err, live, free_err, xpc, cur, batch,
                 npc, work, timer, lif, hwstamp>>

-----------------------------------------------------------------------------
(* NAPI context: ionic_tx_napi                                             *)

\* color_match on the entry at cq->tail_idx
CqReady == cqe[cq_tail_idx].color = done_color

\* ionic_tx_desc_unmap_bufs of every slot in S
UnmapBufs(S) ==
  LET u == UNION {info[i].bufs : i \in S}
  IN  /\ mapped' = mapped \ u
      /\ dma_err' = (dma_err \/ ~(u \subseteq mapped))

\* mutant: ionic_tx_clean without the netif_wake_subqueue of a stopped queue
TxCleanNoWake(S) ==
  LET skbs == {info[i].skb : i \in S} \ {NoPkt}
  IN  /\ UnmapBufs(S) /\ FreeSkbs(skbs) /\ UNCHANGED stopped

\* ionic_tx_clean of every slot in S: unmap its buffers; a slot holding an
\* skb wakes the subqueue if it is stopped -- except on the hwstamp queue,
\* which reads the timestamp instead -- then frees the skb
TxClean(S) ==
  LET skbs == {info[i].skb : i \in S} \ {NoPkt}
  IN  /\ UnmapBufs(S)
      /\ FreeSkbs(skbs)
      /\ stopped' = (stopped /\ (hwstamp \/ skbs = {}))

\* no completion entry is being walked
NoComp == NumDescs

\* mutant: ionic_cq_service without the done_color flip at the CQ wrap
CqAdvanceNoFlip ==
  /\ svc' = NoComp
  /\ cqe' = [cqe EXCEPT ![cq_tail_idx].index = 0]
  /\ cq_tail_idx' = Incr(cq_tail_idx) /\ UNCHANGED done_color
  /\ work' = work + 1

\* ionic_cq_service after ionic_tx_service returned true: the CQ tail
\* advances, flipping done_color at the wrap, and work_done counts the
\* entry.  A consumed entry keeps its colour; its comp_index is never read
\* again by the driver and is abstracted to 0.
CqAdvance ==
  /\ svc' = NoComp
  /\ cqe' = [cqe EXCEPT ![cq_tail_idx].index = 0]
  /\ cq_tail_idx' = Incr(cq_tail_idx)
  /\ done_color' = IF cq_tail_idx = NumDescs - 1 THEN ~done_color ELSE done_color
  /\ work' = work + 1

\* ionic_tx_service entry: color_match on the entry at cq->tail_idx, which
\* names the last slot (comp_index) the do/while below will clean
CqServiceBegin ==
  /\ svc = NoComp /\ CqReady
  /\ svc' = cqe[cq_tail_idx].index
  /\ UNCHANGED <<head_idx, tail_idx, info, stopped, dbell, hw_tail, cqe,
                 hw_cq_head, hw_color, cq_tail_idx, done_color, mapped,
                 dma_err, live, free_err, xpc, cur, batch, npc, work, timer,
                 lif, hwstamp>>

\* One iteration of the do/while of ionic_tx_service: q->tail_idx advances
\* past the slot, then ionic_tx_clean runs on it (its wake test only on a
\* slot holding an skb).  The transmit path may run between iterations.
\* The iteration that cleans comp_index ends the entry.
TxServiceSlot ==
  /\ svc # NoComp
  /\ tail_idx' = Incr(tail_idx)
  /\ TxClean({tail_idx})
  /\ info' = [info EXCEPT ![tail_idx] = EmptySlot]
  /\ \/ /\ tail_idx # svc
        /\ UNCHANGED <<svc, cqe, cq_tail_idx, done_color, work>>
     \/ /\ tail_idx = svc /\ CqAdvance
  /\ UNCHANGED <<head_idx, dbell, hw_tail, hw_cq_head, hw_color, xpc, cur,
                 batch, npc, timer, lif, hwstamp>>

\* mutant: ionic_cq_service without the work_done >= budget break
TxServiceNoBudget == npc = "poll" /\ CqServiceBegin

\* ionic_tx_napi: ionic_cq_service(cq, budget, ionic_tx_service), which
\* stops at the budget.  The poll's later steps (complete, poke) need the
\* entry walked to its end: CqReady holds until CqAdvance moves the tail.
TxService == npc = "poll" /\ work < TxBudget /\ CqServiceBegin

NapiUnchanged == UNCHANGED <<head_idx, tail_idx, info, stopped, hw_tail, cqe,
                             hw_cq_head, hw_color, cq_tail_idx, svc, done_color,
                             mapped, dma_err, live, free_err, xpc, cur, batch, lif, hwstamp>>

\* the interrupt (unmasked by napi_complete_done) schedules the poll
NapiSchedule ==
  /\ lif \in Running /\ npc = "idle" /\ CqReady
  /\ npc' = "poll" /\ work' = 0
  /\ UNCHANGED <<dbell, timer>> /\ NapiUnchanged

\* poll returns the full budget: NAPI polls again
NapiRepoll ==
  /\ npc = "poll" /\ work = TxBudget
  /\ work' = 0
  /\ UNCHANGED <<npc, dbell, timer>> /\ NapiUnchanged

\* ionic_cq_service found no more work; work_done > 0: napi_complete_done
NapiCompleteDone ==
  /\ npc = "poll" /\ 0 < work /\ work < TxBudget /\ ~CqReady
  /\ npc' = "idle"
  /\ UNCHANGED <<work, dbell, timer>> /\ NapiUnchanged

\* work_done == 0: ionic_txq_poke_doorbell under HARD_TX_LOCK (so never in
\* the middle of ionic_start_xmit).  With descriptors outstanding it rings
\* head_idx once the doorbell deadline has passed and the poll re-arms the
\* napi_deadline timer.
TxPokeIdle ==
  /\ npc = "poll" /\ work = 0 /\ ~CqReady /\ xpc = "idle"
  /\ tail_idx = head_idx
  /\ npc' = "idle"
  /\ UNCHANGED <<work, dbell, timer>> /\ NapiUnchanged

TxPokeWait ==
  /\ npc = "poll" /\ work = 0 /\ ~CqReady /\ xpc = "idle"
  /\ tail_idx # head_idx
  /\ npc' = "idle" /\ timer' = TRUE
  /\ UNCHANGED <<work, dbell>> /\ NapiUnchanged

TxPokeRing ==
  /\ npc = "poll" /\ work = 0 /\ ~CqReady /\ xpc = "idle"
  /\ tail_idx # head_idx
  /\ dbell' = head_idx
  /\ npc' = "idle" /\ timer' = TRUE
  /\ UNCHANGED work /\ NapiUnchanged

\* napi_deadline expires: napi_schedule.  Fired during a poll it marks the
\* NAPI missed and the poll is repeated, so it is taken once NAPI is idle.
NapiDeadline ==
  /\ lif \in Running /\ timer /\ npc = "idle"
  /\ timer' = FALSE /\ npc' = "poll" /\ work' = 0
  /\ UNCHANGED dbell /\ NapiUnchanged

-----------------------------------------------------------------------------
(* Queue teardown and reopen.  The stop sequence runs in ionic_lif.c,     *)
(* outside this driver file: clear IONIC_LIF_F_UP; netif_tx_disable       *)
(* (stops the subqueue, waiting for the TX lock); napi_disable (waits for *)
(* the poll) and ionic_qcq_disable (the device stops completing, the      *)
(* deadline timer is cancelled); ionic_tx_flush; ionic_tx_empty.  Reopen  *)
(* reinitialises both rings with the indices at zero and wakes the queue. *)

LifStop ==
  /\ Teardown /\ lif = "up"
  /\ lif' = "stopping"
  /\ UNCHANGED <<head_idx, tail_idx, info, stopped, dbell, hw_tail, cqe,
                 hw_cq_head, hw_color, cq_tail_idx, svc, done_color, mapped, dma_err,
                 live, free_err, xpc, cur, batch, npc, work, timer, hwstamp>>

TxQueueDisable ==
  /\ lif = "stopping" /\ xpc = "idle" /\ npc = "idle"
  /\ stopped' = TRUE /\ timer' = FALSE /\ work' = 0 /\ lif' = "flush"
  /\ UNCHANGED <<head_idx, tail_idx, info, dbell, hw_tail, cqe, hw_cq_head,
                 hw_color, cq_tail_idx, svc, done_color, mapped, dma_err, live,
                 free_err, xpc, cur, batch, npc, hwstamp>>

TxFlushUnchanged == UNCHANGED <<head_idx, dbell, hw_tail, hw_cq_head, hw_color,
                                xpc, cur, batch, npc, timer, hwstamp>>

\* ionic_tx_flush: ionic_cq_service(cq, cq->num_descs, ionic_tx_service)
TxFlushService == lif = "flush" /\ work < NumDescs /\ CqServiceBegin

\* ionic_cq_service returns (the interrupt credits are not modelled)
TxFlushDone ==
  /\ lif = "flush" /\ (work = NumDescs \/ ~CqReady)
  /\ lif' = "empty" /\ work' = 0
  /\ UNCHANGED <<tail_idx, info, stopped, cqe, cq_tail_idx, svc, done_color,
                 mapped, dma_err, live, free_err>>
  /\ TxFlushUnchanged

\* ionic_tx_empty: ionic_tx_clean(q, desc_info, NULL, cb_arg) on every slot
\* from tail_idx to head_idx, which also wakes a stopped subqueue
TxEmpty ==
  /\ lif = "empty"
  /\ LET S == {i \in Idx : InWindow(i, tail_idx, head_idx)}
     IN  /\ TxClean(S)
         /\ info' = [i \in Idx |-> IF i \in S THEN EmptySlot ELSE info[i]]
  /\ tail_idx' = head_idx /\ lif' = "down"
  /\ UNCHANGED <<cqe, cq_tail_idx, svc, done_color, work>> /\ TxFlushUnchanged

TxReopen ==
  /\ lif = "down"
  /\ head_idx' = 0 /\ tail_idx' = 0 /\ dbell' = 0 /\ hw_tail' = 0
  /\ cqe' = [i \in Idx |-> [color |-> FALSE, index |-> 0]]
  /\ hw_cq_head' = 0 /\ hw_color' = TRUE
  /\ cq_tail_idx' = 0 /\ done_color' = TRUE
  /\ stopped' = FALSE /\ lif' = "up"
  /\ UNCHANGED <<svc, info, mapped, dma_err, live, free_err, xpc, cur, batch, npc,
                 work, timer, hwstamp>>

-----------------------------------------------------------------------------

Init ==
  /\ head_idx = 0 /\ tail_idx = 0
  /\ info = [i \in Idx |-> EmptySlot]
  /\ stopped = FALSE
  /\ dbell = 0 /\ hw_tail = 0
  /\ cqe = [i \in Idx |-> [color |-> FALSE, index |-> 0]]
  /\ hw_cq_head = 0 /\ hw_color = TRUE
  /\ cq_tail_idx = 0 /\ done_color = TRUE /\ svc = NoComp
  /\ mapped = {} /\ dma_err = FALSE
  /\ live = {} /\ free_err = FALSE
  /\ xpc = "idle" /\ cur = NoPkt /\ batch = NoPkt
  /\ npc = "idle" /\ work = 0
  /\ timer = FALSE
  /\ lif = "up"
  /\ hwstamp \in HwstampModes

XmitStep == MaybeStopCheck \/ MaybeStopStop \/ MaybeStopRecheck \/ HwstampSpaceCheck
            \/ TxPost \/ TxMapFragFail \/ TsoCsumFail

NapiStep == TxService \/ TxServiceSlot \/ NapiRepoll \/ NapiCompleteDone \/ TxPokeIdle
            \/ TxPokeWait \/ TxPokeRing

Next == StackSend \/ StackResend \/ XmitStep \/ HwComplete
        \/ NapiSchedule \/ NapiStep \/ NapiDeadline
        \/ LifStop \/ TxQueueDisable \/ TxFlushService \/ TxFlushDone
        \/ TxEmpty \/ TxReopen

\* The xmit context runs ionic_start_xmit to its end; the qdisc re-runs a
\* requeued skb or the rest of a batch once the queue is awake; the device
\* completes announced descriptors; interrupts and timers are delivered;
\* the doorbell deadline eventually passes while the timer keeps polling.
Fairness ==
  /\ WF_vars(StackResend) /\ WF_vars(XmitStep) /\ WF_vars(HwComplete)
  /\ WF_vars(NapiSchedule) /\ WF_vars(NapiStep) /\ WF_vars(NapiDeadline)
  /\ SF_vars(TxPokeRing)

Spec == Init /\ [][Next]_vars /\ Fairness

-----------------------------------------------------------------------------

TypeOK ==
  /\ head_idx \in Idx /\ tail_idx \in Idx /\ dbell \in Idx /\ hw_tail \in Idx
  /\ info \in [Idx -> [skb : Pkts \cup {NoPkt}, bufs : SUBSET Buf, eop : BOOLEAN]]
  /\ cqe \in [Idx -> [color : BOOLEAN, index : Idx]]
  /\ hw_cq_head \in Idx /\ cq_tail_idx \in Idx /\ svc \in Idx \cup {NoComp}
  /\ {stopped, hw_color, done_color, dma_err, free_err, timer} \subseteq BOOLEAN
  /\ mapped \subseteq Buf /\ live \subseteq Pkts
  /\ xpc \in {"idle", "check", "stop", "recheck", "map", "check2", "stop2", "recheck2"}
  /\ cur \in Packet \cup {NoPkt} /\ batch \in Pkts \cup {NoPkt}
  /\ npc \in {"idle", "poll"} /\ hwstamp \in BOOLEAN
  /\ work \in 0 .. (IF lif = "flush" THEN NumDescs ELSE TxBudget)
  /\ lif \in {"up", "stopping", "flush", "empty", "down"}

-----------------------------------------------------------------------------
(* Properties                                                              *)

Posted(i) == InWindow(i, tail_idx, head_idx)
RingSkbs == {info[i].skb : i \in Idx} \ {NoPkt}
InHand == IF cur = NoPkt THEN {} ELSE {cur.p}

\* Every skb the stack handed to ionic_start_xmit is owned by exactly one
\* party until it is freed once: the xmit context (or the qdisc, after
\* NETDEV_TX_BUSY), or the single ring slot holding it as cb_arg; slots
\* outside [tail_idx, head_idx) hold nothing.  Breaks if ionic_tx_service
\* cleans a slot twice or a TSO post puts the skb on more than one slot.
SkbOwnership ==
  /\ ~free_err
  /\ live = RingSkbs \cup InHand /\ RingSkbs \cap InHand = {}
  /\ \A i, j \in Idx : i # j /\ info[i].skb # NoPkt => info[i].skb # info[j].skb
  /\ \A i \in Idx : ~Posted(i) => info[i] = EmptySlot

\* The DMA mappings held are exactly the buffers recorded on posted
\* descriptors, and nothing is unmapped twice: no mapping leaks from a
\* failed ionic_tx_map_skb, and the device is never given an unmapped
\* buffer.
DmaMappingSafe ==
  /\ ~dma_err
  /\ mapped = UNION {info[i].bufs : i \in Idx}

\* Cursor order around the ring, starting at tail_idx: the driver never
\* cleans past what the device completed (hw_tail), the device never
\* completes past the doorbell, and the doorbell never passes head_idx.
\* Breaks if the completion colour protocol lets ionic_tx_service act on
\* a stale completion entry.
CompletionOrder ==
  lif # "down" =>
  /\ Dist(tail_idx, hw_tail) <= Dist(tail_idx, dbell)
  /\ Dist(tail_idx, dbell) <= Dist(tail_idx, head_idx)

\* Once ionic_start_xmit has returned, a stopped subqueue always has
\* descriptors outstanding whose completion will run ionic_tx_clean and
\* wake it: the stop / smp_rmb / recheck in ionic_maybe_stop_tx is meant to
\* close the race with a concurrent ionic_tx_service.  That walk advances
\* q->tail_idx one slot at a time and tests the stopped bit only on a slot
\* holding an skb, so the slots a TSO skb occupies after its SOT free
\* space after the last wake test: a stop and recheck between them can
\* leave the queue stopped on an empty ring.
NoLostWakeup == (lif \in Running /\ xpc = "idle" /\ stopped) => tail_idx # head_idx

\* Transmit makes progress: every skb handed to the driver is eventually
\* freed (sent and cleaned, or dropped), including one that got
\* NETDEV_TX_BUSY, and a stopped subqueue is eventually woken -- by the
\* re-check in ionic_maybe_stop_tx or by ionic_tx_clean -- so the qdisc
\* can transmit again.  On the hardware-timestamp queue, whose
\* ionic_tx_clean wakes nothing, this rests on ionic_start_hwstamp_xmit
\* dropping an skb that does not fit rather than stopping.  It can hold
\* only where the space a TSO skb's trailing slots free never decides a
\* stop (see NoLostWakeup), as on a 4-entry ring with threshold 2 and
\* skbs of at most 2 segments.
EveryPacketReleased ==
  /\ \A p \in Pkts : p \in live ~> p \notin live
  /\ stopped ~> ~stopped

\* Once ionic_tx_empty has run, every skb and DMA mapping the queue held is
\* released and nothing is posted until the queue is reopened, although
\* ionic_tx_clean in ionic_tx_empty wakes the subqueue and the stack may
\* call ionic_start_xmit again: the IONIC_LIF_F_UP test there drops it.
TxTeardownReleases ==
  lif = "down" => /\ tail_idx = head_idx /\ mapped = {}
                  /\ live \subseteq InHand /\ xpc = "idle"

-----------------------------------------------------------------------------
(* Refinement: the ring implements the abstract TxQueue.  The abstract    *)
(* queue is the sequence of skbs on the posted slots [tail_idx, head_idx)  *)
(* in ring order (the SOT slot of each packet carries it); the skb in hand *)
(* is the one ionic_start_xmit is working on.                              *)

RingQueue ==
  LET n == Dist(tail_idx, head_idx)
      slots == [k \in 1 .. n |-> info[(tail_idx + k - 1) % NumDescs].skb]
  IN SelectSeq(slots, LAMBDA s : s # NoPkt)

Hand == IF cur = NoPkt THEN NoPkt ELSE cur.p

TxQ == INSTANCE TxQueue WITH queue <- RingQueue, hand <- Hand, None <- NoPkt

\* Every step of the xmit path, the device and NAPI is a step of TxQueue or
\* leaves it unchanged: ionic_tx_service releases exactly the oldest
\* posted skbs, in posting order, and ionic_start_xmit posts or drops the
\* skb it accepted.  Breaks if a TSO post puts the skb on more than one
\* descriptor, or a completion cleans slots out of order.
TxQueueRefined == TxQ!Spec

=============================================================================
