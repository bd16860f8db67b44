# TLA+ models of the ionic Ethernet data path

These modules model the transmit and receive data path of the AMD/Pensando
`ionic` Linux driver:

- `src/drivers/linux/eth/ionic/ionic_txrx.c`: TX and RX queue service,
  NAPI handlers and doorbell deadlines.
- `src/drivers/linux/eth/ionic/ionic_lif.h`: LIF structures (of which the
  data path reads `rx_copybreak` and the `IONIC_LIF_F_UP` state bit).

All definitions are translated from those two files. The descriptor-queue
primitives (`ionic_q_post`, `ionic_q_space_avail`, `ionic_cq_service`,
`ionic_q_init`, `ionic_napi_deadline`) are implemented in `ionic_dev.c` and
`ionic_lif.c`, which are not part of this repository. Those few definitions
are modelled from `spec.md` and marked `spec_modelled` in `PROJECT.json`.

## The system

A LIF (logical interface) owns several queue pairs. Each TX queue is a ring
of `num_descs` descriptors with a completion queue (CQ) of the same size.
Three contexts touch a TX queue:

1. **The stack's transmit context** runs `ionic_start_xmit` under the netdev
   TX lock. It does the following, in order:
   - computes the descriptors a packet needs (`ionic_tx_descs_needed`,
     which may call `skb_linearize`);
   - stops the subqueue if there is no space (`ionic_maybe_stop_tx`: test,
     then stop, then `smp_rmb`, then re-test and restart);
   - maps the head and fragments for DMA (`ionic_tx_map_skb`, which unwinds
     on failure);
   - posts one descriptor (`ionic_tx`) or one descriptor per TSO segment
     (`ionic_tx_tso`);
   - rings the doorbell, unless `netdev_xmit_more()` says the next packet
     follows;
   - calls `ionic_maybe_stop_tx(q, 4)` again to stop early.
2. **The device** consumes descriptors up to the doorbell. It writes
   completion entries whose colour bit flips on every wrap of the CQ.
3. **The NAPI context** (`ionic_tx_napi`) does the following, in order:
   - services the CQ within a budget (`ionic_cq_service` →
     `ionic_tx_service`);
   - cleans every descriptor up to each completion's `comp_index`
     (`ionic_tx_clean`: unmap the buffers, free the skb, wake a stopped
     subqueue);
   - completes NAPI or repolls;
   - re-rings an unanswered doorbell (`ionic_txq_poke_doorbell`);
   - re-arms the `napi_deadline` timer.

The RX queue mirrors this with page buffers:
- `ionic_rx_fill` posts pages, `ionic_rx_service` and `ionic_rx_clean`
  consume them, choosing between copybreak and frags;
- `ionic_rx_buf_recycle` reuses the rest of a page;
- `ionic_rxq_poke_doorbell` doubles its deadline.

`ionic_txrx_napi` services the RX and TX queues of one interrupt together.

## Modules

### `IonicTxq.tla`: one TX queue with its CQ, device and NAPI context

Its state corresponds to the driver as follows:

| variable | code |
|---|---|
| `head_idx`, `tail_idx` | `q->head_idx`, `q->tail_idx` |
| `info[i]` | `q->info[i]`: `cb_arg` skb, set of mapped `bufs`, whether it ends a packet |
| `stopped` | `__netif_subqueue_stopped` |
| `dbell` | last index written to the doorbell |
| `hw_tail`, `cqe`, `hw_cq_head`, `hw_color` | device progress and the completion ring |
| `cq_tail_idx`, `done_color` | `cq->tail_idx`, `cq->done_color` |
| `svc` | `comp_index` of the completion whose slots `ionic_tx_service` is cleaning; `NoComp` between completions |
| `mapped`, `dma_err` | DMA mappings held; an unmap of something not mapped |
| `live`, `free_err` | skbs owned by the driver; a double free |
| `xpc`, `cur`, `batch` | xmit program point, skb in hand, next skb promised by `xmit_more` |
| `npc`, `work`, `timer` | NAPI idle or polling, `work_done`, `napi_deadline` armed |
| `lif` | `"up"`; `"stopping"` once `IONIC_LIF_F_UP` is cleared; `"flush"`, `"empty"` while the queue is drained; `"down"` |
| `hwstamp` | `q->features & IONIC_TXQ_F_HWSTAMP`: the queue is `lif->hwstamp_txq`; chosen in `Init` from `HwstampModes` and never changed |

Packets are model values. A freed skb identity is reused, so the packet
stream is unbounded. A packet is a record:

- `gso` and `segs`: TSO and its segment count;
- `nfrags`: number of fragments;
- `more`: `xmit_more` is set.

Its buffers are `<<p, 0>>` for the head and `<<p, j>>` for fragment `j-1`.

The actions follow the handlers, and each action takes one atomic step of
the code:

| action | code |
|---|---|
| `StackSend`, `StackResend` → `StartXmit` | entry of `ionic_start_xmit`: `skb_linearize` success or failure, then the first `ionic_maybe_stop_tx`; a resend is the qdisc re-running a NETDEV_TX_BUSY skb or the rest of an `xmit_more` batch |
| `MaybeStopCheck`, `MaybeStopStop`, `MaybeStopRecheck` | the three steps of `ionic_maybe_stop_tx`, separate so the NAPI context can interleave between them; the same actions serve the final `ionic_maybe_stop_tx(q, 4)` |
| `HwstampSpaceCheck` | `ionic_start_hwstamp_xmit`: `ionic_q_has_space`, and on no room `dev_kfree_skb` with `NETDEV_TX_OK` (no stop, no `NETDEV_TX_BUSY`) |
| `TxPost` | `ionic_tx_map_skb` success, then `ionic_tx` or the whole `ionic_tx_tso` post loop and `ionic_txq_post` with the doorbell decision `TxRings`: `!netdev_xmit_more()` for `ionic_tx`; for TSO, the `done` of the last descriptor, except that the SOT descriptor always posts with `ring_dbell` false |
| `TxMapFragFail` | a fragment mapping failure and the `dma_fail` unwind, exactly as coded |
| `TsoCsumFail` | `skb_cow_head` failure in `ionic_tx_tso` after mapping, with its unmap and drop |
| `HwComplete` | the device completes through an end-of-packet descriptor below the doorbell and writes one CQE |
| `NapiSchedule`, `NapiDeadline` | interrupt and `napi_deadline` timer scheduling of `ionic_tx_napi` |
| `TxService` (`CqServiceBegin`) | one iteration of `ionic_cq_service` starts: the budget test, then `ionic_tx_service`'s colour check, which names the last slot `comp_index` (kept in `svc`) |
| `TxServiceSlot` | one iteration of the do/while of `ionic_tx_service`: `q->tail_idx` advances past the slot, then `ionic_tx_clean` runs on it; the iteration that reaches `comp_index` ends with `CqAdvance`, the CQ tail advance, colour flip and `work_done` count of `ionic_cq_service` |
| `NapiRepoll`, `NapiCompleteDone` | the budget test and `napi_complete_done` |
| `TxPokeIdle`, `TxPokeWait`, `TxPokeRing` | the three outcomes of `ionic_txq_poke_doorbell`, plus the timer re-arm that follows |
| `LifStop`, `TxQueueDisable` | the stop sequence in `ionic_lif.c` (not in this repository): clear `IONIC_LIF_F_UP`; then `netif_tx_disable`, `napi_disable` and `ionic_qcq_disable`, which wait for the xmit context and the poll to finish |
| `TxFlushService`, `TxFlushDone` | `ionic_tx_flush`: `ionic_cq_service` with `num_descs` as its budget |
| `TxEmpty` | `ionic_tx_empty`: `ionic_tx_clean` of every slot from `tail_idx` to `head_idx`, including its wake of a stopped subqueue |
| `TxReopen` | queue reinitialisation at open: both rings back to index 0, the subqueue woken |

`TxService` and `TxFlushService` start a completion with `CqServiceBegin`;
`TxServiceSlot` then cleans its slots one by one. The transmit path can run
between two slots, as it can in the code: `ionic_tx_service` holds no lock
that `ionic_start_xmit` takes. A TSO skb's trailing slots hold no skb, so
their clean frees space without testing the stopped bit. `StartXmit` drops the skb when `IONIC_LIF_F_UP` is
clear (`ionic_txrx.c:1479-1482`). The device and NAPI run only while the
LIF is up or stopping. Teardown is enabled by the constant `Teardown`,
which only `tx_safety` sets.

The constant `TsoOneSeg` lets the stack offer a GSO skb with
`gso_segs = 1`. Its one descriptor is both SOT and EOT, and
`ionic_tx_tso_post` posts it without a doorbell (`ionic_txrx.c:1112`). With
`TsoOneSeg = TRUE` the `tx_liveness` configuration violates
`EveryPacketReleased` in a few seconds: such an skb, sent last, is never
announced, never completed and never freed. spec.md (section 8) treats the
single-descriptor TSO as a normal case. Whether the stack produces such
skbs depends on GSO code outside this repository, so every kept run sets
`TsoOneSeg = FALSE`; the hazard is recorded in `PROJECT.json`.

On the hardware-timestamp queue (`hwstamp`), every skb comes through
`ionic_start_hwstamp_xmit`: `MaybeStopCheck` is never taken,
`HwstampSpaceCheck` takes its place, `TxPost` returns without the final
`ionic_maybe_stop_tx(q, 4)`, and `TxClean` reads the timestamp instead of
waking the subqueue (`ionic_txrx.c:912-940`). The subqueue is then stopped
only by `netif_tx_disable` at teardown.

`MC_IonicTxq.tla` supplies the packet model values.

### `IonicTso.tla`: the segment walk of `ionic_tx_tso`

In `IonicTxq` a TSO send is a single atomic step that fills `gso_segs`
slots. `IonicTso` expands that step into the loop that produces the
descriptors. It starts from every mapped skb the stack can hand over:
- 1 to `max_sg_elems + 1` non-empty buffers;
- a header length;
- an `mss`;
- more bytes than the header.

Its variables are the loop's locals, named as in the code: `tso_rem`,
`seg_rem`, `frag_rem`, `frag_addr` (as `foff`, an offset into buffer `bi`),
`desc`, the SG elements and `desc_nsge`.

| action | code |
|---|---|
| `TsoNextDesc` | head of `while (tso_rem > 0)` |
| `TsoChunk` | one pass of `while (seg_rem > 0)` |
| `TsoPost` | `seg_rem = min(tso_rem, mss)`, `done`, and `ionic_tx_tso_post` |
| `TsoFinish` | loop exit |

Addresses are abstracted to `<<buffer, offset>>`. A reference segmentation
is written independently of the loop. It is a recursive operator over byte
ranges: the first segment has `hdrlen + mss` bytes and each later one has
`mss` bytes. The invariants compare the posted descriptors with it.

### `IonicRxq.tla`: one RX queue with its device, NAPI context and the stack

`IonicRxq` models one receive ring, the pages behind it and the skb
fragments the stack holds on them. Lengths are in units of
`IONIC_PAGE_SPLIT_SZ`, so `ALIGN(used)` is `used` itself. The build
modelled is the `IONIC_PAGE_ORDER == 0` one: a recycled page takes a
`get_page`, and there is no `pagecnt_bias`. Pages are model values with a
reference count.

| variable | code |
|---|---|
| `head_idx`, `tail_idx` | `q->head_idx`, `q->tail_idx` |
| `bufs[i][j]` | `q->info[i].bufs[j]`: `page` (or `NoPage` for NULL) and `page_offset` |
| `dlen[i]` | lengths written to descriptor `i`: main descriptor, then SG elements |
| `dbell`, `hw_tail` | index last written to the doorbell; next descriptor the device fills |
| `clen[i]` | completion of slot `i`: 0 for a bad status, otherwise `comp->len` |
| `refcnt`, `mapped` | page reference counts; pages DMA-mapped |
| `held` | page fragments of skbs given to `napi_gro_frags` |
| `npc`, `work`, `timer` | NAPI program point (`"open"` for the fill at queue open), `work_done`, `napi_deadline` armed |
| `lif` | `"up"`; `"stopped"` once the queue is disabled; `"down"` after `ionic_rx_empty` |

| action | code |
|---|---|
| `RxFillDesc` | one pass of the `ionic_rx_fill` loop: pages for the empty buffers it visits, `min(remain, PAGE_SIZE - page_offset)` per buffer, `ionic_rxq_post` |
| `RxFillFail` | `ionic_rx_page_alloc` failing at buffer `k`: earlier buffers keep their pages, and the function returns with no doorbell and no `mod_timer` |
| `RxFillDone` | loop exit: doorbell, deadline reset, `mod_timer` |
| `HwRecv` | the device writes a frame of at most the posted length, or a bad status |
| `RxCleanInPlace` | `ionic_rx_service` plus `ionic_rx_clean` where the buffers stay: bad status, copybreak, or skb allocation failure |
| `RxCleanFrags` | `ionic_rx_service` plus `ionic_rx_frags`: `num_sg_elems + 1` fragments, each recycled (`page_offset` advanced, `get_page`) or unmapped and emptied |
| `StackRelease` | the stack frees one fragment (`put_page`) |
| `NapiSchedule`, `NapiDeadline` | interrupt and `napi_deadline` scheduling of `ionic_rx_napi` |
| `RxPollEnd` | `ionic_cq_service` returns; refill if `work_done` and `space >= rx_fill_threshold` |
| `RxNapiRepoll`, `RxNapiCompleteDone` | the budget test and `napi_complete_done` |
| `RxPokeIdle`, `RxPokeWait`, `RxPokeRing` | the outcomes of `ionic_rxq_poke_doorbell` when the poll did no work |
| `RxQueueDisable` | the stop sequence in `ionic_lif.c` (not in this repository): `napi_disable`, `del_timer_sync` of `napi_deadline`, `ionic_qcq_disable`; it waits for the poll to finish |
| `RxEmpty` | `ionic_rx_empty`: `ionic_rx_page_free` (unmap, `put_page`, clear) for every buffer of every slot of the ring, then `head_idx = tail_idx = 0` |
| `RxReopen` | queue reinitialisation at open; the following `ionic_rx_fill` pass (`npc = "open"`) refills the ring |

The whitelist of `dev_page_is_reusable` is a free choice per buffer. The
deadline doubling is abstracted to a free choice between re-ringing and
waiting, with strong fairness on re-ringing. Two pieces of dead data are
kept canonical so that states the code cannot tell apart are one state:
- an emptied buffer's `page_offset` is 0, because the next allocation
  resets it;
- a consumed slot's descriptor lengths and completion are cleared.

`ionic_rx_empty` walks all `num_descs` slots, not only the posted window:
a consumed slot keeps a recycled page with the queue's reference on it,
and a fill that failed midway leaves pages on the head slot. Teardown is
enabled by the constant `Teardown`, which only `rx_sg` sets.

`Init` is the queue just after open, which lives in `ionic_lif.c`: one
successful `ionic_rx_fill` has posted `num_descs - 1` descriptors on fresh
pages, rung the doorbell and armed the timer.

### `TxQueue.tla`: what a transmit queue promises

`TxQueue` is the abstract specification: a FIFO `queue` of skbs handed to
the device and the skb in `hand`. Its actions are `Accept`, `Enqueue`,
`Drop` and `Release(k)`, which releases the `k` oldest skbs at once.
`IonicTxq` refines it:

```
TxQ == INSTANCE TxQueue WITH queue <- RingQueue, hand <- Hand, None <- NoPkt
```

`RingQueue` reads the skbs on the posted slots `[tail_idx, head_idx)` in
ring order. `Hand` is the skb `ionic_start_xmit` is working on.
`TxQueueRefined == TxQ!Spec` is checked as a `PROPERTY` in `tx_safety`.

### `IonicRxClean.tla`: skb ownership in `ionic_rx_clean`

This module models who owns each `sk_buff` while `ionic_rx_clean` builds
and delivers it, with `lif->rx_copybreak` written concurrently by ethtool.
`ionic_rx_clean` reads `rx_copybreak` twice:
- at line 324, to choose `ionic_rx_copybreak` (a fresh skb from
  `napi_alloc_skb`) or `ionic_rx_frags` (`napi_get_frags`, the skb NAPI
  keeps in `napi->skb`);
- at line 410, to choose `napi_gro_receive(skb)` or
  `napi_gro_frags(napi)`, which takes `napi->skb`.

| action | code |
|---|---|
| `SetCopybreak` | the ethtool store to `lif->rx_copybreak` (outside this repository) |
| `RxCopybreak`, `RxFrags` | the first read and the skb it builds |
| `RxDeliver`, `GroFrags` | the second read and the delivery; GRO may give the skb back to `napi->skb` (`napi_reuse_skb`); `napi_gro_frags` on a NULL `napi->skb` ends the NAPI context (`pc = "oops"`) |
| `StackFree` | the stack frees an skb |

The page side of both paths is in `IonicRxq`.

## Runs

All `IonicTxq` runs use a 4-entry ring. Its capacity is 3, because one slot is
reserved. Other settings:
- `MaxSegs = 2`, so a TSO packet takes up to 2 descriptors, except in
  `tx_tso_lost_wakeup`, which needs 3 (finding 6).
- `MaxSgElems = 1`, so a 2-fragment packet must be linearised.
- NAPI budget 1 in `tx_safety` and `tx_dma_faults`, 2 elsewhere. Budget 1 still
  ends a poll at the budget and repolls, and keeps those two runs small.
- `StopThresh = 2` in place of the code's literal `4`. With a capacity of
  3, a threshold of 4 would stop the queue after every packet. The value 2
  keeps the ratio between ring size and threshold while still reaching
  both the stopped and the not-stopped outcome of the final check.

| run | cfg | checks | result |
|---|---|---|---|
| `tx_safety` | `IonicTxq_safety.cfg`: 3 skbs, up to 2 frags, linearize and `skb_cow_head` failures, doorbell rung per packet, teardown and reopen | `TypeOK`, `SkbOwnership`, `DmaMappingSafe`, `CompletionOrder`, `TxTeardownReleases`, `TxQueueRefined` | pass (about 1.04M distinct states, under 2 minutes) |
| `tx_liveness` | `IonicTxq_live.cfg`: 2 skbs, no frags, with fairness, regular and hardware-timestamp queue | `EveryPacketReleased` | pass (about 135k states, about a minute) |
| `tx_dma_faults` | `IonicTxq_faults.cfg`: head and fragment mapping failures, regular and hardware-timestamp queue | `SkbOwnership` | pass (about 1.7M states, under 2 minutes) |
| `tso_segmentation` | `IonicTso.cfg`: every skb of 1-3 buffers of 1-3 bytes, `hdrlen` 1-2, `mss` 1-3, `max_sg_elems` 2 | `TypeOK`, `TsoMatchesReference` | pass (2421 states; the walk ends, so deadlock checking is off) |
| `tx_frag_unwind` | `IonicTxq_unwind.cfg`: fragment mapping failures only | `DmaMappingSafe` | violation: finding 1 |
| `tx_head_map_error` | `IonicTxq_headmap.cfg`: head mapping failures only | `DmaMappingSafe` | violation: finding 2 |
| `tx_xmit_more_stall` | `IonicTxq_xmitmore.cfg`: `xmit_more` enabled, 3 skbs | `EveryPacketReleased` | violation: finding 3 |
| `tx_tso_lost_wakeup` | `IonicTxq_tsowake.cfg`: TSO skbs of up to 3 segments, 2 skbs, no frags, no faults | `NoLostWakeup` | violation: finding 6 |
| `rx_sg` | `IonicRxq_sg.cfg`: 2-entry ring, 4 pages of 3 units, frames of up to 2, 1 SG element, copybreak 1, all allocation failures, teardown and reopen, symmetry over pages | `TypeOK`, `RxPageAccounting`, `RxNoDmaOverlap`, `RxDescCapacity`, `RxEmptyReleases` | pass (about 388k states, under a minute) |
| `rx_liveness` | `IonicRxq_live.cfg`: 4-entry ring, unsplit pages, no allocation failure, no symmetry | `RxKeepsReceiving` | pass (about 80k states) |
| `rx_fill_stall` | `IonicRxq_stall.cfg`: as `rx_liveness` with allocation failures | `RxKeepsReceiving` | violation: finding 4 |
| `rx_copybreak_race` | `IonicRxClean_race.cfg`: 3 skbs, frames of length 2, `rx_copybreak` 1 or 2 | `RxSkbOwnedOnce` | violation: finding 5 |

What the properties say:

- **`SkbOwnership`**: every live skb is held by exactly one party, either
  the xmit context (or the qdisc) or exactly one ring slot, and is freed
  once. Slots outside the posted window are empty.
- **`DmaMappingSafe`**: the mappings held are exactly the buffers recorded
  on ring slots, and no unmap hits an unmapped buffer.
- **`CompletionOrder`**: going around the ring from `tail_idx`, the order
  is `hw_tail` ≤ doorbell ≤ `head_idx`. The colour protocol never lets the
  driver clean ahead of the device.
- **`NoLostWakeup`**: while the LIF is up, after `ionic_start_xmit`
  returns, a stopped queue has descriptors outstanding. The code breaks it
  with TSO (finding 6), so it is checked only by a violation run.
- **`TxTeardownReleases`**: once `ionic_tx_empty` has run, every skb and
  mapping is released and nothing is posted. `ionic_tx_clean` in
  `ionic_tx_empty` wakes the subqueue, so the stack can call
  `ionic_start_xmit` again; only its `IONIC_LIF_F_UP` test prevents a
  post to the emptied ring.
- **`TxQueueRefined`**: every step of the ring is a step of `TxQueue`:
  skbs are released in the order they were posted.
- **`TsoMatchesReference`**: the TSO walk posts exactly the reference
  segments, with SOT first and EOT last. It never grabs a buffer past
  `bufs[nbufs-1]`.
- **`EveryPacketReleased`**: every skb handed to the driver is eventually
  freed, and a stopped queue is eventually woken. On the
  hardware-timestamp queue, whose `ionic_tx_clean` wakes nothing, this
  holds because `ionic_start_hwstamp_xmit` drops what does not fit
  instead of stopping. The run keeps skbs at 2 segments on a 4-entry ring
  with threshold 2. There, the space a TSO skb's trailing slots free
  never decides a stop. With 3 segments the property fails (finding 6).
- **`RxPageAccounting`**: a page's reference count is the number of buffer
  slots holding it plus the fragments the stack holds on it. A page sits
  in at most one slot, and it is mapped exactly while a slot holds it.
- **`RxNoDmaOverlap`**: each region a posted descriptor gives the device
  lies within its page. No two such regions overlap, and none overlaps a
  fragment the stack still holds.
- **`RxDescCapacity`**: every posted descriptor holds a full frame,
  however far recycling has advanced its pages.
- **`RxEmptyReleases`**: after `ionic_rx_empty`, no slot holds a page,
  nothing is mapped, both indices are 0, and each page's reference count
  is exactly the fragments the stack still holds: the queue dropped its
  own reference on every page, recycled ones included, and none twice.
- **`RxKeepsReceiving`**: the device always comes back to having an
  announced buffer.
- **`RxSkbOwnedOnce`**: every skb has exactly one owner: the pool, the
  stack, `napi->skb`, or `ionic_rx_clean` itself.

Each property of a passing run has a mutant in `PROJECT.json`: a plausible
coding error that TLC catches under the run's own cfg. Two examples are a
missing recheck in `ionic_maybe_stop_tx` and an unflipped `done_color`.

### Findings

1. **Fragment unwind unmaps the wrong buffer.** In `ionic_tx_map_skb` the
   `dma_fail` loop leaves `buf_info` at `bufs[1]`, and
   `dma_unmap_single` then unmaps `bufs[1]` instead of the head `bufs[0]`
   (`ionic_txrx.c:863-871`). The head mapping leaks, and `bufs[1]` is
   unmapped twice, or unmapped without ever having been mapped.
2. **Head mapping failure goes undetected.** `ionic_tx_map_single` returns
   `0` on failure. The caller tests that `0` with `dma_mapping_error`,
   which does not flag it (`ionic_txrx.c:799-804`, `837-840`). The
   descriptor is posted with address 0 and later unmapped.
3. **`xmit_more` stall.** `ionic_tx` defers the doorbell when `xmit_more`
   is set (`:1379`). `ionic_maybe_stop_tx(q, 4)` may then stop the queue,
   which ends the stack's batch. Nothing rings the doorbell, so the device
   never completes the packets. The queue stays stopped and its skbs are
   never freed. The model assumes `napi_deadline` is not armed before the
   first NAPI poll, because its arming is in `ionic_lif.c`, outside this
   repository.

4. **RX stops for good after a fill failure on a drained ring.**
   `ionic_rx_fill` returns on a page allocation failure with no doorbell
   and no `mod_timer` (`ionic_txrx.c:476-481`, `501-506`). If every posted
   buffer has been consumed, `ionic_rx_napi` calls `ionic_rx_fill` only
   when `work_done > 0` (`:677`). `ionic_rxq_poke_doorbell` returns false
   on an empty queue (`:68`), so the timer is not re-armed. The device has
   nothing to receive into, so no interrupt comes, and NAPI never runs
   again. The spec (section 4.4) calls a partial fill graceful degradation
   that leaves slots for the next fill pass; here no next pass comes. TLC's
   trace: NAPI drops the consumed frames, the refill fails on the head
   slot, and the queue goes idle with an empty ring and no timer.

5. **`rx_copybreak` is read twice in `ionic_rx_clean`.** The build
   decision at line 324 and the delivery decision at line 410 read
   `q->lif->rx_copybreak` separately, with no `READ_ONCE` and no lock
   against the ethtool writer. TLC's trace takes 3 steps:
   `ionic_rx_copybreak` copies a frame with `rx_copybreak` 2; ethtool sets
   it to 1; line 410 calls `napi_gro_frags`, which dereferences
   `napi->skb`, and that is NULL. The opposite change passes the frags skb
   to `napi_gro_receive` while NAPI still keeps it in `napi->skb`, so the
   next `napi_get_frags` hands out an skb the stack owns (use after free).
   The decision should be read once.

6. **A TSO completion can lose the wakeup.** `ionic_tx_service` advances
   `q->tail_idx` one slot at a time (`ionic_txrx.c:970`). `ionic_tx_clean`
   tests the stopped bit only on a slot holding an skb (`:938`), which for
   TSO is the SOT slot. The trailing segment slots therefore free space
   after the last wake test. TLC's trace: a 3-segment skb is posted on a
   4-entry ring and completed. NAPI cleans its SOT slot while the queue is
   not yet stopped. The final `ionic_maybe_stop_tx` then finds too little
   space, stops, and re-checks. The re-check still sees the two trailing
   slots, so it fails. NAPI cleans those slots and the ring is empty, but
   the subqueue stays stopped and no completion is left to wake it. The
   comment at line 1422 says the re-check closes the race with
   `ionic_tx_clean`. It does for single-slot skbs, but not for this one.
   The case needs the last outstanding skb's `gso_segs` plus the demand
   being checked (the next skb's descriptors, or 4 after a post) to
   exceed `num_descs`. Ring sizes and GSO limits are set outside this
   repository.

## Fairness

The fairness assumptions and why the code justifies them:

- **`WF` on the xmit steps.** The xmit context holds the TX lock and
  always finishes `ionic_start_xmit`.
- **`WF` on `StackResend`.** The qdisc requeues a NETDEV_TX_BUSY skb and
  retries it once the queue is woken. This is also why the property "skb
  eventually freed" applies to requeued skbs.
- **`WF` on `HwComplete`.** The device completes what it was told about.
- **`WF` on NAPI scheduling and NAPI steps.** The interrupt is modelled as
  level-triggered while a valid CQE is waiting, and the `napi_deadline`
  timer fires once armed.
- **`SF` on `TxPokeRing`.** Jiffies advance, so the doorbell deadline
  eventually passes while the timer keeps polling.

Nothing forces the stack to offer new packets. The teardown actions have
no fairness and are enabled only in `tx_safety`, which checks no liveness.

For `IonicRxq`, the device, NAPI and the stack's release of fragments are
weakly fair. The poke's re-ring is strongly fair, because jiffies advance.
`RxFillDesc` is strongly fair, because memory pressure is transient: a
fill retried often enough eventually gets its pages. Finding 4 is a stop
where no retry is ever attempted, which fairness cannot repair. The
liveness runs turn deadlock checking off because a state with no
successor has `hw_tail = dbell` and so already violates
`RxKeepsReceiving`. Symmetry over pages is used only in the safety runs,
because it is not sound for liveness checking.

## Bounds

The bounds were chosen so that the following cases all occur:

- a full ring;
- a TSO packet that does not fit;
- the final stop;
- a completion that cleans several slots;
- the CQ colour wrap;
- a NAPI poll that exhausts its budget;
- interleaving of the stop/recheck with a clean.

Three skbs are needed for the `xmit_more` stall: two deferred packets plus
the stop. The safety run uses three. The liveness run uses two skbs and no
fragments (fragments matter only to mapping, which the other runs check)
to stay near a minute.

The RX safety run reaches split pages recycled to their end, an emptied
page reallocated while the stack still holds an older fragment, every
allocation failure point, and teardown at every point. It needs pages of
three units and frames of two so that a page recycled to offset 2 forces
an SG buffer. It uses a 2-entry ring to stay within a minute; a 4-entry
ring with these pages exceeds 2.5M states.

## Not modelled

- **Weak memory ordering.** Contexts are interleaved under sequential
  consistency. A store-buffer model of `tail_idx` and the stopped bit
  was also built. It covered x86-TSO, and the kernel memory model, where
  `set_bit` orders nothing. In that model the `smp_rmb`-only re-check
  loses the wakeup only when every outstanding descriptor, at least
  `num_descs - ndescs` of them, is completed and cleaned while the stop
  is still invisible. That is because `ionic_tx_clean` tests the bit on
  every completion. The analysis is recorded with the hazard at
  `ionic_txrx.c:1423`. No run checks it.
- **Interrupt coalescing** (`ionic_coal_usec_to_hw`,
  `ionic_coal_hw_to_usec` in `ionic_lif.h`). Their callers are outside
  this repository, and the spec excludes interrupt moderation.
- **Composition under `ionic_txrx_napi`.** The TX and RX queues of one
  interrupt share only the budget and the interrupt. Each queue is
  checked on its own.
- **Descriptor field encoding.** This covers checksum offload fields,
  VLAN, and encapsulation flags. It has no queue state.
- **Statistics, BQL byte accounting, DIM and interrupt credits.** These are
  counters consumed elsewhere and never influence queue state.
- **Timestamp values.** The hardware-timestamp TX queue is modelled, but
  the timestamp itself (`ionic_lif_phc_ktime`, `skb_tstamp_tx`, and the RX
  timestamp extraction) is data that no queue state depends on.
- **A stack batch spanning two queues.** `xmit_more` describes the
  stack's subqueue, but a timestamped skb goes to the hardware-timestamp
  queue while the rest of the batch goes to the regular one. A deferred
  doorbell on the timestamp queue is then rung by nobody. Showing it needs
  both queues in one model; the runs that reach the timestamp queue set
  `XmitMore = FALSE`. The hazard is recorded at `ionic_txrx.c:1379`.
- **`queue_mapping` beyond `nxqs`.** `ionic_start_xmit` folds it onto
  queue 0, which `ionic_maybe_stop_tx` then stops, but `ionic_tx_clean`
  wakes the skb's own mapping. Such mappings exist only while the channel
  count changes, in code outside this repository. The model has one
  subqueue (hazard at `ionic_txrx.c:1490`).
- **Multiple queues.** Queues share nothing except the interrupt in
  `ionic_txrx_napi`.
- **TSO completions.** The device completes TSO packets only at their
  end-of-packet descriptor. This matches the spec's description of the
  completion index.
