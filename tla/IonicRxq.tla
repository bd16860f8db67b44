------------------------------ MODULE IonicRxq ------------------------------
(***************************************************************************)
(* One ionic receive queue (src/drivers/linux/eth/ionic/ionic_txrx.c): the *)
(* buffer pages posted by ionic_rx_fill, the device writing frames into    *)
(* announced descriptors, and the NAPI context running ionic_rx_napi:      *)
(* ionic_cq_service with ionic_rx_service / ionic_rx_clean (drop, copy-    *)
(* break, or frags with ionic_rx_buf_recycle), the refill, and             *)
(* ionic_rxq_poke_doorbell with the napi_deadline timer.  The stack owns   *)
(* the page fragments of delivered skbs until it releases them.            *)
(* Lengths are in units of IONIC_PAGE_SPLIT_SZ, so ALIGN(used, split) is   *)
(* used itself.  Pages are model values with a reference count; the build  *)
(* is the IONIC_PAGE_ORDER == 0 one (get_page on recycle, no bias).        *)
(***************************************************************************)
EXTENDS Naturals, Sequences, FiniteSets, SequencesExt

CONSTANTS
  NumDescs,     \* q->num_descs
  Pages,        \* physical pages (model values)
  PageSize,     \* IONIC_PAGE_SIZE, in split units
  FrameLen,     \* len = netdev->mtu + ETH_HLEN + VLAN_HLEN, in split units
  MtuSplit,     \* netdev->mtu <= IONIC_PAGE_SPLIT_MAX_MTU (recycling allowed)
  MaxSgElems,   \* q->max_sg_elems
  CopyBreak,    \* q->lif->rx_copybreak, in split units
  RxBudget,     \* NAPI budget
  FillThresh,   \* min(IONIC_RX_FILL_THRESHOLD, num_descs / IONIC_RX_FILL_DIV)
  AllocFaults,  \* alloc_pages / dma_map_page / skb allocation may fail
  Teardown,     \* the queue may be disabled, emptied and reopened
  NoPage        \* model value: buf_info->page == NULL

ASSUME NoPage \notin Pages /\ FrameLen > 0 /\ PageSize > 0

VARIABLES
  head_idx, tail_idx, \* q->head_idx, q->tail_idx
  bufs,               \* q->info[i].bufs[j]: page and page_offset
  dlen,               \* lengths written to descriptor i (main, then SG elements)
  dbell,              \* index last written to the doorbell
  hw_tail,            \* next descriptor the device fills
  clen,               \* completion of slot i: 0 = bad status, else comp->len
  refcnt,             \* page reference counts
  mapped,             \* pages DMA-mapped
  held,               \* page fragments of skbs given to the stack
  npc, work,          \* NAPI context: program point, work_done
  timer,             \* napi_deadline armed
  lif                \* queue state: "up", "stopped" (NAPI and the queue
                     \* disabled), "down" (ionic_rx_empty has run)

vars == <<head_idx, tail_idx, bufs, dlen, dbell, hw_tail, clen, refcnt,
          mapped, held, npc, work, timer, lif>>

Idx == 0 .. NumDescs - 1
BufIdx == 0 .. MaxSgElems
Incr(i) == (i + 1) % NumDescs
Dist(a, b) == (b + NumDescs - a) % NumDescs
InWindow(i, a, b) == Dist(a, i) < Dist(a, b)
SpaceAvail == NumDescs - 1 - Dist(tail_idx, head_idx)
MinOf(a, b) == IF a <= b THEN a ELSE b
Frag == [page : Pages, off : Nat, len : Nat]
Total(s) == FoldSeq(LAMBDA a, b : a + b, 0, s)

-----------------------------------------------------------------------------
(* ionic_rx_fill                                                           *)

\* A buffer as the fill loop sees it once allocated: a new page starts at
\* page_offset 0.
EmptyBuf == [page |-> NoPage, off |-> 0]

Fresh(b) == IF b.page = NoPage THEN [page |-> NoPage, off |-> 0] ELSE b

\* Lengths the fill loop writes for slot b: the main descriptor takes
\* min(len, PAGE_SIZE - page_offset) of bufs[0], then SG element j takes
\* bufs[j+1] while remain_len > 0 and j < max_sg_elems.
\* Mutant: the SG loop stops one element early (j + 1 < max_sg_elems).
RECURSIVE FillLensShort(_, _, _)
FillLensShort(b, j, remain) ==
  IF remain = 0 \/ j >= MaxSgElems THEN <<>>
  ELSE LET fl == MinOf(remain, PageSize - Fresh(b[j]).off)
       IN <<fl>> \o FillLensShort(b, j + 1, remain - fl)

RECURSIVE FillLens(_, _, _)
FillLens(b, j, remain) ==
  IF remain = 0 \/ j > MaxSgElems THEN <<>>
  ELSE LET fl == MinOf(remain, PageSize - Fresh(b[j]).off)
       IN <<fl>> \o FillLens(b, j + 1, remain - fl)

FreePages == {p \in Pages : refcnt[p] = 0}

\* ionic_rx_fill is called from ionic_rx_napi ("fill") and, when the queue
\* is reopened, from queue start ("open"); it returns to its caller.
Filling == {"fill", "open"}
FillReturn == IF npc = "open" THEN "idle" ELSE "post"

\* ionic_rx_page_alloc of a page p into buffer (i, j).
Alloc(S, pg) ==
  LET new == {pg[j] : j \in S} IN
  /\ refcnt' = [p \in Pages |-> IF p \in new THEN 1 ELSE refcnt[p]]
  /\ mapped' = mapped \cup new

WithPages(i, S, pg) ==
  [bufs EXCEPT ![i] = [j \in BufIdx |-> IF j \in S THEN [page |-> pg[j], off |-> 0]
                                         ELSE bufs[i][j]]]

\* Buffers of slot head_idx the loop visits, and those it must allocate.
Visited == 0 .. Len(FillLens(bufs[head_idx], 0, FrameLen)) - 1
Needs == {j \in Visited : bufs[head_idx][j].page = NoPage}

\* The distinct free pages alloc_pages may return for the buffers S.
NewPages(S) == {pg \in [S -> FreePages] : \A a, b \in S : a # b => pg[a] # pg[b]}

\* One pass of the for loop: every buffer the loop visits gets a page,
\* the descriptor is written and ionic_rxq_post advances head_idx
\* without ringing.
RxFillDesc ==
  /\ npc \in Filling /\ SpaceAvail > 0
  /\ \E pg \in NewPages(Needs) :
       /\ Alloc(Needs, pg)
       /\ bufs' = WithPages(head_idx, Needs, pg)
       /\ dlen' = [dlen EXCEPT ![head_idx] = FillLens(bufs[head_idx], 0, FrameLen)]
       /\ head_idx' = Incr(head_idx)
  /\ UNCHANGED <<tail_idx, dbell, hw_tail, clen, held, npc, work, timer, lif>>

\* ionic_rx_page_alloc fails for buffer k: the buffers allocated before it
\* keep their pages, and ionic_rx_fill returns -- no doorbell, no
\* dbell_deadline reset, no mod_timer.
RxFillFail ==
  /\ npc \in Filling /\ SpaceAvail > 0 /\ AllocFaults
  /\ \E k \in Needs :
       LET S == {j \in Needs : j < k} IN
       \E pg \in NewPages(S) :
          /\ Alloc(S, pg)
          /\ bufs' = WithPages(head_idx, S, pg)
  /\ npc' = FillReturn
  /\ UNCHANGED <<head_idx, tail_idx, dlen, dbell, hw_tail, clen, held, work, timer, lif>>

\* Loop over: ring the doorbell for the batch, reset the deadline and arm
\* napi_deadline.
RxFillDone ==
  /\ npc \in Filling /\ SpaceAvail = 0
  /\ dbell' = head_idx
  /\ timer' = TRUE
  /\ npc' = FillReturn
  /\ UNCHANGED <<head_idx, tail_idx, bufs, dlen, hw_tail, clen, refcnt, mapped,
                 held, work, lif>>

-----------------------------------------------------------------------------
(* The device                                                              *)

\* The device fills the next announced descriptor with a frame of at
\* most its capacity (at most len), or reports a bad status (0).
HwRecv ==
  /\ lif = "up" /\ hw_tail # dbell
  /\ LET cap == MinOf(FrameLen, Total(dlen[hw_tail])) IN
     \E n \in 0 .. cap : clen' = [clen EXCEPT ![hw_tail] = n]
  /\ hw_tail' = Incr(hw_tail)
  /\ UNCHANGED <<head_idx, tail_idx, bufs, dlen, dbell, refcnt, mapped, held,
                 npc, work, timer, lif>>

-----------------------------------------------------------------------------
(* ionic_rx_service / ionic_rx_clean                                       *)

\* ionic_rx_service for the completion at tail_idx: the device has filled
\* it (colour match), the queue is not empty and comp_index == tail_idx;
\* tail_idx advances and ionic_rx_clean runs on the slot.  The slot's
\* descriptor and completion are dead once consumed and are cleared.
Service ==
  /\ npc = "poll" /\ work < RxBudget /\ tail_idx # hw_tail
  /\ tail_idx' = Incr(tail_idx) /\ work' = work + 1
  /\ clen' = [clen EXCEPT ![tail_idx] = 0]
  /\ dlen' = [dlen EXCEPT ![tail_idx] = <<>>]

\* ionic_rx_clean leaves the slot's buffers where they are: comp->status
\* set; len <= rx_copybreak, where ionic_rx_copybreak copies the frame out
\* of bufs[0] and the page stays at the same page_offset; or
\* napi_alloc_skb / napi_get_frags failed and the frame is dropped.
RxCleanInPlace ==
  /\ Service
  /\ clen[tail_idx] <= CopyBreak \/ AllocFaults
  /\ UNCHANGED <<head_idx, bufs, dbell, hw_tail, refcnt, mapped, held, npc,
                 timer, lif>>

\* comp->num_sg_elems: the descriptor buffers the device used for n bytes.
NumSgElems(i, n) ==
  CHOOSE k \in 0 .. Len(dlen[i]) - 1 :
    /\ Total(SubSeq(dlen[i], 1, k + 1)) >= n
    /\ k = 0 \/ Total(SubSeq(dlen[i], 1, k)) < n

\* frag_len = min(len, IONIC_PAGE_SIZE - page_offset) for each of the
\* num_sg_elems + 1 buffers, len decreasing.
RECURSIVE FragLens(_, _, _, _)
FragLens(b, j, k, remain) ==
  IF j = k THEN <<>>
  ELSE LET fl == MinOf(remain, PageSize - b[j].off)
       IN <<fl>> \o FragLens(b, j + 1, k, remain - fl)

\* Mutant: the page_offset >= IONIC_PAGE_SIZE check dropped.
RecycledNoLimit(b, fl, reusable) ==
  IF reusable /\ MtuSplit THEN [page |-> b.page, off |-> b.off + fl]
  ELSE [page |-> NoPage, off |-> 0]

\* Mutant: page_offset not advanced by the bytes handed to the skb.
RecycledNoAdvance(b, fl, reusable) ==
  LET adv == b.off + fl IN
  IF reusable /\ MtuSplit /\ adv < PageSize THEN [page |-> b.page, off |-> b.off]
  ELSE [page |-> NoPage, off |-> 0]

\* ionic_rx_buf_recycle and its caller for buffer b after fl bytes were
\* attached: reusable pages within a small MTU advance page_offset by
\* ALIGN(fl) and keep the page (get_page); otherwise the page is unmapped
\* and the buffer emptied, the skb keeping the buffer's reference.
\* (An emptied buffer's page_offset is dead until the next alloc resets it
\* to 0, so it is kept as 0.)
Recycled(b, fl, reusable) ==
  LET adv == b.off + fl IN
  IF reusable /\ MtuSplit /\ adv < PageSize THEN [page |-> b.page, off |-> adv]
  ELSE [page |-> NoPage, off |-> 0]

\* Mutant: a recycled page kept without get_page.
GetPagesNone(kept) == refcnt

\* get_page on every page ionic_rx_buf_recycle keeps.
GetPages(kept) == [p \in Pages |-> IF p \in kept THEN refcnt[p] + 1 ELSE refcnt[p]]

\* ionic_rx_frags: every used buffer becomes a fragment of the skb handed
\* to napi_gro_frags; each one is recycled or released.
RxCleanFrags ==
  /\ Service
  /\ clen[tail_idx] > CopyBreak
  /\ LET i  == tail_idx
         b  == bufs[i]
         k  == NumSgElems(i, clen[i]) + 1
         fl == FragLens(b, 0, k, clen[i])
         U  == 0 .. k - 1
     IN \E reusable \in [U -> BOOLEAN] :
          LET nb(j) == IF j \in U THEN Recycled(b[j], fl[j + 1], reusable[j]) ELSE b[j]
              kept  == {b[j].page : j \in {u \in U : nb(u).page # NoPage}}
              freed == {b[j].page : j \in {u \in U : nb(u).page = NoPage}}
          IN /\ bufs' = [bufs EXCEPT ![i] = [j \in BufIdx |-> nb(j)]]
             /\ refcnt' = GetPages(kept)
             /\ mapped' = mapped \ freed
             /\ held' = held \cup {[page |-> b[j].page, off |-> b[j].off, len |-> fl[j + 1]] : j \in U}
  /\ UNCHANGED <<head_idx, dbell, hw_tail, npc, timer, lif>>

\* The stack frees an skb fragment: put_page.
StackRelease ==
  /\ \E f \in held :
       /\ held' = held \ {f}
       /\ refcnt' = [refcnt EXCEPT ![f.page] = @ - 1]
  /\ UNCHANGED <<head_idx, tail_idx, bufs, dlen, dbell, hw_tail, clen, mapped,
                 npc, work, timer, lif>>

-----------------------------------------------------------------------------
(* ionic_rx_napi                                                           *)

NapiUnchanged == UNCHANGED <<head_idx, tail_idx, bufs, dlen, hw_tail, clen,
                             refcnt, mapped, held, lif>>

\* The interrupt (unmasked while completions wait) schedules NAPI.
NapiSchedule ==
  /\ lif = "up" /\ npc = "idle" /\ tail_idx # hw_tail
  /\ npc' = "poll" /\ work' = 0
  /\ UNCHANGED <<dbell, timer>> /\ NapiUnchanged

\* ionic_napi_deadline: the timer schedules NAPI.
NapiDeadline ==
  /\ lif = "up" /\ npc = "idle" /\ timer
  /\ npc' = "poll" /\ work' = 0 /\ timer' = FALSE
  /\ UNCHANGED dbell /\ NapiUnchanged

\* Mutant: refill only after a full budget.
RxPollEndFullOnly ==
  /\ npc = "poll" /\ (work = RxBudget \/ tail_idx = hw_tail)
  /\ npc' = IF work = RxBudget /\ SpaceAvail >= FillThresh THEN "fill" ELSE "post"
  /\ UNCHANGED <<dbell, work, timer>> /\ NapiUnchanged

\* ionic_cq_service returns; refill if work was done and
\* ionic_q_space_avail >= rx_fill_threshold.
RxPollEnd ==
  /\ npc = "poll" /\ (work = RxBudget \/ tail_idx = hw_tail)
  /\ npc' = IF work > 0 /\ SpaceAvail >= FillThresh THEN "fill" ELSE "post"
  /\ UNCHANGED <<dbell, work, timer>> /\ NapiUnchanged

\* Budget exhausted: napi_complete_done is not called and NAPI polls again.
RxNapiRepoll ==
  /\ npc = "post" /\ work = RxBudget
  /\ npc' = "poll" /\ work' = 0
  /\ UNCHANGED <<dbell, timer>> /\ NapiUnchanged

\* napi_complete_done after some work; no doorbell poke.
RxNapiCompleteDone ==
  /\ npc = "post" /\ work > 0 /\ work < RxBudget
  /\ npc' = "idle"
  /\ UNCHANGED <<dbell, work, timer>> /\ NapiUnchanged

\* No work: ionic_rxq_poke_doorbell finds the queue empty and returns
\* false; the timer is not re-armed.
RxPokeIdle ==
  /\ npc = "post" /\ work = 0 /\ tail_idx = head_idx
  /\ npc' = "idle"
  /\ UNCHANGED <<dbell, work, timer>> /\ NapiUnchanged

\* No work, descriptors posted, deadline not passed: mod_timer only.
RxPokeWait ==
  /\ npc = "post" /\ work = 0 /\ tail_idx # head_idx
  /\ npc' = "idle" /\ timer' = TRUE
  /\ UNCHANGED <<dbell, work>> /\ NapiUnchanged

\* No work, deadline passed: ring head_idx again, double the deadline,
\* mod_timer.
RxPokeRing ==
  /\ npc = "post" /\ work = 0 /\ tail_idx # head_idx
  /\ npc' = "idle" /\ timer' = TRUE /\ dbell' = head_idx
  /\ UNCHANGED work /\ NapiUnchanged

-----------------------------------------------------------------------------
(* Queue close and reopen.  The sequence that calls ionic_rx_empty is in  *)
(* ionic_lif.c, outside this driver file: napi_disable waits for the poll, *)
(* ionic_qcq_disable stops the device and the deadline timer is deleted;   *)
(* the stack may still hold fragments of delivered skbs.  Reopening        *)
(* reinitialises the rings at index 0 and runs ionic_rx_fill.              *)

RxQueueDisable ==
  /\ Teardown /\ lif = "up" /\ npc = "idle"
  /\ lif' = "stopped" /\ timer' = FALSE /\ work' = 0
  /\ UNCHANGED <<head_idx, tail_idx, bufs, dlen, dbell, hw_tail, clen, refcnt,
                 mapped, held, npc>>

\* ionic_rx_page_free of every buffer of the slots in S that holds a page:
\* dma_unmap_page, __free_pages (dropping the queue's reference), page = NULL.
PageFree(S) ==
  LET slots == {s \in S \X BufIdx : bufs[s[1]][s[2]].page # NoPage}
      pgs   == {bufs[s[1]][s[2]].page : s \in slots}
  IN  /\ refcnt' = [p \in Pages |-> IF p \in pgs THEN refcnt[p] - 1 ELSE refcnt[p]]
      /\ mapped' = mapped \ pgs
      /\ bufs' = [i \in Idx |-> IF i \in S THEN [j \in BufIdx |-> EmptyBuf]
                                         ELSE bufs[i]]

\* Mutant: ionic_rx_empty walking only the posted slots [tail_idx, head_idx).
RxEmptySlots == {i \in Idx : InWindow(i, tail_idx, head_idx)}

\* The slots ionic_rx_empty walks: all num_descs of them -- consumed slots
\* keep recycled pages, and a failed fill leaves pages on the head slot.
RxEmptyWalk == Idx

\* ionic_rx_empty; the descriptors and completions are dead and kept empty.
RxEmpty ==
  /\ lif = "stopped"
  /\ PageFree(RxEmptyWalk)
  /\ head_idx' = 0 /\ tail_idx' = 0
  /\ dlen' = [i \in Idx |-> <<>>] /\ clen' = [i \in Idx |-> 0]
  /\ lif' = "down"
  /\ UNCHANGED <<dbell, hw_tail, held, npc, work, timer>>

\* Queue open: the device rings start at 0 and ionic_rx_fill runs.
RxReopen ==
  /\ lif = "down"
  /\ dbell' = 0 /\ hw_tail' = 0 /\ npc' = "open" /\ lif' = "up"
  /\ UNCHANGED <<head_idx, tail_idx, bufs, dlen, clen, refcnt, mapped, held,
                 work, timer>>

-----------------------------------------------------------------------------

\* The queue just opened: ionic_rx_fill has run once from queue start and
\* succeeded, so num_descs - 1 descriptors hold fresh pages, the doorbell
\* is rung and napi_deadline is armed.
OpenLens == FillLens([j \in BufIdx |-> EmptyBuf], 0, FrameLen)
OpenBufs == (0 .. NumDescs - 2) \X (0 .. Len(OpenLens) - 1)

Init ==
  /\ \E pg \in [OpenBufs -> Pages] :
       /\ \A a, b \in OpenBufs : a # b => pg[a] # pg[b]
       /\ bufs = [i \in Idx |-> [j \in BufIdx |->
                    IF <<i, j>> \in OpenBufs THEN [page |-> pg[<<i, j>>], off |-> 0]
                    ELSE EmptyBuf]]
       /\ refcnt = [p \in Pages |-> IF \E s \in OpenBufs : pg[s] = p THEN 1 ELSE 0]
       /\ mapped = {pg[s] : s \in OpenBufs}
  /\ dlen = [i \in Idx |-> IF i < NumDescs - 1 THEN OpenLens ELSE <<>>]
  /\ head_idx = NumDescs - 1 /\ tail_idx = 0
  /\ dbell = NumDescs - 1 /\ hw_tail = 0
  /\ clen = [i \in Idx |-> 0]
  /\ held = {}
  /\ npc = "idle" /\ work = 0 /\ timer = TRUE
  /\ lif = "up"

RxClean == RxCleanInPlace \/ RxCleanFrags
RxFill == RxFillDesc \/ RxFillFail \/ RxFillDone
NapiStep == RxPollEnd \/ RxNapiRepoll \/ RxNapiCompleteDone \/ RxPokeIdle
            \/ RxPokeWait \/ RxPokeRing

Next == RxFill \/ HwRecv \/ RxClean \/ StackRelease \/ NapiSchedule
        \/ NapiDeadline \/ NapiStep \/ RxQueueDisable \/ RxEmpty \/ RxReopen

\* The device receives into announced buffers and NAPI runs when
\* scheduled; the stack eventually frees the skbs it was given; the
\* doorbell deadline eventually passes; memory pressure is transient, so a
\* fill that is retried often enough eventually gets its pages.
Fairness ==
  /\ WF_vars(HwRecv) /\ WF_vars(RxClean) /\ WF_vars(StackRelease)
  /\ WF_vars(NapiSchedule) /\ WF_vars(NapiDeadline) /\ WF_vars(NapiStep)
  /\ WF_vars(RxFillDone) /\ SF_vars(RxFillDesc) /\ SF_vars(RxPokeRing)

Spec == Init /\ [][Next]_vars /\ Fairness

-----------------------------------------------------------------------------

TypeOK ==
  /\ {head_idx, tail_idx, dbell, hw_tail} \subseteq Idx
  /\ bufs \in [Idx -> [BufIdx -> [page : Pages \cup {NoPage}, off : 0 .. PageSize - 1]]]
  /\ dlen \in [Idx -> Seq(1 .. FrameLen)]
  /\ clen \in [Idx -> 0 .. FrameLen]
  /\ refcnt \in [Pages -> Nat] /\ mapped \subseteq Pages /\ held \subseteq Frag
  /\ npc \in {"fill", "open", "idle", "poll", "post"} /\ work \in 0 .. RxBudget
  /\ timer \in BOOLEAN /\ lif \in {"up", "stopped", "down"}

-----------------------------------------------------------------------------
(* Properties                                                              *)

Posted(i) == InWindow(i, tail_idx, head_idx)
BufSlots == Idx \X BufIdx
\* The device-visible region of buffer slot s of a posted descriptor.
PostedSlots == {s \in BufSlots : Posted(s[1]) /\ s[2] < Len(dlen[s[1]])}
Region(s) == [page |-> bufs[s[1]][s[2]].page, off |-> bufs[s[1]][s[2]].off,
              len |-> dlen[s[1]][s[2] + 1]]
Overlap(a, b) == a.page = b.page /\ a.off < b.off + b.len /\ b.off < a.off + a.len

\* Every page reference is accounted for: a page's count is the number of
\* buffer slots holding it plus the skb fragments the stack holds on it;
\* a page sits in at most one buffer slot, and it is DMA-mapped exactly
\* while a buffer slot holds it.  Breaks if ionic_rx_buf_recycle keeps a
\* page without get_page, or ionic_rx_frags hands a page to the stack
\* without emptying the slot or unmapping it.
RxPageAccounting ==
  /\ \A p \in Pages :
       LET inBufs == {s \in BufSlots : bufs[s[1]][s[2]].page = p} IN
       /\ Cardinality(inBufs) <= 1
       /\ refcnt[p] = Cardinality(inBufs) + Cardinality({f \in held : f.page = p})
  /\ mapped = {bufs[s[1]][s[2]].page : s \in BufSlots} \ {NoPage}

\* Page splitting never lets the device write where the stack reads: the
\* regions given to the device by posted descriptors lie inside their
\* pages and overlap neither each other nor any fragment of a delivered
\* skb.  Breaks if a recycled buffer does not advance page_offset past
\* the bytes attached to the skb.
RxNoDmaOverlap ==
  /\ \A s \in PostedSlots : Region(s).page # NoPage /\ Region(s).off + Region(s).len <= PageSize
  /\ \A s, t \in PostedSlots : s # t => ~Overlap(Region(s), Region(t))
  /\ \A s \in PostedSlots, f \in held : ~Overlap(Region(s), f)
  /\ \A f, g \in held : f # g => ~Overlap(f, g)

\* Every posted descriptor has room for a full frame
\* (mtu + ETH_HLEN + VLAN_HLEN), however far recycling has advanced the
\* page offsets of its buffers.
RxDescCapacity == \A i \in Idx : Posted(i) => Total(dlen[i]) = FrameLen

\* Receive never stops for good: the device always comes back to having
\* an announced buffer to receive into (ionic_rx_fill keeps the ring
\* refilled and announced).
RxKeepsReceiving == []<>(hw_tail # dbell)

\* Closing the queue releases every buffer: once ionic_rx_empty has run no
\* slot holds a page, none stays DMA-mapped, both indices are 0, and the
\* only references left on any page are the stack's fragments (so a page
\* the stack still reads is not freed under it).  Breaks if the walk
\* skips the consumed slots whose recycled pages ionic_rx_buf_recycle kept.
RxEmptyReleases ==
  lif = "down" =>
    /\ \A s \in BufSlots : bufs[s[1]][s[2]].page = NoPage
    /\ mapped = {} /\ head_idx = 0 /\ tail_idx = 0
    /\ \A p \in Pages : refcnt[p] = Cardinality({f \in held : f.page = p})

====
