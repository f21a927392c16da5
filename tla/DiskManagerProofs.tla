------------------------- MODULE DiskManagerProofs --------------------------
(***************************************************************************)
(* Proofs about DiskManager, for every number of pages, freelist page      *)
(* size, payload set, and number of crashes and faults.                    *)
(***************************************************************************)
EXTENDS DiskManager, ListLemmas, FiniteSetTheorems, TLAPS

-----------------------------------------------------------------------------
(* The inductive invariant.                                                *)

Freed == [kind : {"free"}, next : PageId \cup {INVALID_PAGE_ID}, ids : Seq(PageId)]
Header == [kind : {"meta"}, head : PageId \cup {INVALID_PAGE_ID}, next : 1..(MaxPage + 1)]
Cell == {Absent, Torn} \cup {Payload(d) : d \in Data} \cup Freed \cup Header
Files == [Slot -> Cell]

(* The files made of pages of a and pages of b: a superset of what a power *)
(* cut leaves of cache a over disk b.                                      *)
Mixes(a, b) == {[s \in Slot |-> IF s \in S THEN a[s] ELSE b[s]] : S \in SUBSET Slot}

(* No page id has reached the one whose offset wraps. *)
Fits(m) == m.next \in 1..OffsetWrap

SoundAt(c, m, f, held) == SoundBy(c, m, f, held) /\ Fits(m)

(* By chain c, the freelist m finds in f is sound for the holders of       *)
(* "held", and m loses no page but those of L.                             *)
SoundFor(c, m, f, held, L) == SoundAt(c, m, f, held) /\ Leaked(c, m, f, held) \subseteq L

(* One chain is right in every file of F. *)
SoundIn(F, m, held, L) == \E c \in Chains : \A f \in F : SoundFor(c, m, f, held, L)

Anywhere(m, held, L) == SoundIn(Mixes(cache, disk), m, held, L)
Here(m, held, L) == SoundIn({cache}, m, held, L)

One(p) == {p} \ {NoPage}

(* The metadata there is: in the file, as written and as synced, and in    *)
(* memory.  A write that is cut leaves the head of one with the next page  *)
(* of another, so the freelist is to be sound for every such pair.         *)
Known == ({cache[0], disk[0]} \cap Header) \cup (IF up THEN {meta} ELSE {})

Mix(h, n) == [head |-> h, next |-> n]

Throughout(S, F, held, L) == \A k, l \in S : SoundIn(F, Mix(k.head, l.next), held, L)

(* Page p is no longer held and not yet free, for any metadata.            *)
Pending(p, L) ==
  /\ p \in PageId
  /\ Throughout(Known, Mixes(cache, disk), live \cup {p}, L)
  /\ disk[0] \in Header
  /\ ret = NoPage
  /\ faults = 0 => cache[0] = Metadata(meta)

(* What is left of the running call.  p is the page in transit: the one    *)
(* being handed out, or being freed.                                       *)
Between(p, L) ==
  /\ todo = <<>>
  /\ p = ret
  /\ ret # NoPage => disk = cache
  /\ up /\ (faults = 0 \/ ret # NoPage) => cache[0] = Metadata(meta)
  /\ up => Anywhere(meta, live \cup One(ret), L)

BeforeMeta(p, L) ==
  /\ todo = UpdateMetadata
  /\ ret \in {p, NoPage}
  /\ Anywhere(meta, live \cup One(ret), L)

LastSync(p, L) ==
  /\ todo = <<Sync>>
  /\ ret \in {p, NoPage}
  /\ Here(meta, live \cup One(ret), L)
  /\ faults = 0 \/ ret # NoPage => cache[0] = Metadata(meta)

Closing(p, L) ==
  /\ todo \in {UpdateMetadata \o <<CloseFd>>, <<Sync>> \o <<CloseFd>>, <<CloseFd>>}
  /\ p = NoPage /\ ret = NoPage
  /\ Anywhere(meta, live, L)

(* allocatePage takes the last id of the head page. *)
TakingId(p, L) ==
  LET head == AsFreelist(cache[Offset(meta.head)]) IN
  /\ todo = WriteFreelist(meta.head, [head EXCEPT !.ids = Front(@)]) \o UpdateMetadata
  /\ meta.head # INVALID_PAGE_ID
  /\ head.ids # <<>> /\ ret = Last(head.ids) /\ p = ret
  /\ Anywhere(meta, live, L)
  /\ disk[0] \in Header

TookId(p, L) ==
  /\ todo = <<Sync>> \o UpdateMetadata
  /\ ret # NoPage /\ p = ret
  /\ Here(meta, live \cup {ret}, L)
  /\ disk[0] \in Header

(* deallocatePage makes p the head. *)
WritingHead(p, L) ==
  /\ todo = WriteFreelist(p, FreelistPage(meta.head, <<>>)) \o <<SetHead(p)>> \o UpdateMetadata
  /\ Pending(p, L)

WroteHead(p, L) ==
  /\ todo = <<Sync>> \o <<SetHead(p)>> \o UpdateMetadata
  /\ cache[p] = FreelistPage(meta.head, <<>>)
  /\ Pending(p, L)

SettingHead(p, L) ==
  /\ todo = <<SetHead(p)>> \o UpdateMetadata
  /\ cache[p] = FreelistPage(meta.head, <<>>)
  /\ disk = cache
  /\ Pending(p, L)

(* deallocatePage lists p in the head. *)
ListingId(p, L) ==
  LET head == AsFreelist(cache[Offset(meta.head)]) IN
  /\ todo = WriteFreelist(meta.head, [head EXCEPT !.ids = Append(@, p)])
  /\ meta.head # INVALID_PAGE_ID
  /\ Pending(p, L)

Stage(p, L) ==
  \/ Between(p, L) \/ BeforeMeta(p, L) \/ LastSync(p, L) \/ Closing(p, L)
  \/ TakingId(p, L) \/ TookId(p, L)
  \/ WritingHead(p, L) \/ WroteHead(p, L) \/ SettingHead(p, L)
  \/ ListingId(p, L)

Typed ==
  /\ up \in BOOLEAN
  /\ meta \in [head : PageId \cup {INVALID_PAGE_ID}, next : 1..(MaxPage + 1)]
  /\ cache \in Files /\ disk \in Files
  /\ ret \in Slot
  /\ live \subseteq PageId
  /\ crashes \in 0..MaxCrashes /\ faults \in 0..MaxFaults

(* What the calls still have to do, and what has gone wrong beyond repair. *)
Step ==
  {PutPage(p, c) : p \in PageId, c \in Freed} \cup {PutMeta, Sync, CloseFd} \cup {SetHead(p) : p \in PageId}

Scripted == todo \in Seq(Step) /\ damage \in SUBSET {"offset", "list"}

(* The file holds no metadata only before the first fsync of it.           *)
Formatted ==
  /\ cache[0] \in {Absent, Torn} \cup Header /\ disk[0] \in {Absent, Torn} \cup Header
  /\ disk[0] \in Header => cache[0] \in Header
  /\ disk[0] \notin Header => live = {} /\ \A s \in PageId : cache[s] = Absent /\ disk[s] = Absent

Recoverable(p, L) == Throughout(Known, Mixes(cache, disk), live, L \cup One(p))

Accounted(p, L) ==
  /\ p \notin live
  /\ faults = 0 => Cardinality(L) <= crashes
  /\ Recoverable(p, L)
  /\ Stage(p, L)

Inv ==
  /\ Typed
  /\ ~up => todo = <<>> /\ ret = NoPage
  /\ Formatted
  /\ \E p \in Slot, L \in SUBSET PageId : Accounted(p, L)

(* Metadata is in page 0 only.                                             *)
Placed == \A s \in PageId : cache[s] \notin Header /\ disk[s] \notin Header

(* After damage the types are all that is left.                            *)
IInv == Typed /\ Scripted /\ Placed /\ (damage = {} => Inv)
-----------------------------------------------------------------------------
(* The file and its pages.                                                 *)

(* A page id addresses its own slot while the file is below 4 GiB.         *)
LEMMA OffsetIsPage == \A p \in Slot : p < OffsetWrap => Offset(p) = p
  BY DiskAssumption DEF Offset, Slot

LEMMA PagesAreSlots == PageId \subseteq Slot /\ 0 \in Slot /\ 0 \notin PageId
  BY DiskAssumption DEF PageId, Slot

LEMMA MixesAre ==
  ASSUME NEW a \in Files, NEW b \in Files
  PROVE  Mixes(a, b) = {f \in Files : \A s \in Slot : f[s] \in {a[s], b[s]}}
<1>1. ASSUME NEW f \in Mixes(a, b)
      PROVE  f \in Files /\ \A s \in Slot : f[s] \in {a[s], b[s]}
  BY <1>1 DEF Mixes, Files
<1>2. ASSUME NEW f \in Files, \A s \in Slot : f[s] \in {a[s], b[s]}
      PROVE  f \in Mixes(a, b)
  <2> DEFINE S == {s \in Slot : f[s] = a[s]}
  <2>1. f = [s \in Slot |-> IF s \in S THEN a[s] ELSE b[s]]
    BY <1>2 DEF Files
  <2> QED BY <2>1 DEF Mixes
<1> QED BY <1>1, <1>2

(* A page that was not written as a Freelist_Page names page 0 as the next *)
(* one, which no chain does.                                               *)
LEMMA FreelistCells ==
  ASSUME NEW x \in Cell
  PROVE  /\ AsFreelist(x).ids \in Seq(PageId)
         /\ AsFreelist(x).next \in PageId \cup {INVALID_PAGE_ID, 0}
         /\ AsFreelist(x).next # 0 => x \in Freed /\ AsFreelist(x) = x
<1>1. CASE x \in Freed
  BY <1>1 DEF AsFreelist, Freed
<1>2. CASE x \notin Freed
  <2>1. x.kind # "free"
    BY <1>2 DEF Cell, Absent, Torn, Payload, Header
  <2> QED BY <2>1 DEF AsFreelist, FreelistPage
<1> QED BY <1>1, <1>2

LEMMA ListCells ==
  ASSUME NEW x \in Cell, x.kind = "free"
  PROVE  x \in Freed /\ AsFreelist(x) = x /\ x.ids \in Seq(PageId)
<1>1. x \in Freed
  BY DEF Cell, Absent, Torn, Payload, Header
<1> QED BY <1>1 DEF AsFreelist, Freed

LEMMA ChainTypes ==
  ASSUME NEW c \in Chains
  PROVE  c \in Seq(PageId) /\ Len(c) \in 0..MaxPage /\ DOMAIN c = 1..Len(c)
BY DiskAssumption DEF Chains, SeqOf

LEMMA RangeOf ==
  ASSUME NEW s \in Seq(PageId)
  PROVE  /\ Range(s) = {s[i] : i \in 1..Len(s)}
         /\ Range(s) \subseteq PageId
BY DEF Range

(* A sequence of pages that repeats none is short enough to be a chain.    *)
LEMMA ShortEnough ==
  ASSUME NEW c \in Seq(PageId), IsInjective(c)
  PROVE  c \in Chains
<1>1. Len(c) <= MaxPage
  <2>1. IsFiniteSet(1..Len(c)) /\ Cardinality(1..Len(c)) = Len(c)
    <3>1. Len(c) \in Nat /\ 1 \in Int
      OBVIOUS
    <3> QED BY <3>1, FS_Interval
  <2>2. IsFiniteSet(PageId) /\ Cardinality(PageId) = MaxPage
    BY FS_Interval, DiskAssumption DEF PageId
  <2>3. c \in Injection(1..Len(c), PageId)
    BY DEF Injection, IsInjective
  <2> QED BY <2>1, <2>2, <2>3, FS_Injection
<1>2. c \in [1..Len(c) -> PageId] /\ Len(c) \in 0..MaxPage
  BY <1>1, DiskAssumption
<1> QED BY <1>2 DEF Chains, SeqOf

-----------------------------------------------------------------------------
(* What a write to the file does to a chain.                               *)

LEMMA ChainPages ==
  ASSUME NEW c \in Chains, NEW m, NEW f \in Files, NEW H, SoundAt(c, m, f, H)
  PROVE  /\ Range(c) \subseteq Free(c, f) /\ Range(c) \subseteq PageId
         /\ Range(c) \cap H = {}
         /\ \A x \in Range(c) :
              f[x] \in Freed /\ Ids(f, x) = f[x].ids /\ x \in Slot /\ Offset(x) = x
<1>1. Range(c) \subseteq PageId
  BY ChainTypes, RangeOf
<1>2. Range(c) \subseteq Free(c, f) /\ Range(c) \cap H = {}
  BY DEF Free, SoundAt, SoundBy
<1>3. ASSUME NEW x \in Range(c)
      PROVE  f[x] \in Freed /\ Ids(f, x) = f[x].ids /\ x \in Slot /\ Offset(x) = x
  <2>1. PICK i \in 1..Len(c) : c[i] = x
    BY ChainTypes, RangeOf
  <2>0. x \in PageId /\ x < OffsetWrap
    <3>1. x \in 1..(m.next - 1) /\ m.next \in 1..OffsetWrap
      BY <1>2 DEF SoundAt, SoundBy, Fits
    <3> QED BY <1>1, <3>1, DiskAssumption
  <2>2. x \in Slot /\ Offset(x) = x
    BY <2>0, OffsetIsPage, PagesAreSlots
  <2>3. AsFreelist(f[x]).next \in PageId \cup {INVALID_PAGE_ID}
    BY <2>1, <2>2, ChainTypes DEF SoundAt, SoundBy, IsChain
  <2>4. AsFreelist(f[x]).next # 0
    BY <2>3 DEF PageId, INVALID_PAGE_ID
  <2> QED BY <2>2, <2>4, FreelistCells DEF Ids, Files
<1> QED BY <1>1, <1>2, <1>3

LEMMA SameChain ==
  ASSUME NEW c \in Chains, NEW m, NEW n, n.head = m.head,
         NEW f \in Files, NEW g \in Files,
         \A x \in Range(c) : g[x] = f[x], NEW H, SoundAt(c, m, f, H)
  PROVE  IsChain(c, n, g) /\ ListsOnce(c, g) /\ Free(c, g) = Free(c, f)
<1>1. \A x \in Range(c) : Offset(x) = x /\ g[Offset(x)] = f[Offset(x)]
  BY ChainPages
<1> USE DEF SoundAt, SoundBy
<1>2. \A i \in DOMAIN c : c[i] \in Range(c)
  BY DEF Range
<1>3. IsChain(c, n, g)
  BY <1>1, <1>2 DEF IsChain
<1>4. \A x \in Range(c) : Ids(g, x) = Ids(f, x)
  BY <1>1 DEF Ids
<1>5. ListsOnce(c, g)
  BY <1>4 DEF ListsOnce
<1>6. Free(c, g) = Free(c, f)
  BY <1>4 DEF Free
<1> QED BY <1>3, <1>5, <1>6

(* A chain is found again in any file that differs from its own only in    *)
(* page 0 and in pages that the callers hold.  What they stop holding      *)
(* without freeing it is lost.                                             *)
LEMMA Transfer ==
  ASSUME NEW F \in SUBSET Files, NEW G \in SUBSET Files,
         NEW m, NEW n, n.head = m.head, n.next = m.next,
         NEW H, NEW K \in SUBSET H, NEW L, NEW L2, L \cup (H \ K) \subseteq L2,
         SoundIn(F, m, H, L),
         \A g \in G : \E f \in F : \A s \in Slot \ (H \cup {0}) : g[s] = f[s]
  PROVE  SoundIn(G, n, K, L2)
<1>1. PICK c \in Chains :
        \A f \in F : SoundFor(c, m, f, H, L)
  BY DEF SoundIn
<1> SUFFICES ASSUME NEW g \in G
             PROVE  SoundFor(c, n, g, K, L2)
  BY DEF SoundIn
<1>2. PICK f \in F : \A s \in Slot \ (H \cup {0}) : g[s] = f[s]
  OBVIOUS
<1>3. SoundFor(c, m, f, H, L)
  BY <1>1
<1>4. \A x \in Range(c) : g[x] = f[x]
  <2>1. Range(c) \subseteq PageId /\ Range(c) \cap H = {}
    BY <1>3, ChainPages DEF SoundFor
  <2> QED BY <1>2, <2>1, PagesAreSlots
<1>5. IsChain(c, n, g) /\ ListsOnce(c, g) /\ Free(c, g) = Free(c, f)
  BY <1>3, <1>4, SameChain DEF SoundFor
<1> QED BY <1>3, <1>5 DEF SoundFor, SoundAt, SoundBy, Leaked, Fits

(* g is f after a write to page q of chain c that keeps its successor.     *)
Rewrites(c, f, g, q, ids) ==
  /\ q \in Range(c)
  /\ \A s \in Range(c) \ {q} : g[s] = f[s]
  /\ g[q] \in Freed /\ g[q].next = f[q].next /\ g[q].ids = ids

LEMMA Rewritten ==
  ASSUME NEW c \in Chains, NEW m, NEW f \in Files, NEW g \in Files,
         NEW H, SoundAt(c, m, f, H), NEW q, NEW ids, Rewrites(c, f, g, q, ids)
  PROVE  /\ IsChain(c, m, g)
         /\ Ids(g, q) = ids
         /\ \A x \in Range(c) \ {q} : Ids(g, x) = Ids(f, x)
<1>1. \A x \in Range(c) : x \in Slot /\ Offset(x) = x /\ f[x] \in Freed
  BY ChainPages
<1>3. \A x \in Range(c) : g[x] \in Freed /\ g[x].next = f[x].next
  BY <1>1 DEF Rewrites
<1>4. \A x \in Range(c) : AsFreelist(g[Offset(x)]).next = AsFreelist(f[Offset(x)]).next
  BY <1>1, <1>3 DEF AsFreelist, Freed
<1>5. \A i \in DOMAIN c : c[i] \in Range(c)
  BY DEF Range
<1>6. IsChain(c, m, g)
  BY <1>4, <1>5 DEF SoundAt, SoundBy, IsChain
<1>7. Ids(g, q) = ids /\ \A x \in Range(c) \ {q} : Ids(g, x) = Ids(f, x)
  BY <1>1 DEF Rewrites, Ids, AsFreelist, Freed
<1> QED BY <1>6, <1>7

(* What the calls do to the ids of a freelist page. *)
Adds(old, ids, p) == ids = Append(old, p)
Drops(old, ids, r) == old # <<>> /\ ids = Front(old) /\ r = Last(old)

(* deallocatePage's list entry.                                            *)
LEMMA Listing ==
  ASSUME NEW c \in Chains, NEW m, NEW f \in Files, NEW g \in Files,
         NEW H, NEW L, SoundFor(c, m, f, H, L), NEW p \in PageId, p \in H,
         NEW q, NEW ids, Adds(f[q].ids, ids, p), Rewrites(c, f, g, q, ids)
  PROVE  SoundFor(c, m, g, H \ {p}, L)
<1>0. q \in Range(c) /\ SoundAt(c, m, f, H)
  BY DEF Rewrites, SoundFor
<1>1. f[q] \in Freed /\ f[q].ids \in Seq(PageId) /\ Ids(f, q) = f[q].ids
  <2>1. f[q] \in Freed /\ Ids(f, q) = f[q].ids
    BY <1>0, ChainPages
  <2> QED BY <2>1 DEF Freed
<1>2. p \notin Free(c, f)
  BY <1>0 DEF SoundAt, SoundBy
<1>3. /\ ids \in Seq(PageId) /\ Range(ids) = Range(Ids(f, q)) \cup {p} /\ IsInjective(ids)
  <2>1. p \notin Range(f[q].ids)
    BY <1>0, <1>1, <1>2 DEF Free
  <2>2. IsInjective(f[q].ids)
    BY <1>0, <1>1 DEF SoundAt, SoundBy, ListsOnce
  <2> QED BY <1>1, <2>1, <2>2, Appended DEF Adds
<1>4. IsChain(c, m, g) /\ Ids(g, q) = ids /\ \A x \in Range(c) \ {q} : Ids(g, x) = Ids(f, x)
  BY <1>0, Rewritten
<1>5. /\ IsChain(c, m, g)
      /\ \A x \in Range(c) : Ids(g, x) = IF x = q THEN ids ELSE Ids(f, x)
  BY <1>4
<1>6. Free(c, g) = Free(c, f) \cup {p}
  BY <1>0, <1>3, <1>5 DEF Free
<1>7. ListsOnce(c, g)
  <2>1. p \notin Range(c) /\ \A x \in Range(c) : p \notin Range(Ids(f, x))
    BY <1>2 DEF Free
  <2> QED BY <1>0, <1>3, <1>5, <2>1 DEF SoundAt, SoundBy, ListsOnce
<1>8. SoundAt(c, m, g, H \ {p})
  BY <1>0, <1>5, <1>6, <1>7 DEF SoundAt, SoundBy
<1> QED BY <1>6, <1>8 DEF SoundFor, Leaked

(* allocatePage's list entry.                                              *)
LEMMA Taking ==
  ASSUME NEW c \in Chains, NEW m, NEW f \in Files, NEW g \in Files,
         NEW H, NEW L, SoundFor(c, m, f, H, L), NEW q, NEW r, NEW ids, Drops(f[q].ids, ids, r),
         Rewrites(c, f, g, q, ids)
  PROVE  SoundFor(c, m, g, H \cup {r}, L)
<1>0. q \in Range(c) /\ SoundAt(c, m, f, H)
  BY DEF Rewrites, SoundFor
<1>1. /\ f[q] \in Freed /\ f[q].ids \in Seq(PageId)
      /\ Ids(f, q) = f[q].ids /\ IsInjective(f[q].ids)
  <2>1. f[q] \in Freed /\ Ids(f, q) = f[q].ids
    BY <1>0, ChainPages
  <2> QED BY <1>0, <2>1 DEF Freed, SoundAt, SoundBy, ListsOnce
<1>2. /\ ids \in Seq(PageId) /\ Range(ids) = Range(Ids(f, q)) \ {r} /\ IsInjective(ids)
      /\ r \in Range(Ids(f, q))
  BY <1>1, Popped DEF Drops
<1>3. r \in Free(c, f) /\ r \notin Range(c)
      /\ \A x \in Range(c) \ {q} : r \notin Range(Ids(f, x))
  BY <1>0, <1>2 DEF SoundAt, SoundBy, ListsOnce, Free
<1>4. IsChain(c, m, g) /\ Ids(g, q) = ids /\ \A x \in Range(c) \ {q} : Ids(g, x) = Ids(f, x)
  BY <1>0, Rewritten
<1>5. /\ IsChain(c, m, g)
      /\ \A x \in Range(c) : Ids(g, x) = IF x = q THEN ids ELSE Ids(f, x)
  BY <1>4
<1>6. Free(c, g) = Free(c, f) \ {r}
  BY <1>0, <1>2, <1>3, <1>5 DEF Free
<1>7. ListsOnce(c, g)
  BY <1>0, <1>2, <1>5 DEF SoundAt, SoundBy, ListsOnce
<1>8. SoundAt(c, m, g, H \cup {r})
  BY <1>0, <1>3, <1>5, <1>6, <1>7 DEF SoundAt, SoundBy
<1> QED BY <1>6, <1>8 DEF SoundFor, Leaked

-----------------------------------------------------------------------------
(* What a call does to every file a power cut can leave.                   *)

LEMMA MixTypes ==
  ASSUME NEW a \in Files, NEW b \in Files
  PROVE  /\ Mixes(a, b) \in SUBSET Files
         /\ a \in Mixes(a, b) /\ b \in Mixes(a, b)
         /\ Mixes(a, a) = {a}
<1>1. ASSUME NEW f \in Files, \A s \in Slot : f[s] = a[s] PROVE f = a
  BY <1>1 DEF Files
<1> QED BY <1>1, MixesAre

(* A write to page q is, or is not yet, in the file after a power cut.     *)
LEMMA OneWrite ==
  ASSUME NEW a \in Files, NEW b \in Files,
         NEW q \in Slot, NEW z \in Files, \A s \in Slot \ {q} : z[s] = a[s],
         NEW g \in Mixes(z, b)
  PROVE  \/ g \in Mixes(a, b)
         \/ g[q] = z[q] /\ \E f \in Mixes(a, b) : f[q] = a[q] /\ \A s \in Slot \ {q} : g[s] = f[s]
<1>2. /\ g \in Files /\ g[q] \in {z[q], b[q]}
      /\ \A s \in Slot \ {q} : g[s] \in {a[s], b[s]}
  BY MixesAre
<1>3. CASE g[q] = b[q]
  BY <1>2, <1>3, MixesAre
<1>4. CASE g[q] = z[q]
  <2> DEFINE f == [g EXCEPT ![q] = a[q]]
  <2>1. f \in Files /\ f[q] = a[q] /\ \A s \in Slot \ {q} : g[s] = f[s]
    BY <1>2 DEF Files
  <2> HIDE DEF f
  <2>2. \A s \in Slot : f[s] \in {a[s], b[s]}
    BY <1>2, <2>1
  <2>3. f \in Mixes(a, b)
    BY <2>1, <2>2, MixesAre
  <2> QED BY <1>4, <2>1, <2>3
<1> QED BY <1>2, <1>3, <1>4

LEMMA HeadPage ==
  ASSUME NEW c \in Chains, NEW m, m.head # INVALID_PAGE_ID,
         NEW f \in Files, NEW H, SoundAt(c, m, f, H)
  PROVE  /\ c # <<>> /\ m.head = c[1] /\ m.head \in Range(c)
         /\ m.head \in PageId \ H /\ Offset(m.head) = m.head
         /\ f[m.head] \in Freed
         /\ AsFreelist(f[Offset(m.head)]) = f[m.head]
         /\ f[m.head].ids \in Seq(PageId) /\ IsInjective(f[m.head].ids)
         /\ Range(f[m.head].ids) \subseteq Free(c, f)
<1>1. c # <<>> /\ m.head = c[1]
  BY DEF SoundAt, SoundBy, IsChain
<1>2. m.head \in Range(c)
  BY <1>1, ChainTypes, RangeOf
<1>3. /\ m.head \in PageId \ H /\ f[m.head] \in Freed /\ Ids(f, m.head) = f[m.head].ids
      /\ Offset(m.head) = m.head
  <2>1. /\ Range(c) \subseteq PageId /\ Range(c) \cap H = {}
        /\ \A x \in Range(c) : f[x] \in Freed /\ Ids(f, x) = f[x].ids /\ Offset(x) = x
    BY ChainPages
  <2> QED BY <1>2, <2>1
<1>5. f[m.head].ids \in Seq(PageId) /\ IsInjective(f[m.head].ids)
  BY <1>2, <1>3 DEF Freed, SoundAt, SoundBy, ListsOnce
<1>6. Range(f[m.head].ids) \subseteq Free(c, f)
  BY <1>2, <1>3 DEF Free
<1>7. AsFreelist(f[m.head]) = f[m.head]
  BY <1>3 DEF AsFreelist, Freed
<1> QED BY <1>1, <1>2, <1>3, <1>5, <1>6, <1>7

(* z is file a after a write to freelist page q that keeps its successor.  *)
OnePage(a, z, q) ==
  /\ \A s \in Slot \ {q} : z[s] = a[s]
  /\ a[q] \in Freed /\ z[q] \in Freed /\ z[q].next = a[q].next

(* Page p is added to the ids of page q.                                   *)
LEMMA ListingAnywhere ==
  ASSUME NEW a \in Files, NEW b \in Files, NEW m, NEW H, NEW L,
         SoundIn(Mixes(a, b), m, H, L),
         NEW p \in PageId, p \in H, NEW q \in PageId,
         NEW z \in Files, OnePage(a, z, q), Adds(a[q].ids, z[q].ids, p)
  PROVE  /\ SoundIn(Mixes(z, b), m, H \ {p}, L \cup {p})
         /\ q = m.head => SoundIn({z}, m, H \ {p}, L)
<1>0. /\ q \in Slot /\ \A s \in Slot \ {q} : z[s] = a[s]
      /\ a[q] \in Freed /\ z[q] \in Freed /\ z[q].next = a[q].next
  BY PagesAreSlots DEF OnePage
<1>1. PICK c \in Chains :
        \A f \in Mixes(a, b) : SoundFor(c, m, f, H, L)
  BY DEF SoundIn
<1>2. Range(c) \subseteq PageId /\ Range(c) \subseteq Slot
  BY ChainTypes, RangeOf, PagesAreSlots
<1>3. ASSUME NEW f \in Mixes(a, b), f[q] = a[q], NEW g \in Files, g[q] = z[q],
             \A s \in Slot \ {q} : g[s] = f[s], q \in Range(c)
      PROVE  SoundFor(c, m, g, H \ {p}, L)
  <2>1. SoundFor(c, m, f, H, L) /\ f \in Files
    BY <1>1, MixTypes
  <2>2. Rewrites(c, f, g, q, z[q].ids) /\ Adds(f[q].ids, z[q].ids, p)
    BY <1>0, <1>2, <1>3 DEF Rewrites
  <2> QED BY <2>1, <2>2, Listing
<1>4. ASSUME NEW f \in Mixes(a, b), NEW g \in Files, \A s \in Range(c) : g[s] = f[s]
      PROVE  SoundFor(c, m, g, H \ {p}, L \cup {p})
  <2>1. SoundFor(c, m, f, H, L) /\ f \in Files
    BY <1>1, MixTypes
  <2>2. IsChain(c, m, g) /\ ListsOnce(c, g) /\ Free(c, g) = Free(c, f)
    BY <1>4, <2>1, SameChain DEF SoundFor
  <2> QED BY <2>1, <2>2 DEF SoundFor, SoundAt, SoundBy, Leaked
<1>5. ASSUME NEW g \in Mixes(z, b)
      PROVE  SoundFor(c, m, g, H \ {p}, L \cup {p})
  <2>1. g \in Files
    BY <1>0, MixTypes
  <2>2. CASE g \in Mixes(a, b)
    BY <1>4, <2>1, <2>2
  <2>3. CASE g \notin Mixes(a, b)
    <3>1. g[q] = z[q]
      BY <1>0, <2>3, OneWrite
    <3>2. PICK f \in Mixes(a, b) : f[q] = a[q] /\ \A s \in Slot \ {q} : g[s] = f[s]
      BY <1>0, <2>3, OneWrite
    <3>3. CASE q \in Range(c)
      <4>1. SoundFor(c, m, g, H \ {p}, L)
        BY <1>3, <2>1, <3>1, <3>2, <3>3
      <4> QED BY <4>1 DEF SoundFor
    <3>4. CASE q \notin Range(c)
      BY <1>2, <1>4, <2>1, <3>2, <3>4
    <3> QED BY <3>3, <3>4
  <2> QED BY <2>2, <2>3
<1>6. ASSUME q = m.head PROVE SoundFor(c, m, z, H \ {p}, L)
  <2>1. a \in Mixes(a, b) /\ SoundAt(c, m, a, H)
    BY <1>1, MixTypes DEF SoundFor
  <2>2. q \in Range(c)
    BY <1>6, <2>1, HeadPage DEF PageId, INVALID_PAGE_ID
  <2> QED BY <1>0, <1>3, <2>1, <2>2
<1> QED BY <1>5, <1>6 DEF SoundIn

(* The last of the ids of page q is taken.                                 *)
LEMMA TakingAnywhere ==
  ASSUME NEW a \in Files, NEW b \in Files, NEW m, NEW H, NEW L,
         SoundIn(Mixes(a, b), m, H, L),
         NEW q \in PageId,
         NEW z \in Files, OnePage(a, z, q), NEW r, Drops(a[q].ids, z[q].ids, r)
  PROVE  /\ SoundIn(Mixes(z, b), m, H, L \cup {r})
         /\ q = m.head => SoundIn({z}, m, H \cup {r}, L)
<1>0. /\ q \in Slot /\ \A s \in Slot \ {q} : z[s] = a[s]
      /\ a[q] \in Freed /\ z[q] \in Freed /\ z[q].next = a[q].next
  BY PagesAreSlots DEF OnePage
<1>1. PICK c \in Chains :
        \A f \in Mixes(a, b) : SoundFor(c, m, f, H, L)
  BY DEF SoundIn
<1>2. Range(c) \subseteq PageId /\ Range(c) \subseteq Slot
  BY ChainTypes, RangeOf, PagesAreSlots
<1>3. ASSUME NEW f \in Mixes(a, b), f[q] = a[q], NEW g \in Files, g[q] = z[q],
             \A s \in Slot \ {q} : g[s] = f[s], q \in Range(c)
      PROVE  SoundFor(c, m, g, H \cup {r}, L)
  <2>1. SoundFor(c, m, f, H, L) /\ f \in Files
    BY <1>1, MixTypes
  <2>2. Rewrites(c, f, g, q, z[q].ids) /\ Drops(f[q].ids, z[q].ids, r)
    BY <1>0, <1>2, <1>3 DEF Rewrites
  <2> QED BY <2>1, <2>2, Taking
<1>4. ASSUME NEW f \in Mixes(a, b), NEW g \in Files, \A s \in Range(c) : g[s] = f[s]
      PROVE  SoundFor(c, m, g, H, L)
  <2>1. SoundFor(c, m, f, H, L) /\ f \in Files
    BY <1>1, MixTypes
  <2>2. IsChain(c, m, g) /\ ListsOnce(c, g) /\ Free(c, g) = Free(c, f)
    BY <1>4, <2>1, SameChain DEF SoundFor
  <2> QED BY <2>1, <2>2 DEF SoundFor, SoundAt, SoundBy, Leaked
<1>5. ASSUME NEW g \in Mixes(z, b)
      PROVE  SoundFor(c, m, g, H, L \cup {r})
  <2>1. g \in Files
    BY <1>0, MixTypes
  <2>2. CASE g \in Mixes(a, b)
    BY <1>4, <2>1, <2>2 DEF SoundFor
  <2>3. CASE g \notin Mixes(a, b)
    <3>1. g[q] = z[q]
      BY <1>0, <2>3, OneWrite
    <3>2. PICK f \in Mixes(a, b) : f[q] = a[q] /\ \A s \in Slot \ {q} : g[s] = f[s]
      BY <1>0, <2>3, OneWrite
    <3>3. CASE q \in Range(c)
      <4>1. SoundFor(c, m, g, H \cup {r}, L)
        BY <1>3, <2>1, <3>1, <3>2, <3>3
      <4> QED BY <4>1 DEF SoundFor, SoundAt, SoundBy, Leaked
    <3>4. CASE q \notin Range(c)
      BY <1>2, <1>4, <2>1, <3>2, <3>4 DEF SoundFor
    <3> QED BY <3>3, <3>4
  <2> QED BY <2>2, <2>3
<1>6. ASSUME q = m.head PROVE SoundFor(c, m, z, H \cup {r}, L)
  <2>1. a \in Mixes(a, b) /\ SoundAt(c, m, a, H)
    BY <1>1, MixTypes DEF SoundFor
  <2>2. q \in Range(c)
    BY <1>6, <2>1, HeadPage DEF PageId, INVALID_PAGE_ID
  <2> QED BY <1>0, <1>3, <2>1, <2>2
<1> QED BY <1>5, <1>6 DEF SoundIn

(* Page p, held by nobody any more, becomes the head: it names the old     *)
(* head and lists nothing.                                                 *)
LEMMA NewHead ==
  ASSUME NEW F \in SUBSET Files, NEW m, NEW n, NEW H, NEW L, SoundIn(F, m, H, L),
         NEW p \in PageId, p \in H, \A f \in F : f[p] = FreelistPage(m.head, <<>>),
         n.head = p, n.next = m.next
  PROVE  SoundIn(F, n, H \ {p}, L)
<1>1. PICK c \in Chains : \A f \in F : SoundFor(c, m, f, H, L)
  BY DEF SoundIn
<1>2. CASE F = {}
  BY <1>2 DEF SoundIn
<1>3. CASE F # {}
  <2> DEFINE k == <<p>> \o c
  <2>1. c \in Seq(PageId) /\ Len(c) \in Nat /\ DOMAIN c = 1..Len(c)
    BY ChainTypes DEF Chains, SeqOf
  <2>2. IsInjective(c) /\ p \notin Range(c)
    BY <1>1, <1>3, ChainPages DEF SoundFor, SoundAt, SoundBy, ListsOnce
  <2>3. /\ k \in Seq(PageId) /\ IsInjective(k) /\ Len(k) = Len(c) + 1
        /\ Range(k) = Range(c) \cup {p}
    BY <2>1, <2>2, Pushed
  <2>4. DOMAIN k = 1..(Len(c) + 1) /\ k[1] = p /\ \A i \in 1..Len(c) : k[i + 1] = c[i]
    BY <2>1, <2>3
  <2> HIDE DEF k
  <2>5. k \in Chains
    BY <2>3, ShortEnough
  <2> SUFFICES ASSUME NEW f \in F PROVE SoundFor(k, n, f, H \ {p}, L)
    BY <2>5 DEF SoundIn
  <2>6. SoundAt(c, m, f, H) /\ Leaked(c, m, f, H) \subseteq L
    BY <1>1 DEF SoundFor
  <2>7. Offset(p) = p /\ AsFreelist(f[p]) = FreelistPage(m.head, <<>>)
    <3>1. p \in 1..(m.next - 1) /\ m.next \in 1..OffsetWrap
      BY <2>6 DEF SoundAt, SoundBy, Fits
    <3>2. p < OffsetWrap
      BY <3>1, DiskAssumption DEF PageId
    <3> QED BY <3>2, OffsetIsPage, PagesAreSlots DEF AsFreelist, FreelistPage
  <2>8. Ids(f, p) = <<>> /\ AsFreelist(f[Offset(p)]).next = m.head
    BY <2>7 DEF Ids, FreelistPage
  <2>9. IsChain(k, n, f)
    <3>1. n.head = k[1] /\ k # <<>>
      BY <2>3, <2>4, <2>1
    <3>2. ASSUME NEW i \in DOMAIN k
          PROVE  AsFreelist(f[Offset(k[i])]).next
                   = IF i = Len(k) THEN INVALID_PAGE_ID ELSE k[i + 1]
      <4>1. CASE i = 1
        <5>1. m.head = IF c = <<>> THEN INVALID_PAGE_ID ELSE c[1]
          BY <2>6 DEF SoundAt, SoundBy, IsChain
        <5>2. c = <<>> <=> Len(c) = 0
          BY <2>1
        <5>3. Len(c) # 0 => k[1 + 1] = c[1]
          BY <2>1, <2>4
        <5> QED BY <2>1, <2>3, <2>4, <2>8, <4>1, <5>1, <5>2, <5>3
      <4>2. CASE i # 1
        <5>1. i - 1 \in DOMAIN c /\ (i - 1) + 1 = i
          BY <2>1, <2>4, <4>2
        <5>2. k[i] = c[i - 1]
          BY <2>1, <2>4, <5>1
        <5>3. AsFreelist(f[Offset(c[i - 1])]).next
                = IF i - 1 = Len(c) THEN INVALID_PAGE_ID ELSE c[i]
          BY <2>6, <5>1 DEF SoundAt, SoundBy, IsChain
        <5>4. i - 1 # Len(c) => k[i + 1] = c[i]
          BY <2>1, <2>4, <5>1
        <5> QED BY <2>1, <2>3, <2>4, <5>1, <5>2, <5>3, <5>4
      <4> QED BY <4>1, <4>2
    <3> QED BY <3>1, <3>2 DEF IsChain
  <2>10. Range(Ids(f, p)) = {}
    BY <2>8 DEF Range
  <2>11. Free(k, f) = Free(c, f) \cup {p}
    BY <2>3, <2>10 DEF Free
  <2>12. p \notin Free(c, f)
    BY <2>6 DEF SoundAt, SoundBy
  <2>13. ListsOnce(k, f)
    <3>1. \A x \in Range(c) : p \notin Range(Ids(f, x))
      BY <2>12 DEF Free
    <3>2. IsInjective(Ids(f, p))
      BY <2>8 DEF IsInjective
    <3> QED BY <2>3, <2>6, <2>10, <3>1, <3>2 DEF SoundAt, SoundBy, ListsOnce
  <2> QED BY <2>6, <2>9, <2>11, <2>13 DEF SoundFor, SoundAt, SoundBy, Leaked, Fits
<1> QED BY <1>2, <1>3

(* The head, which lists nothing, is handed out.  A file in which it still *)
(* lists ids has lost them already: no other mix of its pages has them.    *)
LEMMA PoppedHead ==
  ASSUME NEW a \in Files, NEW b \in Files, NEW m, NEW n, NEW H, NEW L,
         SoundIn(Mixes(a, b), m, H, L),
         m.head # INVALID_PAGE_ID, a[m.head].ids = <<>>,
         n.head = a[m.head].next, n.next = m.next
  PROVE  SoundIn(Mixes(a, b), n, H \cup {m.head}, L)
<1>1. PICK c \in Chains : \A f \in Mixes(a, b) : SoundFor(c, m, f, H, L)
  BY DEF SoundIn
<1> DEFINE h == m.head
           k == Tail(c)
<1>2. /\ c # <<>> /\ h = c[1] /\ h \in Range(c) /\ h \in PageId
      /\ \A f \in Mixes(a, b) : f \in Files /\ AsFreelist(f[Offset(h)]) = f[h]
  BY <1>1, MixTypes, HeadPage DEF SoundFor
<1>3. c \in Seq(PageId) /\ Len(c) \in Nat \ {0} /\ DOMAIN c = 1..Len(c)
  BY <1>2, ChainTypes DEF Chains, SeqOf
<1>4. IsInjective(c)
  BY <1>1, MixTypes DEF SoundFor, SoundAt, SoundBy, ListsOnce
<1>5. /\ k \in Seq(PageId) /\ Len(k) = Len(c) - 1 /\ IsInjective(k)
      /\ \A i \in 1..(Len(c) - 1) : k[i] = c[i + 1]
      /\ Range(k) = Range(c) \ {h}
  BY <1>2, <1>3, <1>4, Rest
<1>6. DOMAIN k = 1..(Len(c) - 1)
  BY <1>3, <1>5
<1> HIDE DEF k
<1>7. k \in Chains
  BY <1>5, ShortEnough
<1> SUFFICES ASSUME NEW f \in Mixes(a, b) PROVE SoundFor(k, n, f, H \cup {h}, L)
  BY <1>7 DEF SoundIn
<1>8. SoundAt(c, m, f, H) /\ Leaked(c, m, f, H) \subseteq L
  BY <1>1 DEF SoundFor
<1>9. IsChain(k, n, f)
  <2>1. n.head = IF k = <<>> THEN INVALID_PAGE_ID ELSE k[1]
    <3>1. SoundAt(c, m, a, H) /\ AsFreelist(a[Offset(h)]) = a[h]
      BY <1>1, <1>2, MixTypes DEF SoundFor
    <3>2. a[h].next = IF 1 = Len(c) THEN INVALID_PAGE_ID ELSE c[2]
      <4>1. 1 \in DOMAIN c /\ c[1] = h
        BY <1>2, <1>3
      <4>2. AsFreelist(a[Offset(c[1])]).next = IF 1 = Len(c) THEN INVALID_PAGE_ID ELSE c[1 + 1]
        BY <3>1, <4>1 DEF SoundAt, SoundBy, IsChain
      <4> QED BY <3>1, <4>1, <4>2
    <3>3. k = <<>> <=> Len(c) = 1
      BY <1>3, <1>5
    <3>4. Len(c) # 1 => k[1] = c[2]
      BY <1>3, <1>5
    <3> QED BY <3>2, <3>3, <3>4
  <2>2. ASSUME NEW i \in DOMAIN k
        PROVE  AsFreelist(f[Offset(k[i])]).next
                 = IF i = Len(k) THEN INVALID_PAGE_ID ELSE k[i + 1]
    <3>1. i + 1 \in DOMAIN c /\ k[i] = c[i + 1]
      BY <1>3, <1>5, <1>6
    <3>2. AsFreelist(f[Offset(c[i + 1])]).next
            = IF i + 1 = Len(c) THEN INVALID_PAGE_ID ELSE c[(i + 1) + 1]
      BY <1>8, <3>1 DEF SoundAt, SoundBy, IsChain
    <3>3. i # Len(k) => k[i + 1] = c[(i + 1) + 1]
      BY <1>3, <1>5, <1>6
    <3>4. i = Len(k) <=> i + 1 = Len(c)
      BY <1>3, <1>5, <1>6
    <3> QED BY <3>1, <3>2, <3>3, <3>4
  <2> QED BY <2>1, <2>2 DEF IsChain
<1>10. ListsOnce(k, f)
  BY <1>5, <1>8 DEF SoundAt, SoundBy, ListsOnce
<1>11. Free(c, f) = Free(k, f) \cup {h} \cup Range(Ids(f, h))
  BY <1>2, <1>5 DEF Free
<1>12. h \notin Free(k, f)
  BY <1>2, <1>5, <1>8 DEF SoundAt, SoundBy, ListsOnce, Free
<1>13. SoundAt(k, n, f, H \cup {h})
  <2>1. Free(k, f) \subseteq Free(c, f) /\ h \in Free(c, f)
    BY <1>11
  <2> QED BY <1>8, <1>9, <1>10, <1>12, <2>1 DEF SoundAt, SoundBy, Fits
<1>14. ASSUME NEW x \in Leaked(k, n, f, H \cup {h}) PROVE x \in L
  <2>1. x \in 1..(m.next - 1) /\ x \notin H /\ x # h /\ x \notin Free(k, f)
    BY <1>14 DEF Leaked
  <2>2. CASE x \notin Range(Ids(f, h))
    BY <1>8, <1>11, <2>1, <2>2 DEF Leaked
  <2>3. CASE x \in Range(Ids(f, h))
    <3> DEFINE g == [f EXCEPT ![h] = a[h]]
    <3>1. f \in Files /\ a \in Files /\ h \in Slot
      BY <1>2, PagesAreSlots
    <3>2. /\ g \in Files /\ g[h] = a[h]
          /\ \A s \in Slot \ {h} : g[s] = f[s]
      BY <3>1 DEF Files
    <3> HIDE DEF g
    <3>3. \A s \in Slot : g[s] \in {a[s], b[s]}
      BY <3>1, <3>2, MixesAre
    <3>4. g \in Mixes(a, b)
      BY <3>2, <3>3, MixesAre
    <3>5. Ids(g, h) = <<>>
      <4>1. AsFreelist(g[Offset(h)]) = g[h]
        BY <1>2, <3>4
      <4> QED BY <3>2, <4>1 DEF Ids
    <3>6. \A y \in Range(c) \ {h} : Ids(g, y) = Ids(f, y)
      <4>1. \A y \in Range(c) \ {h} : y \in Slot \ {h} /\ Offset(y) = y
        <5>1. f \in Files /\ SoundAt(c, m, f, H)
          BY <1>2, <1>8
        <5>2. \A y \in Range(c) : y \in Slot /\ Offset(y) = y
          BY <5>1, ChainPages
        <5> QED BY <5>2
      <4> QED BY <3>2, <4>1 DEF Ids
    <3>7. x \notin Range(c) /\ \A y \in Range(c) \ {h} : x \notin Range(Ids(f, y))
      BY <1>2, <1>8, <2>3 DEF SoundAt, SoundBy, ListsOnce
    <3>8. Range(Ids(g, h)) = {}
      BY <3>5 DEF Range
    <3>9. x \notin Free(c, g)
      BY <3>6, <3>7, <3>8 DEF Free
    <3> QED BY <1>1, <2>1, <3>4, <3>9 DEF SoundFor, Leaked
  <2> QED BY <2>2, <2>3
<1> QED BY <1>13, <1>14 DEF SoundFor

(* A page id never used before is handed out. *)
LEMMA FreshPage ==
  ASSUME NEW F \in SUBSET Files, NEW m, NEW n, NEW H, NEW L, SoundIn(F, m, H, L),
         m.next \in Nat \ {0}, n.head = m.head, n.next = m.next + 1, n.next <= OffsetWrap
  PROVE  SoundIn(F, n, H \cup {m.next}, L)
<1>1. PICK c \in Chains : \A f \in F : SoundFor(c, m, f, H, L)
  BY DEF SoundIn
<1>2. 1..(n.next - 1) = 1..(m.next - 1) \cup {m.next} /\ m.next \notin 1..(m.next - 1)
  OBVIOUS
<1> SUFFICES ASSUME NEW f \in F PROVE SoundFor(c, n, f, H \cup {m.next}, L)
  BY DEF SoundIn
<1>3. SoundAt(c, m, f, H) /\ Leaked(c, m, f, H) \subseteq L
  BY <1>1 DEF SoundFor
<1>4. IsChain(c, n, f)
  BY <1>3 DEF SoundAt, SoundBy, IsChain
<1>5. m.next \notin Free(c, f) /\ Free(c, f) \cup H \subseteq 1..(m.next - 1)
  BY <1>2, <1>3 DEF SoundAt, SoundBy
<1>6. SoundAt(c, n, f, H \cup {m.next})
  <2>1. Fits(n)
    BY <1>3, DiskAssumption DEF SoundAt, Fits
  <2> QED BY <1>2, <1>3, <1>4, <1>5, <2>1 DEF SoundAt, SoundBy
<1>7. Leaked(c, n, f, H \cup {m.next}) \subseteq L
  BY <1>2, <1>3 DEF Leaked
<1> QED BY <1>6, <1>7 DEF SoundFor

-----------------------------------------------------------------------------
(* The files of a power cut, before and after a step.                      *)

(* The same promise is kept for fewer files, by metadata that says the     *)
(* same, for fewer holders.                                                *)
LEMMA Weaker ==
  ASSUME NEW F \in SUBSET Files, NEW m, NEW H, NEW L, SoundIn(F, m, H, L),
         NEW G \in SUBSET F, NEW n, n.head = m.head, n.next = m.next,
         NEW K \in SUBSET H, NEW L2, L \cup (H \ K) \subseteq L2
  PROVE  SoundIn(G, n, K, L2)
<1>1. G \in SUBSET Files /\ \A g \in G : \E f \in F : \A s \in Slot \ (H \cup {0}) : g[s] = f[s]
  OBVIOUS
<1> QED BY <1>1, Transfer

(* It survives a write to page 0 or to a page that somebody holds.         *)
LEMMA Overwritten ==
  ASSUME NEW a \in Files, NEW b \in Files, NEW m, NEW H, NEW L,
         SoundIn(Mixes(a, b), m, H, L),
         NEW q \in Slot, q \in H \cup {0},
         NEW z \in Files, \A s \in Slot \ {q} : z[s] = a[s]
  PROVE  SoundIn(Mixes(z, b), m, H, L)
<1>1. Mixes(a, b) \in SUBSET Files /\ Mixes(z, b) \in SUBSET Files
  BY MixTypes
<1>2. ASSUME NEW g \in Mixes(z, b)
      PROVE  \E f \in Mixes(a, b) : \A s \in Slot \ (H \cup {0}) : g[s] = f[s]
  <2>1. CASE g \in Mixes(a, b)
    BY <2>1
  <2>2. CASE g \notin Mixes(a, b)
    <3>1. PICK f \in Mixes(a, b) : f[q] = a[q] /\ \A s \in Slot \ {q} : g[s] = f[s]
      BY <2>2, OneWrite
    <3> QED BY <3>1
  <2> QED BY <2>1, <2>2
<1>3. H \in SUBSET H /\ L \cup (H \ H) \subseteq L
  OBVIOUS
<1> QED BY <1>1, <1>2, <1>3, Transfer

(* A page that was cut: pages of the freelist never are, and of metadata   *)
(* only whole ids are left.                                                *)
LEMMA TornPages ==
  ASSUME NEW a \in Cell, NEW b \in Cell, NEW x \in Tears(a, b)
  PROVE  /\ x \in Cell
         /\ ~(a \in Freed /\ b \in Freed)
         /\ a \in Header /\ b \in Header =>
              x \in Header /\ x.head \in {a.head, b.head} /\ x.next \in {a.next, b.next}
         /\ ~(a \in Header /\ b \in Header) => x = Torn
<1>1. /\ a.kind = "meta" <=> a \in Header
      /\ b.kind = "meta" <=> b \in Header
      /\ a.kind = "free" <=> a \in Freed
      /\ b.kind = "free" <=> b \in Freed
  BY DEF Cell, Absent, Torn, Payload, Freed, Header
<1>2. CASE a \in Header /\ b \in Header
  <2>1. {a.kind, b.kind} = {"meta"}
    BY <1>1, <1>2
  <2>2. x \in {Metadata([head |-> a.head, next |-> b.next]),
               Metadata([head |-> b.head, next |-> a.next])}
    BY <2>1 DEF Tears
  <2>3. x \in Header /\ x.head \in {a.head, b.head} /\ x.next \in {a.next, b.next}
    BY <1>2, <2>2 DEF Metadata, Header
  <2>4. a \notin Freed
    BY <1>1, <1>2
  <2> QED BY <1>2, <2>3, <2>4 DEF Cell
<1>3. CASE ~(a \in Header /\ b \in Header)
  <2>1. {a.kind, b.kind} # {"meta"}
    BY <1>1, <1>3
  <2>2. {a.kind, b.kind} # {"free"} /\ x = Torn
    BY <2>1 DEF Tears
  <2>3. ~(a \in Freed /\ b \in Freed)
    BY <1>1, <2>2
  <2> QED BY <1>3, <2>2, <2>3 DEF Cell
<1> QED BY <1>2, <1>3

(* g is a file whose every page is cache's or disk's or, where these       *)
(* differ, a part of both.                                                 *)
Survivor(g) ==
  /\ g \in Files
  /\ \A s \in Slot : \/ g[s] \in {cache[s], disk[s]}
                     \/ cache[s] # disk[s] /\ g[s] \in Tears(disk[s], cache[s])

LEMMA PowerCutPages ==
  ASSUME cache \in Files, disk \in Files, NEW g \in AfterPowerCut
  PROVE  Survivor(g)
<1> DEFINE left == [s \in Unsynced |-> Survivals(s)]
<1>1. PICK c \in [DOMAIN left -> UNION Range(left)] :
        /\ \A s \in DOMAIN left : c[s] \in left[s]
        /\ g = [s \in Slot |-> IF s \in DOMAIN left THEN c[s] ELSE cache[s]]
  BY DEF AfterPowerCut
<1>2. DOMAIN left = Unsynced /\ \A s \in Unsynced : left[s] = Survivals(s)
  OBVIOUS
<1> HIDE DEF left
<1>3. ASSUME NEW s \in Slot
      PROVE  \/ g[s] \in {cache[s], disk[s]}
             \/ cache[s] # disk[s] /\ g[s] \in Tears(disk[s], cache[s])
  <2>1. CASE s \in Unsynced
    <3>1. g[s] \in Survivals(s)
      BY <1>1, <1>2, <2>1
    <3>2. cache[s] # disk[s]
      BY <2>1 DEF Unsynced
    <3> QED BY <3>1, <3>2 DEF Survivals
  <2>2. CASE s \notin Unsynced
    BY <1>1, <1>2, <2>2
  <2> QED BY <2>1, <2>2
<1>4. ASSUME NEW s \in Slot PROVE g[s] \in Cell
  <2>1. cache[s] \in Cell /\ disk[s] \in Cell
    BY DEF Files
  <2> QED BY <1>3, <2>1, TornPages
<1>5. g = [s \in Slot |-> g[s]]
  BY <1>1
<1> QED BY <1>3, <1>4, <1>5 DEF Survivor, Files

(* Every chain survives: a page of it is a page of the freelist in cache   *)
(* and in disk.                                                            *)
LEMMA ChainSurvives ==
  ASSUME cache \in Files, disk \in Files, NEW g, Survivor(g),
         NEW m, NEW H, NEW L, SoundIn(Mixes(cache, disk), m, H, L)
  PROVE  SoundIn({g}, m, H, L)
<1>1. PICK c \in Chains : \A f \in Mixes(cache, disk) : SoundFor(c, m, f, H, L)
  BY DEF SoundIn
<1> DEFINE f == [s \in Slot |-> IF g[s] \in {cache[s], disk[s]} THEN g[s] ELSE cache[s]]
<1>2. f \in Files /\ f \in Mixes(cache, disk)
  <2>1. f \in Files
    BY DEF Files, Survivor
  <2>2. \A s \in Slot : f[s] \in {cache[s], disk[s]}
    OBVIOUS
  <2> HIDE DEF f
  <2> QED BY <2>1, <2>2, MixesAre
<1>3. ASSUME NEW x \in Range(c) PROVE g[x] = f[x]
  <2>1. cache[x] \in Freed /\ disk[x] \in Freed /\ x \in Slot
    <3>1. SoundAt(c, m, cache, H) /\ SoundAt(c, m, disk, H)
      BY <1>1, MixTypes DEF SoundFor
    <3> QED BY <3>1, ChainPages
  <2>2. Tears(disk[x], cache[x]) = {}
    <3>1. cache[x] \in Cell /\ disk[x] \in Cell
      BY <2>1 DEF Cell
    <3> QED BY <2>1, <3>1, TornPages
  <2> QED BY <2>1, <2>2 DEF Survivor
<1> HIDE DEF f
<1>4. SoundFor(c, m, f, H, L) /\ g \in Files
  BY <1>1, <1>2 DEF Survivor
<1>5. IsChain(c, m, g) /\ ListsOnce(c, g) /\ Free(c, g) = Free(c, f)
  BY <1>2, <1>3, <1>4, SameChain DEF SoundFor
<1>6. SoundFor(c, m, g, H, L)
  BY <1>4, <1>5 DEF SoundFor, SoundAt, SoundBy, Leaked
<1> QED BY <1>6 DEF SoundIn

LEMMA EmptyFile ==
  ASSUME NEW F, NEW m, m.head = INVALID_PAGE_ID, m.next = 1, NEW L
  PROVE  SoundIn(F, m, {}, L)
<1>1. <<>> \in Chains
  <2>1. <<>> \in Seq(PageId) /\ IsInjective(<<>>)
    BY DEF IsInjective
  <2> QED BY <2>1, ShortEnough
<1> SUFFICES ASSUME NEW f \in F PROVE SoundFor(<<>>, m, f, {}, L)
  BY <1>1 DEF SoundIn
<1>2. Range(<<>>) = {}
  BY DEF Range
<1>3. IsChain(<<>>, m, f)
  BY DEF IsChain
<1>4. Free(<<>>, f) = {} /\ ListsOnce(<<>>, f)
  BY <1>2 DEF Free, ListsOnce, IsInjective
<1>5. 1..(m.next - 1) = {}
  OBVIOUS
<1>6. Fits(m)
  BY DiskAssumption DEF Fits
<1> QED BY <1>3, <1>4, <1>5, <1>6 DEF SoundFor, SoundAt, SoundBy, Leaked

(* A page in nobody's hands that the allocator can hand out. *)
LEMMA NotHeld ==
  ASSUME NEW a \in Files, NEW b \in Files, NEW m, NEW H, NEW L,
         SoundIn(Mixes(a, b), m, H, L), m.head # INVALID_PAGE_ID
  PROVE  /\ m.head \in PageId \ H /\ a[m.head] \in Freed
         /\ AsFreelist(a[Offset(m.head)]) = a[m.head] /\ Offset(m.head) = m.head
         /\ a[m.head].ids # <<>> =>
              Last(a[m.head].ids) \in PageId \ H
<1>1. PICK c \in Chains : \A f \in Mixes(a, b) : SoundFor(c, m, f, H, L)
  BY DEF SoundIn
<1>2. SoundAt(c, m, a, H)
  BY <1>1, MixTypes DEF SoundFor
<1>3. /\ m.head \in PageId \ H /\ a[m.head] \in Freed
      /\ AsFreelist(a[Offset(m.head)]) = a[m.head]
      /\ a[m.head].ids \in Seq(PageId)
      /\ Range(a[m.head].ids) \subseteq Free(c, a)
      /\ Offset(m.head) = m.head
  BY <1>2, HeadPage
<1>5. ASSUME a[m.head].ids # <<>> PROVE Last(a[m.head].ids) \in PageId \ H
  <2>1. Last(a[m.head].ids) \in Range(a[m.head].ids)
    BY <1>3, <1>5, Popped
  <2>2. Range(a[m.head].ids) \subseteq PageId
    BY <1>3, RangeOf
  <2> QED BY <1>2, <1>3, <2>1, <2>2 DEF SoundAt, SoundBy
<1> QED BY <1>3, <1>5

(* A page that somebody holds is in its own slot.                          *)
LEMMA InPlace ==
  ASSUME NEW a \in Files, NEW b \in Files, NEW m, NEW H, NEW L,
         SoundIn(Mixes(a, b), m, H, L), NEW p \in H, p \in PageId
  PROVE  p \in Slot /\ Offset(p) = p
<1>1. PICK c \in Chains : \A f \in Mixes(a, b) : SoundFor(c, m, f, H, L)
  BY DEF SoundIn
<1>2. SoundAt(c, m, a, H)
  BY <1>1, MixTypes DEF SoundFor
<1>3. p \in 1..(m.next - 1) /\ m.next \in 1..OffsetWrap
  BY <1>2 DEF SoundAt, SoundBy, Fits
<1>4. p < OffsetWrap
  BY <1>3, DiskAssumption DEF PageId
<1> QED BY <1>4, OffsetIsPage, PagesAreSlots

LEMMA NextNotHeld ==
  ASSUME NEW a \in Files, NEW b \in Files, NEW m, NEW H, NEW L,
         SoundIn(Mixes(a, b), m, H, L), m.next \in Nat
  PROVE  m.next \notin H
<1>1. PICK c \in Chains : \A f \in Mixes(a, b) : SoundFor(c, m, f, H, L)
  BY DEF SoundIn
<1>2. SoundAt(c, m, a, H)
  BY <1>1, MixTypes DEF SoundFor
<1> QED BY <1>2 DEF SoundAt, SoundBy

-----------------------------------------------------------------------------
(* The steps of a call. *)

LEMMA Steps ==
  /\ \A p, x : PutPage(p, x).do = "pwrite" /\ PutPage(p, x).page = p
                /\ PutPage(p, x).content = x
  /\ PutMeta.do = "pwrite_metadata" /\ Sync.do = "fsync" /\ CloseFd.do = "close"
  /\ \A p : SetHead(p).do = "set_head" /\ SetHead(p).page = p
BY DEF PutPage, PutMeta, Sync, CloseFd, SetHead

(* A call that has begun with first and has rest still to do.              *)
Doing(t, first, rest) == t # <<>> /\ Head(t) = first /\ Tail(t) = rest

LEMMA Begun ==
  ASSUME NEW S, NEW s \in Seq(S), NEW t \in Seq(S), NEW x \in S, NEW y \in S
  PROVE  /\ Doing(<<x>> \o s, x, s)
         /\ Doing(<<x, y>> \o s, x, <<y>> \o s)
         /\ Doing(<<x, y>> \o t \o s, x, <<y>> \o t \o s)
         /\ Doing(<<x>> \o t \o s, x, t \o s)
<1>1. Doing(<<x>> \o s, x, s)
  BY DEF Doing
<1>2. Doing(<<x, y>> \o s, x, <<y>> \o s)
  BY DEF Doing
<1>3. Doing(<<x, y>> \o t \o s, x, <<y>> \o t \o s)
  BY DEF Doing
<1>4. Doing(<<x>> \o t \o s, x, t \o s)
  BY DEF Doing
<1> QED BY <1>1, <1>2, <1>3, <1>4

LEMMA Scripts ==
  /\ Doing(UpdateMetadata, PutMeta, <<Sync>>)
  /\ Doing(<<Sync>>, Sync, <<>>)
  /\ Doing(UpdateMetadata \o <<CloseFd>>, PutMeta, <<Sync>> \o <<CloseFd>>)
  /\ Doing(<<Sync>> \o <<CloseFd>>, Sync, <<CloseFd>>)
  /\ Doing(<<CloseFd>>, CloseFd, <<>>)
  /\ Doing(<<Sync>> \o UpdateMetadata, Sync, UpdateMetadata)
<1> DEFINE S == {PutMeta, Sync, CloseFd}
<1>1. UpdateMetadata \in Seq(S) /\ <<CloseFd>> \in Seq(S)
  BY DEF UpdateMetadata
<1>2. PutMeta \in S /\ Sync \in S
  OBVIOUS
<1>3. Doing(<<PutMeta, Sync>>, PutMeta, <<Sync>>)
  BY DEF Doing
<1>4. Doing(<<Sync>>, Sync, <<>>) /\ Doing(<<CloseFd>>, CloseFd, <<>>)
  BY DEF Doing
<1> HIDE DEF S
<1>5. Doing(<<PutMeta, Sync>> \o <<CloseFd>>, PutMeta, <<Sync>> \o <<CloseFd>>)
  BY <1>1, <1>2, Begun
<1>6. Doing(<<Sync>> \o <<CloseFd>>, Sync, <<CloseFd>>)
  BY <1>1, <1>2, Begun
<1>7. Doing(<<Sync>> \o UpdateMetadata, Sync, UpdateMetadata)
  BY <1>1, <1>2, Begun
<1> QED BY <1>3, <1>4, <1>5, <1>6, <1>7 DEF UpdateMetadata

LEMMA PageScripts ==
  ASSUME NEW p, NEW x
  PROVE  /\ Doing(WriteFreelist(p, x), PutPage(p, x), <<Sync>>)
         /\ Doing(WriteFreelist(p, x) \o UpdateMetadata, PutPage(p, x), <<Sync>> \o UpdateMetadata)
         /\ Doing(WriteFreelist(p, x) \o <<SetHead(p)>> \o UpdateMetadata,
                  PutPage(p, x), <<Sync>> \o <<SetHead(p)>> \o UpdateMetadata)
         /\ Doing(<<Sync>> \o <<SetHead(p)>> \o UpdateMetadata, Sync, <<SetHead(p)>> \o UpdateMetadata)
         /\ Doing(<<SetHead(p)>> \o UpdateMetadata, SetHead(p), UpdateMetadata)
<1> DEFINE S == {PutMeta, Sync, SetHead(p), PutPage(p, x)}
<1>1. UpdateMetadata \in Seq(S) /\ <<SetHead(p)>> \in Seq(S)
  BY DEF UpdateMetadata
<1>2. PutPage(p, x) \in S /\ Sync \in S /\ SetHead(p) \in S
  OBVIOUS
<1>3. Doing(<<PutPage(p, x), Sync>>, PutPage(p, x), <<Sync>>)
  BY DEF Doing
<1> HIDE DEF S
<1>4. Doing(<<PutPage(p, x), Sync>> \o UpdateMetadata, PutPage(p, x), <<Sync>> \o UpdateMetadata)
  BY <1>1, <1>2, Begun
<1>5. Doing(<<PutPage(p, x), Sync>> \o <<SetHead(p)>> \o UpdateMetadata,
            PutPage(p, x), <<Sync>> \o <<SetHead(p)>> \o UpdateMetadata)
  BY <1>1, <1>2, Begun
<1>6. Doing(<<Sync>> \o <<SetHead(p)>> \o UpdateMetadata, Sync, <<SetHead(p)>> \o UpdateMetadata)
  BY <1>1, <1>2, Begun
<1>7. Doing(<<SetHead(p)>> \o UpdateMetadata, SetHead(p), UpdateMetadata)
  BY <1>1, <1>2, Begun
<1> QED BY <1>3, <1>4, <1>5, <1>6, <1>7 DEF WriteFreelist

(* The stage a call is in, by the step it does next.                       *)
LEMMA Located ==
  ASSUME NEW p, NEW L, Stage(p, L)
  PROVE  /\ todo = <<>> => Between(p, L)
         /\ todo # <<>> /\ Head(todo).do = "pwrite" =>
              TakingId(p, L) \/ WritingHead(p, L) \/ ListingId(p, L)
         /\ todo # <<>> /\ Head(todo) = PutMeta =>
              BeforeMeta(p, L) \/ (Closing(p, L) /\ todo = UpdateMetadata \o <<CloseFd>>)
         /\ todo # <<>> /\ Head(todo) = Sync =>
              \/ LastSync(p, L) \/ TookId(p, L) \/ WroteHead(p, L)
              \/ Closing(p, L) /\ todo = <<Sync>> \o <<CloseFd>>
         /\ todo # <<>> /\ Head(todo).do = "set_head" => SettingHead(p, L)
         /\ todo # <<>> /\ Head(todo) = CloseFd => Closing(p, L) /\ todo = <<CloseFd>>
<1> USE DEF Doing
<1>1. CASE Between(p, L)
  BY <1>1 DEF Between
<1>2. CASE BeforeMeta(p, L)
  BY <1>2, Scripts, Steps DEF BeforeMeta
<1>3. CASE LastSync(p, L)
  BY <1>3, Scripts, Steps DEF LastSync
<1>4. CASE Closing(p, L)
  <2>1. CASE todo = UpdateMetadata \o <<CloseFd>>
    BY <1>4, <2>1, Scripts, Steps
  <2>2. CASE todo = <<Sync>> \o <<CloseFd>>
    BY <1>4, <2>2, Scripts, Steps
  <2>3. CASE todo = <<CloseFd>>
    BY <1>4, <2>3, Scripts, Steps
  <2> QED BY <1>4, <2>1, <2>2, <2>3 DEF Closing
<1>5. CASE TakingId(p, L)
  <2>1. PICK x : Doing(todo, PutPage(meta.head, x), <<Sync>> \o UpdateMetadata)
    BY <1>5, PageScripts DEF TakingId
  <2> QED BY <1>5, <2>1, Steps
<1>6. CASE TookId(p, L)
  BY <1>6, Scripts, Steps DEF TookId
<1>7. CASE WritingHead(p, L)
  <2>1. PICK x, t : Doing(todo, PutPage(p, x), t)
    BY <1>7, PageScripts DEF WritingHead
  <2> QED BY <1>7, <2>1, Steps
<1>8. CASE WroteHead(p, L)
  BY <1>8, PageScripts, Steps DEF WroteHead
<1>9. CASE SettingHead(p, L)
  <2>1. Doing(<<SetHead(p)>> \o UpdateMetadata, SetHead(p), UpdateMetadata)
    BY PageScripts
  <2> QED BY <1>9, <2>1, Steps DEF SettingHead
<1>10. CASE ListingId(p, L)
  <2>1. PICK x : Doing(todo, PutPage(meta.head, x), <<Sync>>)
    BY <1>10, PageScripts DEF ListingId
  <2> QED BY <1>10, <2>1, Steps
<1> QED BY <1>1, <1>2, <1>3, <1>4, <1>5, <1>6, <1>7, <1>8, <1>9, <1>10 DEF Stage

-----------------------------------------------------------------------------
(* The types, whatever the damage. *)

LEMMA OffsetsAreSlots == \A p \in PageId : Offset(p) \in Slot
BY DiskAssumption DEF Offset, Slot, PageId

LEMMA ScriptTypes ==
  ASSUME NEW p \in PageId, NEW x \in Freed
  PROVE  /\ UpdateMetadata \in Seq(Step) /\ UpdateMetadata \o <<CloseFd>> \in Seq(Step)
         /\ WriteFreelist(p, x) \in Seq(Step)
         /\ WriteFreelist(p, x) \o UpdateMetadata \in Seq(Step)
         /\ WriteFreelist(p, x) \o <<SetHead(p)>> \o UpdateMetadata \in Seq(Step)
<1>1. /\ PutMeta \in Step /\ Sync \in Step /\ CloseFd \in Step
      /\ PutPage(p, x) \in Step /\ SetHead(p) \in Step
  BY DEF Step
<1>2. UpdateMetadata \in Seq(Step) /\ WriteFreelist(p, x) \in Seq(Step)
      /\ <<CloseFd>> \in Seq(Step) /\ <<SetHead(p)>> \in Seq(Step)
  BY <1>1 DEF UpdateMetadata, WriteFreelist
<1> QED BY <1>2

(* The next step of a call. *)
LEMMA StepTypes ==
  ASSUME NEW t \in Seq(Step), t # <<>>
  PROVE  /\ Tail(t) \in Seq(Step)
         /\ Head(t).do = "pwrite" =>
              Head(t).page \in PageId /\ Head(t).content \in Freed /\ Head(t) # PutMeta
         /\ Head(t).do = "pwrite_metadata" => Head(t) = PutMeta
         /\ Head(t).do = "set_head" => Head(t).page \in PageId
<1>1. Head(t) \in Step /\ Tail(t) \in Seq(Step)
  OBVIOUS
<1>2. CASE \E p \in PageId, c \in Freed : Head(t) = PutPage(p, c)
  BY <1>1, <1>2, Steps
<1>3. CASE Head(t) \in {PutMeta, Sync, CloseFd}
  BY <1>1, <1>3, Steps
<1>4. CASE \E p \in PageId : Head(t) = SetHead(p)
  BY <1>1, <1>4, Steps
<1> QED BY <1>1, <1>2, <1>3, <1>4 DEF Step

(* What a failing write leaves is a page. *)
LEMMA RemainTypes ==
  ASSUME NEW old \in Cell, NEW new \in Cell
  PROVE  Remains(old, new) \subseteq Cell /\ Cuts(old, new) \subseteq Cell
<1>1. Remains(old, new) \subseteq Cell
  BY TornPages DEF Remains
<1>2. ASSUME NEW x \in Cuts(old, new) PROVE x \in Cell
  <2>1. new.kind = "free" /\ old.kind = "free" /\ ~(Len(new.ids) <= Len(old.ids))
    BY <1>2 DEF Cuts
  <2>2. new \in Freed /\ old \in Freed
    BY <2>1 DEF Cell, Absent, Torn, Payload, Header
  <2>3. new.ids \in Seq(PageId) /\ new.ids # <<>>
    BY <2>1, <2>2 DEF Freed
  <2>4. PICK p \in PageId : x = [new EXCEPT !.ids = Append(Front(@), p)]
    BY <1>2 DEF Cuts
  <2>5. Append(Front(new.ids), p) \in Seq(PageId)
    <3>1. Front(new.ids) \in Seq(PageId)
      BY <2>3, Popped
    <3> QED BY <3>1
  <2> QED BY <2>2, <2>4, <2>5 DEF Freed, Cell
<1> QED BY <1>1, <1>2

LEMMA MetadataCell ==
  ASSUME Typed
  PROVE  /\ Metadata(meta) \in Header /\ Metadata(meta) \in Cell
         /\ Metadata(meta).head = meta.head /\ Metadata(meta).next = meta.next
BY DEF Typed, Metadata, Header, Cell

LEMMA TypesKept == Typed /\ Scripted /\ [Next]_vars => Typed' /\ Scripted'
<1> SUFFICES ASSUME Typed, Scripted, [Next]_vars PROVE Typed' /\ Scripted'
  OBVIOUS
<1> USE DEF NoPage
<1>0. /\ up \in BOOLEAN /\ meta \in [head : PageId \cup {INVALID_PAGE_ID}, next : 1..(MaxPage + 1)]
      /\ cache \in Files /\ disk \in Files /\ ret \in Slot /\ live \subseteq PageId
      /\ crashes \in 0..MaxCrashes /\ faults \in 0..MaxFaults
      /\ todo \in Seq(Step) /\ damage \in SUBSET {"offset", "list"}
      /\ <<>> \in Seq(Step) /\ PageId \subseteq Slot /\ 0 \in Slot
  BY PagesAreSlots DEF Typed, Scripted
<1>1. CASE UNCHANGED vars \/ OpenThrows
  BY <1>0, <1>1 DEF vars, OpenThrows, Typed, Scripted
<1>2. CASE Open
  <2>1. meta' \in [head : PageId \cup {INVALID_PAGE_ID}, next : 1..(MaxPage + 1)]
    <3>1. CASE InFile(cache) = {}
      BY <1>2, <3>1, DiskAssumption DEF Open
    <3>2. CASE InFile(cache) # {}
      <4>1. cache[0] \in Header
        BY <1>0, <1>2, <3>2 DEF Open, Files, Cell, Absent, Torn, Payload, Freed
      <4> QED BY <1>2, <3>2, <4>1 DEF Open, Header
    <3> QED BY <3>1, <3>2
  <2>2. todo' \in Seq(Step)
    <3>1. UpdateMetadata \in Seq(Step)
      BY DEF UpdateMetadata, Step
    <3> QED BY <1>0, <1>2, <3>1 DEF Open
  <2> QED BY <1>0, <1>2, <2>1, <2>2 DEF Open, Typed, Scripted
<1>3. CASE Close
  <2>1. UpdateMetadata \o <<CloseFd>> \in Seq(Step)
    BY DEF UpdateMetadata, Step
  <2> QED BY <1>0, <1>3, <2>1 DEF Close, Idle, Typed, Scripted
<1>4. CASE AllocatePage
  <2> DEFINE head == AsFreelist(cache[Offset(meta.head)])
  <2>1. up /\ UNCHANGED <<up, cache, disk, live, crashes, faults>>
    BY <1>4 DEF AllocatePage, Idle
  <2>2. UpdateMetadata \in Seq(Step)
    BY DEF UpdateMetadata, Step
  <2>3. CASE /\ meta.next <= MaxPage
             /\ ret' = meta.next
             /\ meta' = [meta EXCEPT !.next = @ + 1]
             /\ todo' = UpdateMetadata
             /\ damage' = IF meta.next >= OffsetWrap THEN damage \cup {"offset"} ELSE damage
    <3>1. meta.next \in Slot /\ meta' \in [head : PageId \cup {INVALID_PAGE_ID}, next : 1..(MaxPage + 1)]
      BY <1>0, <2>3, DiskAssumption DEF Slot
    <3>2. ret' \in Slot /\ damage' \in SUBSET {"offset", "list"} /\ todo' \in Seq(Step)
      BY <1>0, <2>2, <2>3, <3>1
    <3> QED BY <1>0, <2>1, <3>1, <3>2 DEF Typed, Scripted
  <2>4. ASSUME meta.head # INVALID_PAGE_ID, HeadIsList
        PROVE  meta.head \in PageId /\ head \in Freed /\ head.ids \in Seq(PageId)
    <3>1. meta.head \in PageId /\ cache[Offset(meta.head)] \in Cell
      BY <1>0, <2>4, OffsetsAreSlots DEF Files
    <3>2. cache[Offset(meta.head)].kind = "free"
      BY <2>4 DEF HeadIsList
    <3>3. head \in Freed /\ head.ids \in Seq(PageId)
      BY <3>1, <3>2, ListCells
    <3> QED BY <3>1, <3>3
  <2>5. CASE /\ meta.head # INVALID_PAGE_ID /\ HeadIsList
             /\ ret' = meta.head
             /\ meta' = [meta EXCEPT !.head = head.next]
             /\ todo' = UpdateMetadata
             /\ damage' = damage
    <3>1. meta' \in [head : PageId \cup {INVALID_PAGE_ID}, next : 1..(MaxPage + 1)] /\ ret' \in Slot
      BY <1>0, <2>4, <2>5 DEF Freed
    <3> QED BY <1>0, <2>1, <2>2, <2>5, <3>1 DEF Typed, Scripted
  <2>6. CASE /\ meta.head # INVALID_PAGE_ID /\ HeadIsList
             /\ head.ids # <<>>
             /\ ret' = Last(head.ids)
             /\ todo' = WriteFreelist(meta.head, [head EXCEPT !.ids = Front(@)]) \o UpdateMetadata
             /\ meta' = meta /\ damage' = damage
    <3>1. Last(head.ids) \in PageId /\ Front(head.ids) \in Seq(PageId)
      <4>1. Last(head.ids) \in Range(head.ids) /\ Front(head.ids) \in Seq(PageId)
        BY <2>4, <2>6, Popped
      <4> QED BY <2>4, <2>6, <4>1, RangeOf
    <3>2. [head EXCEPT !.ids = Front(@)] \in Freed
      BY <2>4, <2>6, <3>1 DEF Freed
    <3>3. todo' \in Seq(Step)
      BY <2>4, <2>6, <3>2, ScriptTypes
    <3> QED BY <1>0, <2>1, <2>6, <3>1, <3>3 DEF Typed, Scripted
  <2> QED BY <1>4, <2>3, <2>5, <2>6 DEF AllocatePage
<1>5. CASE Return
  <2>1. ret \in PageId
    BY <1>0, <1>5 DEF Return, Slot, PageId
  <2> QED BY <1>0, <1>5, <2>1 DEF Return, Typed, Scripted
<1>6. ASSUME NEW p \in live, DeallocatePage(p) PROVE Typed' /\ Scripted'
  <2> DEFINE head == AsFreelist(cache[Offset(meta.head)])
  <2>1. up /\ UNCHANGED <<up, meta, cache, disk, ret, crashes, faults, damage>> /\ live' = live \ {p}
        /\ p \in PageId
    BY <1>0, <1>6 DEF DeallocatePage, Idle
  <2>2. FreelistPage(meta.head, <<>>) \in Freed
    BY <1>0 DEF FreelistPage, Freed
  <2>3. CASE todo' = WriteFreelist(p, FreelistPage(meta.head, <<>>)) \o <<SetHead(p)>> \o UpdateMetadata
    <3>1. todo' \in Seq(Step)
      BY <2>1, <2>2, <2>3, ScriptTypes
    <3> QED BY <1>0, <2>1, <3>1 DEF Typed, Scripted
  <2>4. CASE /\ meta.head # INVALID_PAGE_ID /\ HeadIsList
             /\ todo' = WriteFreelist(meta.head, [head EXCEPT !.ids = Append(@, p)])
    <3>1. meta.head \in PageId /\ cache[Offset(meta.head)] \in Cell
      BY <1>0, <2>4, OffsetsAreSlots DEF Files
    <3>2. cache[Offset(meta.head)].kind = "free"
      BY <2>4 DEF HeadIsList
    <3>3. head \in Freed
      BY <3>1, <3>2, ListCells
    <3>4. Append(head.ids, p) \in Seq(PageId)
      BY <2>1, <3>3 DEF Freed
    <3>5. [head EXCEPT !.ids = Append(@, p)] \in Freed
      BY <3>3, <3>4 DEF Freed
    <3>6. todo' \in Seq(Step)
      BY <2>4, <3>1, <3>5, ScriptTypes
    <3> QED BY <1>0, <2>1, <3>6 DEF Typed, Scripted
  <2> QED BY <1>6, <2>3, <2>4 DEF DeallocatePage
<1>7. ASSUME NEW p \in live, \/ FailingWritePage(p)
                             \/ \E d \in Data : WritePage(p, d)
      PROVE  Typed' /\ Scripted'
  <2>1. cache' \in Files
    BY <1>0, <1>7 DEF FailingWritePage, WritePage, Files, Cell
  <2>2. UNCHANGED <<up, meta, disk, todo, ret, live, crashes, damage>> /\ faults' \in 0..MaxFaults
    BY <1>0, <1>7, DiskAssumption DEF FailingWritePage, WritePage
  <2> QED BY <1>0, <2>1, <2>2 DEF Typed, Scripted
<1>8. CASE Pwrite \/ PwriteMetadata
  <2>1. cache' \in Files
    <3>1. CASE Pwrite
      BY <1>0, <3>1, StepTypes DEF Pwrite, Files, Cell
    <3>2. CASE PwriteMetadata
      BY <1>0, <3>2, MetadataCell DEF PwriteMetadata, Files
    <3> QED BY <1>8, <3>1, <3>2
  <2>2. /\ todo # <<>> /\ todo' = Tail(todo)
        /\ UNCHANGED <<up, meta, disk, ret, live, crashes, faults, damage>>
    BY <1>8 DEF Pwrite, PwriteMetadata
  <2> QED BY <1>0, <2>1, <2>2, StepTypes DEF Typed, Scripted
<1>9. CASE Fsync
  <2>1. todo # <<>> /\ todo' = Tail(todo) /\ disk' = cache
        /\ UNCHANGED <<up, meta, cache, ret, live, crashes, faults, damage>>
    BY <1>9 DEF Fsync
  <2> QED BY <1>0, <2>1, StepTypes DEF Typed, Scripted
<1>10. CASE AssignHead
  <2>1. /\ todo # <<>> /\ todo' = Tail(todo) /\ Head(todo).do = "set_head"
        /\ meta' = [meta EXCEPT !.head = Head(todo).page]
        /\ UNCHANGED <<up, cache, disk, ret, live, crashes, faults, damage>>
    BY <1>10 DEF AssignHead
  <2>2. Head(todo).page \in PageId /\ todo' \in Seq(Step)
    BY <1>0, <2>1, StepTypes
  <2>3. meta' \in [head : PageId \cup {INVALID_PAGE_ID}, next : 1..(MaxPage + 1)]
    BY <1>0, <2>1, <2>2
  <2> QED BY <1>0, <2>1, <2>2, <2>3 DEF Typed, Scripted
<1>11. CASE FailingWrite
  <2> DEFINE step == Head(todo)
             old == cache[Target(step)]
             new == Written(step)
  <2>1. /\ todo # <<>> /\ step.do \in {"pwrite", "pwrite_metadata"}
        /\ \E c \in Remains(old, new) \cup Cuts(old, new) : cache' = [cache EXCEPT ![Target(step)] = c]
    BY <1>11 DEF FailingWrite
  <2>2. old \in Cell /\ new \in Cell
    <3>1. CASE step = PutMeta
      BY <1>0, <3>1, MetadataCell DEF Target, Written, Files
    <3>2. CASE step # PutMeta
      <4>1. step.page \in PageId /\ step.content \in Freed
        BY <1>0, <2>1, <3>2, StepTypes
      <4> QED BY <1>0, <3>2, <4>1, OffsetsAreSlots DEF Target, Written, Files, Cell
    <3> QED BY <3>1, <3>2
  <2>3. cache' \in Files
    <3>1. Remains(old, new) \cup Cuts(old, new) \subseteq Cell
      BY <2>2, RemainTypes
    <3> HIDE DEF old, new
    <3> QED BY <1>0, <2>1, <3>1 DEF Files
  <2>4. /\ todo' = <<>> /\ ret' = 0 /\ UNCHANGED <<meta, disk, live, crashes>>
        /\ faults < MaxFaults /\ faults' = faults + 1
        /\ damage' \in SUBSET {"offset", "list"}
    BY <1>0, <1>11 DEF FailingWrite
  <2>5. up' \in BOOLEAN
    BY <1>11 DEF FailingWrite
  <2>6. faults' \in 0..MaxFaults
    BY <1>0, <2>4, DiskAssumption
  <2> QED BY <1>0, <2>3, <2>4, <2>5, <2>6 DEF Typed, Scripted
<1>12. CASE CloseFile
  <2>1. /\ todo # <<>> /\ todo' = Tail(todo) /\ up' = FALSE
        /\ UNCHANGED <<meta, cache, disk, ret, live, crashes, faults, damage>>
    BY <1>12 DEF CloseFile
  <2> QED BY <1>0, <2>1, StepTypes DEF Typed, Scripted
<1>13. CASE Kill
  <2>1. /\ crashes' \in 0..MaxCrashes /\ up' = FALSE /\ todo' = <<>> /\ ret' = 0
        /\ UNCHANGED <<meta, cache, disk, live, faults, damage>>
    BY <1>0, <1>13, DiskAssumption DEF Kill
  <2> QED BY <1>0, <2>1 DEF Typed, Scripted
<1>14. CASE PowerCut
  <2>0. /\ crashes < MaxCrashes /\ crashes' = crashes + 1
        /\ up' = FALSE /\ todo' = <<>> /\ ret' = 0
        /\ UNCHANGED <<meta, live, faults>> /\ disk' = cache'
    BY <1>14 DEF PowerCut
  <2>1. damage' = damage \/ damage' = damage \cup {"list"}
    BY <1>14, Zenon DEF PowerCut
  <2>2. crashes' \in 0..MaxCrashes /\ damage' \in SUBSET {"offset", "list"}
    <3>1. crashes' \in 0..MaxCrashes
      BY <1>0, <2>0, DiskAssumption
    <3>2. damage' \in SUBSET {"offset", "list"}
      BY <1>0, <2>1
    <3> QED BY <3>1, <3>2
  <2>3. ASSUME NEW f \in AfterPowerCut PROVE f \in Files
    BY <1>0, PowerCutPages DEF Survivor
  <2>4. cache' \in Files
    <3>1. CASE cache' \in AfterPowerCut
      BY <2>3, <3>1
    <3>2. ASSUME NEW f \in AfterPowerCut, NEW s \in Slot,
                 NEW c \in Cuts(disk[s], cache[s]), cache' = [f EXCEPT ![s] = c]
          PROVE  cache' \in Files
      <4>1. c \in Cell
        BY <1>0, RemainTypes DEF Files
      <4> QED BY <2>3, <3>2, <4>1 DEF Files
    <3>3. \/ cache' \in AfterPowerCut
          \/ \E f \in AfterPowerCut, s \in Unsynced :
               \E c \in Cuts(disk[s], cache[s]) : cache' = [f EXCEPT ![s] = c]
      BY <1>14 DEF PowerCut
    <3>4. Unsynced \subseteq Slot
      BY DEF Unsynced
    <3> QED BY <3>1, <3>2, <3>3, <3>4
  <2> QED BY <1>0, <2>0, <2>2, <2>4 DEF Typed, Scripted
<1> QED BY <1>1, <1>2, <1>3, <1>4, <1>5, <1>6, <1>7, <1>8, <1>9, <1>10, <1>11, <1>12, <1>13, <1>14 DEF Next

-----------------------------------------------------------------------------
(* What is sound throughout stays so.                                      *)

LEMMA Carried ==
  ASSUME NEW S, NEW T, \A k \in T : \E a, b \in S : k.head = a.head /\ k.next = b.next,
         NEW F, NEW G, NEW H, NEW K, NEW L, NEW M, Throughout(S, F, H, L),
         \A h, n : SoundIn(F, Mix(h, n), H, L) => SoundIn(G, Mix(h, n), K, M)
  PROVE  Throughout(T, G, K, M)
<1> SUFFICES ASSUME NEW k \in T, NEW l \in T
             PROVE  SoundIn(G, Mix(k.head, l.next), K, M)
  BY DEF Throughout
<1>1. PICK a \in S, b \in S : k.head = a.head /\ l.next = b.next
  OBVIOUS
<1> QED BY <1>1 DEF Throughout

LEMMA Spread ==
  ASSUME NEW S, NEW F \in SUBSET Files, NEW m, \A k \in S : k.head = m.head /\ k.next = m.next,
         NEW H, NEW L, SoundIn(F, m, H, L)
  PROVE  Throughout(S, F, H, L)
<1> SUFFICES ASSUME NEW k \in S, NEW l \in S
             PROVE  SoundIn(F, Mix(k.head, l.next), H, L)
  BY DEF Throughout
<1>1. Mix(k.head, l.next).head = m.head /\ Mix(k.head, l.next).next = m.next
  BY DEF Mix
<1>2. F \in SUBSET F /\ H \in SUBSET H /\ L \cup (H \ H) \subseteq L
  OBVIOUS
<1> QED BY <1>1, <1>2, Weaker

LEMMA OneOf ==
  ASSUME NEW S, NEW F \in SUBSET Files, NEW H, NEW L, Throughout(S, F, H, L), NEW m \in S
  PROVE  SoundIn(F, m, H, L)
<1>1. SoundIn(F, Mix(m.head, m.next), H, L)
  BY DEF Throughout
<1>2. Mix(m.head, m.next).head = m.head /\ Mix(m.head, m.next).next = m.next
  BY DEF Mix
<1>3. F \in SUBSET F /\ H \in SUBSET H /\ L \cup (H \ H) \subseteq L
  OBVIOUS
<1> QED BY <1>1, <1>2, <1>3, Weaker

LEMMA WeakerThroughout ==
  ASSUME NEW S, NEW T, \A k \in T : \E a, b \in S : k.head = a.head /\ k.next = b.next,
         NEW F \in SUBSET Files, NEW G \in SUBSET F, NEW H, NEW K \in SUBSET H, NEW L, NEW L2,
         L \cup (H \ K) \subseteq L2, Throughout(S, F, H, L)
  PROVE  Throughout(T, G, K, L2)
<1>1. \A h, n : SoundIn(F, Mix(h, n), H, L) => SoundIn(G, Mix(h, n), K, L2)
  BY Weaker
<1> QED BY <1>1, Carried

-----------------------------------------------------------------------------
(* The invariant is inductive while there is no damage. *)

(* Metadata is written to page 0, and no other page is made of it. *)
LEMMA NotMetadata ==
  ASSUME NEW old \in Cell, NEW new \in Cell, old \notin Header, new \notin Header,
         NEW x \in Remains(old, new) \cup Cuts(old, new) \cup Tears(old, new)
  PROVE  x \notin Header
<1>1. Torn \notin Header
  BY DEF Torn, Header
<1>2. CASE x \in Tears(old, new)
  BY <1>1, <1>2, TornPages
<1>3. CASE x \in Cuts(old, new)
  <2>1. new.kind = "free" /\ old.kind = "free" /\ ~(Len(new.ids) <= Len(old.ids))
    BY <1>3 DEF Cuts
  <2>2. new \in Freed
    BY <2>1 DEF Cell, Absent, Torn, Payload, Header
  <2>3. PICK p \in PageId : x = [new EXCEPT !.ids = Append(Front(@), p)]
    BY <1>3 DEF Cuts
  <2>4. x.kind = "free"
    BY <2>2, <2>3 DEF Freed
  <2> QED BY <2>4 DEF Header
<1> QED BY <1>2, <1>3 DEF Remains

LEMMA PlacedKept == Typed /\ Scripted /\ Placed /\ [Next]_vars => Placed'
<1> SUFFICES ASSUME Typed, Scripted, Placed, [Next]_vars PROVE Placed'
  OBVIOUS
<1>0. /\ cache \in Files /\ disk \in Files /\ todo \in Seq(Step) /\ live \subseteq PageId
      /\ PageId \subseteq Slot /\ 0 \in Slot /\ 0 \notin PageId
      /\ \A s \in PageId : cache[s] \in Cell /\ disk[s] \in Cell
      /\ \A s \in PageId : cache[s] \notin Header /\ disk[s] \notin Header
  BY PagesAreSlots DEF Typed, Scripted, Placed, Files
<1>1. CASE UNCHANGED vars \/ OpenThrows
  BY <1>1 DEF vars, OpenThrows, Placed
<1>2. CASE \/ Open \/ Close \/ AllocatePage \/ Return \/ AssignHead \/ CloseFile \/ Kill
           \/ \E p \in live : DeallocatePage(p)
  <2>1. cache' = cache /\ disk' = disk
    BY <1>2 DEF Open, Close, AllocatePage, Return, AssignHead, CloseFile, Kill, DeallocatePage
  <2> QED BY <1>0, <2>1 DEF Placed
<1>3. ASSUME NEW q \in Slot, NEW x, q \in PageId => x \notin Header,
             cache' = [cache EXCEPT ![q] = x], disk' = disk
      PROVE  Placed'
  BY <1>0, <1>3 DEF Placed, Files
<1>4. CASE \E p \in live : FailingWritePage(p) \/ \E d \in Data : WritePage(p, d)
  <2>1. PICK p \in live : FailingWritePage(p) \/ \E d \in Data : WritePage(p, d)
    BY <1>4
  <2>2. PICK x \in {Torn} \cup {Payload(d) : d \in Data} :
          cache' = [cache EXCEPT ![Offset(p)] = x] /\ disk' = disk
    BY <2>1 DEF FailingWritePage, WritePage
  <2>3. x \notin Header
    BY <2>2 DEF Torn, Payload, Header
  <2> QED BY <1>0, <1>3, <2>2, <2>3, OffsetsAreSlots
<1>5. CASE Pwrite
  <2>1. /\ Head(todo).page \in PageId /\ Head(todo).content \in Freed
        /\ cache' = [cache EXCEPT ![Offset(Head(todo).page)] = Head(todo).content] /\ disk' = disk
    BY <1>0, <1>5, StepTypes DEF Pwrite
  <2>2. Head(todo).content \notin Header
    BY <2>1 DEF Freed, Header
  <2> QED BY <1>3, <2>1, <2>2, OffsetsAreSlots
<1>6. CASE PwriteMetadata
  BY <1>0, <1>3, <1>6 DEF PwriteMetadata
<1>7. CASE Fsync
  BY <1>0, <1>7 DEF Fsync, Placed
<1>8. CASE FailingWrite
  <2> DEFINE step == Head(todo)
             old == cache[Target(step)]
             new == Written(step)
  <2>1. /\ todo # <<>> /\ step.do \in {"pwrite", "pwrite_metadata"} /\ disk' = disk
        /\ \E c \in Remains(old, new) \cup Cuts(old, new) : cache' = [cache EXCEPT ![Target(step)] = c]
    BY <1>8 DEF FailingWrite
  <2>2. CASE step = PutMeta
    BY <1>0, <1>3, <2>1, <2>2 DEF Target
  <2>3. CASE step # PutMeta
    <3>1. step.page \in PageId /\ step.content \in Freed
      BY <1>0, <2>1, <2>3, StepTypes
    <3>2. Target(step) \in Slot /\ new \in Freed
      BY <2>3, <3>1, OffsetsAreSlots DEF Target, Written
    <3>3. new \in Cell /\ new \notin Header
      BY <3>2 DEF Cell, Freed, Header
    <3>4. ASSUME NEW c \in Remains(old, new) \cup Cuts(old, new), Target(step) \in PageId
          PROVE  c \notin Header
      <4>1. old \in Cell /\ old \notin Header
        BY <1>0, <3>4
      <4> HIDE DEF old, new
      <4> QED BY <3>3, <3>4, <4>1, NotMetadata
    <3> HIDE DEF old, new
    <3> QED BY <1>3, <2>1, <3>2, <3>4
  <2> QED BY <2>2, <2>3
<1>9. CASE PowerCut
  <2>1. disk' = cache'
    BY <1>9 DEF PowerCut
  <2>2. ASSUME NEW f \in AfterPowerCut
        PROVE  f \in Files /\ \A s \in PageId : f[s] \notin Header
    <3>1. Survivor(f)
      BY <1>0, PowerCutPages
    <3>2. \A s \in PageId : \A x \in Tears(disk[s], cache[s]) : x \notin Header
      BY <1>0, NotMetadata
    <3> QED BY <1>0, <3>1, <3>2 DEF Survivor
  <2>3. CASE cache' \in AfterPowerCut
    BY <2>1, <2>2, <2>3 DEF Placed
  <2>4. ASSUME NEW f \in AfterPowerCut, NEW t \in Slot,
               NEW c \in Cuts(disk[t], cache[t]), cache' = [f EXCEPT ![t] = c]
        PROVE  Placed'
    <3>1. t \in PageId => c \notin Header
      BY <1>0, NotMetadata
    <3> QED BY <1>0, <2>1, <2>2, <2>4, <3>1 DEF Placed, Files
  <2>5. \/ cache' \in AfterPowerCut
        \/ \E f \in AfterPowerCut, t \in Unsynced :
             \E c \in Cuts(disk[t], cache[t]) : cache' = [f EXCEPT ![t] = c]
    BY <1>9 DEF PowerCut
  <2>6. Unsynced \subseteq Slot
    BY DEF Unsynced
  <2> QED BY <2>3, <2>4, <2>5, <2>6
<1> QED BY <1>1, <1>2, <1>4, <1>5, <1>6, <1>7, <1>8, <1>9 DEF Next

LEMMA Begins == Init => IInv
<1> SUFFICES ASSUME Init PROVE IInv
  OBVIOUS
<1>1. cache = [s \in Slot |-> Absent] /\ disk = [s \in Slot |-> Absent]
  BY DEF Init
<1>2. cache \in Files /\ disk \in Files
  BY <1>1 DEF Files, Cell
<1>3. meta \in [head : PageId \cup {INVALID_PAGE_ID}, next : 1..(MaxPage + 1)]
  BY DiskAssumption DEF Init
<1>4. Typed
  <2>1. 0 \in 0..MaxCrashes /\ 0 \in 0..MaxFaults
    BY DiskAssumption
  <2> QED BY <1>2, <1>3, <2>1, PagesAreSlots DEF Init, Typed, NoPage
<1>5. cache[0] = Absent /\ disk[0] = Absent /\ Absent \notin Header
  BY <1>1, PagesAreSlots DEF Absent, Header
<1>6. Formatted
  BY <1>1, <1>5, PagesAreSlots DEF Init, Formatted
<1>7. Accounted(0, {})
  <2>1. Recoverable(0, {})
    BY <1>5 DEF Init, Recoverable, Throughout, Known
  <2>2. Between(0, {})
    BY DEF Init, Between, NoPage
  <2>3. Cardinality({}) = 0
    BY FS_EmptySet
  <2> QED BY <2>1, <2>2, <2>3 DEF Init, Accounted, Stage
<1>8. Scripted
  BY DEF Init, Scripted
<1>9. Placed
  BY <1>1, PagesAreSlots DEF Placed, Absent, Header
<1> QED BY <1>4, <1>6, <1>7, <1>8, <1>9, PagesAreSlots DEF Init, IInv, Inv

(* A step of the manager keeps Inv if there are a page in transit and lost *)
(* pages to say it with.                                                   *)
LEMMA Rebuilt ==
  ASSUME Typed', Formatted', ~up' => todo' = <<>> /\ ret' = NoPage,
         NEW p \in Slot, NEW L \in SUBSET PageId, Accounted(p, L)'
  PROVE  Inv'
BY DEF Inv

LEMMA OpenKeeps ==
  ASSUME Inv, Typed', Open
  PROVE  Inv'
<1> USE DEF NoPage
<1>1. PICK p \in Slot, L \in SUBSET PageId : Accounted(p, L)
  BY DEF Inv
<1>2. /\ ~up /\ up' = TRUE /\ todo = <<>> /\ ret = 0 /\ p = 0
      /\ cache' = cache /\ disk' = disk /\ ret' = ret /\ live' = live
      /\ crashes' = crashes /\ faults' = faults
      /\ cache \in Files /\ disk \in Files
  BY <1>1, Located DEF Inv, Typed, Open, Accounted, Between
<1>3. Formatted'
  BY <1>2 DEF Inv, Formatted
<1>4. L \cup One(p) = L /\ live \cup One(ret) = live
  BY <1>2 DEF One
<1>5. Mixes(cache, disk) \in SUBSET Files
  BY <1>2, MixTypes
<1>6. CASE InFile(cache) = {}
  <2>1. \A s \in Slot : cache[s] = Absent
    BY <1>6 DEF InFile, Slot
  <2>2. live = {} /\ cache[0] \notin Header /\ disk[0] \notin Header
    BY <2>1, PagesAreSlots DEF Inv, Formatted, Header, Absent
  <2>3. meta' = [head |-> INVALID_PAGE_ID, next |-> 1] /\ todo' = UpdateMetadata
    BY <1>6 DEF Open
  <2>4. SoundIn(Mixes(cache, disk), meta', {}, L)
    BY <2>3, EmptyFile
  <2>5. BeforeMeta(p, L)'
    BY <1>2, <1>4, <2>2, <2>3, <2>4 DEF BeforeMeta, Anywhere
  <2>6. Known' = {meta'}
    BY <1>2, <2>2 DEF Known
  <2>7. Throughout({meta'}, Mixes(cache, disk), {}, L)
    BY <1>5, <2>4, Spread
  <2>8. Recoverable(p, L)'
    BY <1>2, <1>4, <2>2, <2>6, <2>7 DEF Recoverable
  <2> QED BY <1>1, <1>2, <1>3, <2>5, <2>8, Rebuilt DEF Accounted, Stage
<1>7. CASE InFile(cache) # {}
  <2>1. cache[0].kind = "meta" /\ todo' = <<>>
        /\ meta' = [head |-> cache[0].head, next |-> cache[0].next]
    BY <1>7 DEF Open
  <2>2. cache[0] \in Header
    BY <2>1 DEF Inv, Formatted, Absent, Torn
  <2>3. cache[0] = Metadata(meta') /\ cache[0] \in Known
    BY <2>1, <2>2 DEF Header, Metadata, Known
  <2>4. /\ Known = {cache[0], disk[0]} \cap Header
        /\ Known' = ({cache[0], disk[0]} \cap Header) \cup {meta'}
    <3>1. ~up /\ up' /\ cache'[0] = cache[0] /\ disk'[0] = disk[0]
      BY <1>2
    <3> QED BY <3>1, Zenon DEF Known
  <2>5. \A k \in Known' : \E a, b \in Known : k.head = a.head /\ k.next = b.next
    <3>1. meta'.head = cache[0].head /\ meta'.next = cache[0].next
      BY <2>1
    <3>2. \A k \in Known' : k \in Known \/ k = meta'
      BY <2>4
    <3> QED BY <2>3, <3>1, <3>2
  <2>6. Throughout(Known, Mixes(cache, disk), live, L)
    BY <1>1, <1>4 DEF Accounted, Recoverable
  <2>7. Throughout(Known', Mixes(cache, disk), live, L)
    BY <2>5, <2>6, Carried
  <2>8. SoundIn(Mixes(cache, disk), meta', live, L)
    BY <1>5, <2>4, <2>7, OneOf
  <2>9. Between(p, L)'
    BY <1>2, <1>4, <2>1, <2>3, <2>8 DEF Between, Anywhere
  <2>10. Recoverable(p, L)'
    BY <1>2, <1>4, <2>7 DEF Recoverable
  <2> QED BY <1>1, <1>2, <1>3, <2>9, <2>10, Rebuilt DEF Accounted, Stage
<1> QED BY <1>6, <1>7

LEMMA CloseKeeps ==
  ASSUME Inv, Typed', Close
  PROVE  Inv'
<1> USE DEF NoPage
<1>1. PICK p \in Slot, L \in SUBSET PageId : Accounted(p, L)
  BY DEF Inv
<1>2. /\ up /\ todo = <<>> /\ ret = 0 /\ p = 0 /\ todo' = UpdateMetadata \o <<CloseFd>>
      /\ UNCHANGED <<up, meta, cache, disk, ret, live, crashes, faults>>
      /\ Between(p, L)
  BY <1>1, Located DEF Close, Idle, Accounted, Between
<1>3. Formatted'
  BY <1>2 DEF Inv, Formatted
<1>4. live \cup One(ret) = live
  BY <1>2 DEF One
<1>5. Recoverable(p, L)'
  BY <1>1, <1>2 DEF Accounted, Recoverable, Known
<1>6. Closing(p, L)'
  BY <1>2, <1>4 DEF Closing, Between, Anywhere
<1> QED BY <1>1, <1>2, <1>3, <1>5, <1>6, Rebuilt DEF Accounted, Stage

(* What holds when no call runs. *)
LEMMA WhenIdle ==
  ASSUME Inv, Idle
  PROVE  \E L \in SUBSET PageId :
           /\ Accounted(0, L)
           /\ faults = 0 => Cardinality(L) <= crashes
           /\ Anywhere(meta, live, L)
           /\ Throughout(Known, Mixes(cache, disk), live, L)
           /\ faults = 0 => cache[0] = Metadata(meta)
           /\ meta \in Known
<1>1. PICK p \in Slot, L \in SUBSET PageId : Accounted(p, L)
  BY DEF Inv
<1>2. Between(p, L) /\ p = 0 /\ ret = 0 /\ up
  BY <1>1, Located DEF Idle, Accounted, Between, NoPage
<1>3. L \cup One(p) = L /\ live \cup One(ret) = live
  BY <1>2 DEF One, NoPage
<1>4. meta \in Known
  BY <1>2 DEF Known
<1> QED BY <1>1, <1>2, <1>3, <1>4 DEF Between, Accounted, Recoverable

(* Metadata n, ready to be written, differs from m in what a call does to  *)
(* one id.  With either id the file stays sound.                           *)
LEMMA FreshThroughout ==
  ASSUME NEW F \in SUBSET Files, NEW S, NEW m \in S, NEW n, NEW H, NEW L,
         Throughout(S, F, H, L),
         m.next \in Nat \ {0}, n.head = m.head, n.next = m.next + 1, n.next <= OffsetWrap
  PROVE  /\ SoundIn(F, n, H \cup {m.next}, L)
         /\ Throughout(S \cup {n}, F, H, L \cup {m.next})
<1>1. SoundIn(F, n, H \cup {m.next}, L)
  <2>1. SoundIn(F, m, H, L)
    BY OneOf
  <2> QED BY <2>1, FreshPage
<1>2. ASSUME NEW k \in S \cup {n}, NEW l \in S \cup {n}
      PROVE  SoundIn(F, Mix(k.head, l.next), H, L \cup {m.next})
  <2>0. /\ F \in SUBSET F /\ H \in SUBSET H /\ H \in SUBSET (H \cup {m.next})
        /\ L \cup (H \ H) \subseteq L \cup {m.next}
        /\ L \cup ((H \cup {m.next}) \ H) \subseteq L \cup {m.next}
    OBVIOUS
  <2>1. PICK a \in S : k.head = a.head
    OBVIOUS
  <2>2. CASE l \in S
    <3>1. SoundIn(F, Mix(k.head, l.next), H, L)
      BY <2>1, <2>2 DEF Throughout
    <3> QED BY <2>0, <3>1, Weaker
  <2>3. CASE l = n
    <3>1. SoundIn(F, Mix(a.head, m.next), H, L)
      BY DEF Throughout
    <3>2. Mix(a.head, m.next).next = m.next /\ Mix(a.head, m.next).head = a.head
      BY DEF Mix
    <3>3. Mix(k.head, l.next).head = a.head /\ Mix(k.head, l.next).next = m.next + 1
      BY <2>1, <2>3 DEF Mix
    <3>4. SoundIn(F, Mix(k.head, l.next), H \cup {m.next}, L)
      BY <3>1, <3>2, <3>3, FreshPage
    <3> QED BY <2>0, <3>4, Weaker
  <2> QED BY <2>2, <2>3
<1> QED BY <1>1, <1>2 DEF Throughout

LEMMA PoppedThroughout ==
  ASSUME NEW a \in Files, NEW b \in Files, NEW S, NEW m \in S, NEW n, NEW H, NEW L,
         Throughout(S, Mixes(a, b), H, L),
         m.head # INVALID_PAGE_ID, a[m.head].ids = <<>>,
         n.head = a[m.head].next, n.next = m.next
  PROVE  /\ SoundIn(Mixes(a, b), n, H \cup {m.head}, L)
         /\ Throughout(S \cup {n}, Mixes(a, b), H, L \cup {m.head})
<1> DEFINE F == Mixes(a, b)
<1>0. F \in SUBSET Files
  BY MixTypes
<1>1. SoundIn(F, n, H \cup {m.head}, L)
  <2>1. SoundIn(F, m, H, L)
    BY <1>0, OneOf
  <2> QED BY <2>1, PoppedHead
<1>2. ASSUME NEW k \in S \cup {n}, NEW l \in S \cup {n}
      PROVE  SoundIn(F, Mix(k.head, l.next), H, L \cup {m.head})
  <2>0. /\ F \in SUBSET F /\ H \in SUBSET H /\ H \in SUBSET (H \cup {m.head})
        /\ L \cup (H \ H) \subseteq L \cup {m.head}
        /\ L \cup ((H \cup {m.head}) \ H) \subseteq L \cup {m.head}
    OBVIOUS
  <2>1. PICK c \in S : l.next = c.next
    OBVIOUS
  <2>2. CASE k \in S
    <3>1. SoundIn(F, Mix(k.head, l.next), H, L)
      BY <2>1, <2>2 DEF Throughout
    <3> QED BY <1>0, <2>0, <3>1, Weaker
  <2>3. CASE k = n
    <3>1. SoundIn(F, Mix(m.head, c.next), H, L)
      BY DEF Throughout
    <3>2. Mix(m.head, c.next).next = c.next /\ Mix(m.head, c.next).head = m.head
      BY DEF Mix
    <3>3. Mix(k.head, l.next).head = a[m.head].next /\ Mix(k.head, l.next).next = c.next
      BY <2>1, <2>3 DEF Mix
    <3>4. SoundIn(F, Mix(k.head, l.next), H \cup {m.head}, L)
      BY <3>1, <3>2, <3>3, PoppedHead
    <3> QED BY <1>0, <2>0, <3>4, Weaker
  <2> QED BY <2>2, <2>3
<1> QED BY <1>1, <1>2 DEF Throughout

LEMMA NewHeadThroughout ==
  ASSUME NEW F \in SUBSET Files, NEW S, NEW m \in S, NEW n, NEW H, NEW L,
         Throughout(S, F, H, L),
         NEW p \in PageId, p \in H, \A f \in F : f[p] = FreelistPage(m.head, <<>>),
         n.head = p, n.next = m.next
  PROVE  /\ SoundIn(F, n, H \ {p}, L)
         /\ Throughout(S \cup {n}, F, H \ {p}, L \cup {p})
<1>1. SoundIn(F, n, H \ {p}, L)
  <2>1. SoundIn(F, m, H, L)
    BY OneOf
  <2> QED BY <2>1, NewHead
<1>2. ASSUME NEW k \in S \cup {n}, NEW l \in S \cup {n}
      PROVE  SoundIn(F, Mix(k.head, l.next), H \ {p}, L \cup {p})
  <2>0. /\ F \in SUBSET F /\ (H \ {p}) \in SUBSET H /\ (H \ {p}) \in SUBSET (H \ {p})
        /\ L \cup (H \ (H \ {p})) \subseteq L \cup {p}
        /\ L \cup ((H \ {p}) \ (H \ {p})) \subseteq L \cup {p}
    OBVIOUS
  <2>1. PICK c \in S : l.next = c.next
    OBVIOUS
  <2>2. CASE k \in S
    <3>1. SoundIn(F, Mix(k.head, l.next), H, L)
      BY <2>1, <2>2 DEF Throughout
    <3> QED BY <2>0, <3>1, Weaker
  <2>3. CASE k = n
    <3>1. SoundIn(F, Mix(m.head, c.next), H, L)
      BY DEF Throughout
    <3>2. Mix(m.head, c.next).next = c.next /\ Mix(m.head, c.next).head = m.head
      BY DEF Mix
    <3>3. Mix(k.head, l.next).head = p /\ Mix(k.head, l.next).next = c.next
      BY <2>1, <2>3 DEF Mix
    <3>4. SoundIn(F, Mix(k.head, l.next), H \ {p}, L)
      BY <3>1, <3>2, <3>3, NewHead
    <3> QED BY <2>0, <3>4, Weaker
  <2> QED BY <2>2, <2>3
<1> QED BY <1>1, <1>2 DEF Throughout

LEMMA AllocatePageKeeps ==
  ASSUME Inv, Typed', AllocatePage, damage' = {}
  PROVE  Inv'
<1> USE DEF NoPage
<1> DEFINE head == AsFreelist(cache[Offset(meta.head)])
<1>1. /\ Idle /\ up /\ todo = <<>> /\ ret = 0
      /\ UNCHANGED <<up, cache, disk, live, crashes, faults>>
      /\ cache \in Files /\ disk \in Files
      /\ meta \in [head : PageId \cup {INVALID_PAGE_ID}, next : 1..(MaxPage + 1)]
      /\ live \subseteq PageId
  BY DEF AllocatePage, Idle, Inv, Typed
<1>2. PICK L \in SUBSET PageId :
        /\ faults = 0 => Cardinality(L) <= crashes
        /\ Anywhere(meta, live, L)
        /\ Throughout(Known, Mixes(cache, disk), live, L)
        /\ meta \in Known
  BY <1>1, WhenIdle
<1>3. Formatted'
  BY <1>1 DEF Inv, Formatted
<1>4. Mixes(cache, disk) \in SUBSET Files
  BY <1>1, MixTypes
<1>5. \A k \in Known' : k \in Known \cup {meta'}
  BY <1>1 DEF Known
<1>6. \A q \in PageId : q \in Slot /\ One(q) = {q}
  BY PagesAreSlots DEF One
<1>7. ASSUME NEW q \in PageId, q \notin live, ret' = q, todo' = UpdateMetadata,
             SoundIn(Mixes(cache, disk), meta', live \cup {q}, L),
             Throughout(Known \cup {meta'}, Mixes(cache, disk), live, L \cup {q})
      PROVE  Inv'
  <2>1. Throughout(Known', Mixes(cache, disk), live, L \cup {q})
    BY <1>5, <1>7 DEF Throughout
  <2>2. Recoverable(q, L)'
    BY <1>1, <1>6, <2>1 DEF Recoverable
  <2>3. BeforeMeta(q, L)'
    BY <1>1, <1>6, <1>7 DEF BeforeMeta, Anywhere
  <2> QED BY <1>1, <1>2, <1>3, <1>6, <1>7, <2>2, <2>3, Rebuilt DEF Accounted, Stage
<1>8. CASE /\ meta.head = INVALID_PAGE_ID /\ meta.next <= MaxPage
           /\ ret' = meta.next /\ meta' = [meta EXCEPT !.next = @ + 1]
           /\ todo' = UpdateMetadata
           /\ damage' = IF meta.next >= OffsetWrap THEN damage \cup {"offset"} ELSE damage
  <2>1. /\ meta.next \in PageId /\ meta.next \in Nat \ {0}
        /\ meta'.next = meta.next + 1 /\ meta'.head = meta.head
    BY <1>1, <1>8, DiskAssumption DEF PageId
  <2>2. meta'.next <= OffsetWrap
    <3>1. ~(meta.next >= OffsetWrap)
      BY <1>8
    <3> QED BY <2>1, <3>1, DiskAssumption
  <2>3. meta.next \notin live
    BY <1>1, <1>2, <2>1, NextNotHeld DEF Anywhere
  <2>4. /\ SoundIn(Mixes(cache, disk), meta', live \cup {meta.next}, L)
        /\ Throughout(Known \cup {meta'}, Mixes(cache, disk), live, L \cup {meta.next})
    BY <1>2, <1>4, <2>1, <2>2, FreshThroughout
  <2> QED BY <1>7, <1>8, <2>1, <2>3, <2>4
<1>9. CASE /\ meta.head # INVALID_PAGE_ID /\ head.ids = <<>>
           /\ ret' = meta.head /\ meta' = [meta EXCEPT !.head = head.next]
           /\ todo' = UpdateMetadata
  <2>1. /\ meta.head \in PageId /\ meta.head \notin live /\ cache[meta.head] \in Freed
        /\ head = cache[meta.head]
    BY <1>1, <1>2, <1>9, NotHeld DEF Anywhere
  <2>2. meta'.next = meta.next /\ meta'.head = cache[meta.head].next
    BY <1>1, <1>9, <2>1
  <2>3. /\ SoundIn(Mixes(cache, disk), meta', live \cup {meta.head}, L)
        /\ Throughout(Known \cup {meta'}, Mixes(cache, disk), live, L \cup {meta.head})
    BY <1>1, <1>2, <1>9, <2>1, <2>2, PoppedThroughout
  <2> QED BY <1>7, <1>9, <2>1, <2>3
<1>10. CASE /\ meta.head # INVALID_PAGE_ID /\ head.ids # <<>>
            /\ ret' = Last(head.ids) /\ meta' = meta
            /\ todo' = WriteFreelist(meta.head, [head EXCEPT !.ids = Front(@)])
                         \o UpdateMetadata
  <2>0. PICK q : q = ret'
    OBVIOUS
  <2>1. /\ q \in PageId /\ q \notin live
        /\ cache[meta.head] \in Freed /\ meta.head \in PageId
    BY <1>1, <1>2, <1>10, <2>0, NotHeld DEF Anywhere
  <2>2. disk[0] \in Header
    <3>1. cache[meta.head] # Absent
      BY <2>1 DEF Freed, Absent
    <3> QED BY <2>1, <3>1 DEF Inv, Formatted
  <2>3. Throughout(Known', Mixes(cache, disk), live, L \cup {q})
    <3>1. \A k \in Known' : \E c, d \in Known : k.head = c.head /\ k.next = d.next
      BY <1>2, <1>5, <1>10
    <3>2. L \cup (live \ live) \subseteq L \cup {q} /\ live \in SUBSET live
      OBVIOUS
    <3> QED BY <1>2, <1>4, <3>1, <3>2, WeakerThroughout
  <2>4. Recoverable(q, L)'
    BY <1>1, <1>6, <2>1, <2>3 DEF Recoverable
  <2>5. TakingId(q, L)'
    BY <1>1, <1>2, <1>10, <2>0, <2>2 DEF TakingId, Anywhere
  <2>6. Accounted(q, L)'
    BY <1>1, <1>2, <2>1, <2>4, <2>5 DEF Accounted, Stage
  <2> QED BY <1>1, <1>3, <1>6, <2>1, <2>6, Rebuilt
<1> QED BY <1>8, <1>9, <1>10 DEF AllocatePage

LEMMA ReturnKeeps ==
  ASSUME Inv, Typed', Return
  PROVE  Inv'
<1>1. PICK p \in Slot, L \in SUBSET PageId : Accounted(p, L)
  BY DEF Inv
<1>2. /\ up /\ todo = <<>> /\ ret # NoPage /\ live' = live \cup {ret} /\ ret' = NoPage
      /\ UNCHANGED <<up, meta, cache, disk, todo, crashes, faults>>
      /\ cache \in Files /\ disk \in Files /\ ret \in Slot
  BY DEF Return, Inv, Typed
<1>3. /\ p = ret /\ disk = cache /\ cache[0] = Metadata(meta)
      /\ Anywhere(meta, live \cup One(ret), L)
  BY <1>1, <1>2, Located DEF Accounted, Between
<1>4. One(ret) = {ret} /\ live' \cup One(0) = live' /\ L \cup One(0) = L /\ ret \in PageId
  BY <1>2 DEF One, NoPage, PageId, Slot
<1>5. SoundIn(Mixes(cache, disk), meta, live', L)
  BY <1>2, <1>3, <1>4 DEF Anywhere
<1>6. cache[0] \in Header /\ cache[0].head = meta.head /\ cache[0].next = meta.next
  BY <1>3, MetadataCell DEF Inv
<1>7. Throughout(Known', Mixes(cache, disk), live', L)
  <2>1. \A k \in Known' : k.head = meta.head /\ k.next = meta.next
    BY <1>2, <1>3, <1>6 DEF Known
  <2>2. Mixes(cache, disk) \in SUBSET Files
    BY <1>2, MixTypes
  <2> QED BY <1>5, <2>1, <2>2, Spread
<1>8. Formatted'
  BY <1>2, <1>3, <1>6 DEF Inv, Formatted
<1>9. Recoverable(0, L)'
  BY <1>2, <1>4, <1>7 DEF Recoverable
<1>10. Between(0, L)'
  BY <1>2, <1>3, <1>4, <1>5 DEF Between, NoPage, Anywhere
<1>11. 0 \notin live' /\ (faults' = 0 => Cardinality(L) <= crashes')
  BY <1>1, <1>2, PagesAreSlots DEF Accounted, Typed
<1> QED BY <1>2, <1>8, <1>9, <1>10, <1>11, PagesAreSlots, Rebuilt DEF Accounted, Stage

LEMMA DeallocatePageKeeps ==
  ASSUME Inv, Typed', NEW q \in live, DeallocatePage(q)
  PROVE  Inv'
<1> USE DEF NoPage
<1>1. /\ Idle /\ up /\ todo = <<>> /\ ret = 0 /\ live' = live \ {q}
      /\ UNCHANGED <<up, meta, cache, disk, ret, crashes, faults>>
      /\ cache \in Files /\ disk \in Files /\ live \subseteq PageId
      /\ q \in PageId
  BY DEF DeallocatePage, Idle, Inv, Typed
<1>2. PICK L \in SUBSET PageId :
        /\ faults = 0 => Cardinality(L) <= crashes
        /\ Throughout(Known, Mixes(cache, disk), live, L)
        /\ faults = 0 => cache[0] = Metadata(meta)
  BY <1>1, WhenIdle
<1>3. Formatted'
  BY <1>1 DEF Inv, Formatted
<1>4. disk[0] \in Header
  BY DEF Inv, Formatted
<1>5. live' \cup {q} = live /\ q \notin live' /\ q \in Slot /\ One(q) = {q} /\ Known' = Known
  BY <1>1, PagesAreSlots DEF One, Known
<1>6. Pending(q, L)'
  BY <1>1, <1>2, <1>4, <1>5 DEF Pending
<1>7. Throughout(Known, Mixes(cache, disk), live \ {q}, L \cup {q})
  <2>1. /\ Mixes(cache, disk) \in SUBSET Files
        /\ live \ {q} \in SUBSET live /\ L \cup (live \ (live \ {q})) \subseteq L \cup {q}
    BY <1>1, MixTypes
  <2> QED BY <1>2, <2>1, WeakerThroughout
<1>8. Recoverable(q, L)'
  BY <1>1, <1>5, <1>7 DEF Recoverable
<1>9. WritingHead(q, L)' \/ ListingId(q, L)'
  BY <1>1, <1>6 DEF DeallocatePage, WritingHead, ListingId
<1>10. Accounted(q, L)'
  BY <1>1, <1>2, <1>5, <1>8, <1>9 DEF Accounted, Stage
<1> QED BY <1>1, <1>3, <1>5, <1>10, Rebuilt

(* Whatever is written to page 0 or to a page somebody holds. *)
LEMMA OverwrittenThroughout ==
  ASSUME NEW a \in Files, NEW b \in Files, NEW S, NEW H, NEW L, Throughout(S, Mixes(a, b), H, L),
         NEW q \in Slot, q \in H \cup {0}, NEW x \in Cell, NEW z, z = [a EXCEPT ![q] = x]
  PROVE  Throughout(S, Mixes(z, b), H, L)
<1>1. z \in Files /\ \A s \in Slot \ {q} : z[s] = a[s]
  BY DEF Files
<1>2. \A h, n : SoundIn(Mixes(a, b), Mix(h, n), H, L) => SoundIn(Mixes(z, b), Mix(h, n), H, L)
  BY <1>1, Overwritten
<1>3. \A k \in S : \E c, d \in S : k.head = c.head /\ k.next = d.next
  OBVIOUS
<1> QED BY <1>2, <1>3, Carried

(* The caller's page in the file, as it should be or not. *)
LEMMA CallerWrites ==
  ASSUME Inv, Typed', NEW q \in live, Idle, NEW x \in Cell,
         cache' = [cache EXCEPT ![Offset(q)] = x],
         UNCHANGED <<up, meta, disk, todo, ret, live, crashes>>,
         faults' = faults \/ faults' = faults + 1
  PROVE  Inv'
<1> USE DEF NoPage
<1>1. /\ up /\ todo = <<>> /\ ret = 0
      /\ cache \in Files /\ disk \in Files /\ live \subseteq PageId /\ q \in PageId
      /\ faults \in Nat
  BY DiskAssumption DEF Idle, Inv, Typed
<1>2. PICK L \in SUBSET PageId :
        /\ faults = 0 => Cardinality(L) <= crashes
        /\ Anywhere(meta, live, L)
        /\ Throughout(Known, Mixes(cache, disk), live, L)
        /\ faults = 0 => cache[0] = Metadata(meta)
        /\ meta \in Known
  BY WhenIdle
<1>3. q \in Slot /\ q # 0 /\ Offset(q) = q
  BY <1>1, <1>2, InPlace, PagesAreSlots DEF Anywhere
<1>4. /\ cache' \in Files /\ cache'[0] = cache[0]
      /\ \A s \in Slot \ {q} : cache'[s] = cache[s]
  BY <1>1, <1>3, PagesAreSlots DEF Files
<1>5. Formatted'
  BY <1>4 DEF Inv, Formatted
<1>6. Known' = Known /\ One(0) = {} /\ L \cup {} = L /\ live \cup {} = live
  BY <1>4 DEF Known, One
<1>7. Throughout(Known, Mixes(cache', disk), live, L)
  BY <1>1, <1>2, <1>3, OverwrittenThroughout
<1>8. Recoverable(0, L)'
  BY <1>6, <1>7 DEF Recoverable
<1>9. SoundIn(Mixes(cache', disk), meta, live, L)
  <2>1. Mixes(cache', disk) \in SUBSET Files
    BY <1>1, <1>4, MixTypes
  <2> QED BY <1>2, <1>7, <2>1, OneOf
<1>10. faults' = 0 => faults = 0
  BY <1>1
<1>11. Between(0, L)'
  BY <1>1, <1>2, <1>4, <1>6, <1>9, <1>10 DEF Between, Anywhere
<1>12. 0 \notin live' /\ (faults' = 0 => Cardinality(L) <= crashes')
  BY <1>1, <1>2, <1>10, PagesAreSlots
<1>13. Accounted(0, L)'
  BY <1>8, <1>11, <1>12 DEF Accounted, Stage
<1> QED BY <1>1, <1>5, <1>13, PagesAreSlots, Rebuilt

LEMMA WritePageKeeps ==
  ASSUME Inv, Typed', NEW q \in live,
         FailingWritePage(q) \/ \E d \in Data : WritePage(q, d)
  PROVE  Inv'
<1>1. CASE FailingWritePage(q)
  BY <1>1, CallerWrites DEF FailingWritePage, Cell
<1>2. ASSUME NEW d \in Data, WritePage(q, d) PROVE Inv'
  BY <1>2, CallerWrites DEF WritePage, Cell
<1> QED BY <1>1, <1>2

-----------------------------------------------------------------------------
(* The writes of a call, done or not. *)

Taken(x) == [x EXCEPT !.ids = Front(@)]
Listed(x, p) == [x EXCEPT !.ids = Append(@, p)]

LEMMA TakingWrites ==
  ASSUME Typed, NEW p, NEW L, TakingId(p, L), Recoverable(p, L),
         NEW h, h = meta.head,
         NEW z, z = [cache EXCEPT ![h] = Taken(cache[h])]
  PROVE  /\ h \in PageId \ live /\ Offset(h) = h /\ cache[h] \in Freed /\ Taken(cache[h]) \in Freed
         /\ ret \in PageId /\ p = ret
         /\ Doing(todo, PutPage(h, Taken(cache[h])), <<Sync>> \o UpdateMetadata)
         /\ SoundIn({z}, meta, live \cup {ret}, L)
         /\ Throughout(Known, Mixes(z, disk), live, L \cup One(p))
<1>0. cache \in Files /\ disk \in Files /\ live \subseteq PageId
  BY DEF Typed
<1>1. /\ h # INVALID_PAGE_ID /\ Anywhere(meta, live, L)
      /\ AsFreelist(cache[Offset(h)]).ids # <<>>
      /\ ret = Last(AsFreelist(cache[Offset(h)]).ids) /\ p = ret
  BY DEF TakingId
<1>2. /\ h \in PageId \ live /\ cache[h] \in Freed /\ Offset(h) = h
      /\ AsFreelist(cache[Offset(h)]) = cache[h]
      /\ (cache[h].ids # <<>> => Last(cache[h].ids) \in PageId \ live)
  BY <1>0, <1>1, NotHeld DEF Anywhere
<1>3. cache[h].ids # <<>> /\ ret = Last(cache[h].ids) /\ ret \in PageId
  BY <1>1, <1>2
<1>4. Doing(todo, PutPage(h, Taken(cache[h])), <<Sync>> \o UpdateMetadata)
  <2>1. todo = WriteFreelist(h, Taken(cache[h])) \o UpdateMetadata
    BY <1>2 DEF TakingId, Taken
  <2> QED BY <2>1, PageScripts
<1>5. /\ Taken(cache[h]) \in Freed /\ Taken(cache[h]).next = cache[h].next
      /\ Drops(cache[h].ids, Taken(cache[h]).ids, ret)
  <2>1. cache[h].ids \in Seq(PageId)
    BY <1>2 DEF Freed
  <2>2. Front(cache[h].ids) \in Seq(PageId)
    BY <1>3, <2>1, Popped
  <2>3. Taken(cache[h]).ids = Front(cache[h].ids)
    BY <1>2 DEF Taken, Freed
  <2> QED BY <1>2, <1>3, <2>2, <2>3 DEF Taken, Freed, Drops
<1>6. /\ z \in Files /\ OnePage(cache, z, h) /\ z[h] = Taken(cache[h])
  <2>1. h \in Slot /\ Taken(cache[h]) \in Cell
    BY <1>2, <1>5, PagesAreSlots DEF Cell
  <2>2. z \in Files /\ z[h] = Taken(cache[h]) /\ \A s \in Slot \ {h} : z[s] = cache[s]
    BY <1>0, <2>1 DEF Files
  <2> QED BY <1>2, <1>5, <2>2 DEF OnePage
<1>7. ASSUME NEW m, NEW M, SoundIn(Mixes(cache, disk), m, live, M)
      PROVE  /\ SoundIn(Mixes(z, disk), m, live, M \cup {ret})
             /\ h = m.head => SoundIn({z}, m, live \cup {ret}, M)
  <2>1. Drops(cache[h].ids, z[h].ids, ret) /\ h \in PageId
    BY <1>2, <1>5, <1>6
  <2> QED BY <1>0, <1>6, <1>7, <2>1, TakingAnywhere
<1>8. SoundIn({z}, meta, live \cup {ret}, L)
  BY <1>1, <1>7 DEF Anywhere
<1>9. Throughout(Known, Mixes(z, disk), live, L \cup One(p))
  <2>1. (L \cup One(p)) \cup {ret} = L \cup One(p)
    BY <1>1, <1>3, PagesAreSlots DEF One, NoPage
  <2>2. \A i, n : SoundIn(Mixes(cache, disk), Mix(i, n), live, L \cup One(p))
                    => SoundIn(Mixes(z, disk), Mix(i, n), live, (L \cup One(p)) \cup {ret})
    BY <1>7
  <2>3. \A k \in Known : \E c, d \in Known : k.head = c.head /\ k.next = d.next
    OBVIOUS
  <2> QED BY <2>1, <2>2, <2>3, Carried DEF Recoverable
<1> QED BY <1>1, <1>2, <1>3, <1>4, <1>5, <1>8, <1>9

(* What Pending says of page p. *)
LEMMA InTransit ==
  ASSUME Typed, Formatted, NEW p \in Slot, NEW L, Pending(p, L)
  PROVE  /\ p \in PageId /\ One(p) = {p} /\ ret = NoPage
         /\ disk[0] \in Header /\ cache[0] \in Header
         /\ Throughout(Known, Mixes(cache, disk), live \cup {p}, L)
         /\ Known # {} /\ Offset(p) = p
         /\ faults = 0 => cache[0] = Metadata(meta)
<1>1. /\ p \in PageId /\ One(p) = {p} /\ ret = NoPage
      /\ disk[0] \in Header /\ cache[0] \in Header
      /\ Throughout(Known, Mixes(cache, disk), live \cup {p}, L)
      /\ faults = 0 => cache[0] = Metadata(meta)
  BY PagesAreSlots DEF Pending, Formatted, One, NoPage
<1>2. disk[0] \in Known
  BY <1>1 DEF Known
<1>3. cache \in Files /\ disk \in Files
  BY DEF Typed
<1>4. SoundIn(Mixes(cache, disk), disk[0], live \cup {p}, L)
  BY <1>1, <1>2, <1>3, MixTypes, OneOf
<1>5. Offset(p) = p
  BY <1>1, <1>3, <1>4, InPlace
<1> QED BY <1>1, <1>2, <1>5

(* The page in transit becomes, or fails to become, the new head. *)
LEMMA HeadWrites ==
  ASSUME Typed, Formatted, NEW p \in Slot, NEW L, Pending(p, L),
         NEW x \in Cell, NEW z, z = [cache EXCEPT ![p] = x]
  PROVE  /\ Throughout(Known, Mixes(z, disk), live \cup {p}, L)
         /\ Throughout(Known, Mixes(z, disk), live, L \cup One(p))
<1>1. /\ p \in PageId /\ One(p) = {p}
      /\ Throughout(Known, Mixes(cache, disk), live \cup {p}, L)
      /\ cache \in Files /\ disk \in Files
  BY InTransit DEF Typed
<1>2. Throughout(Known, Mixes(z, disk), live \cup {p}, L)
  BY <1>1, OverwrittenThroughout
<1>3. /\ Mixes(z, disk) \in SUBSET Files
      /\ live \in SUBSET (live \cup {p}) /\ L \cup ((live \cup {p}) \ live) \subseteq L \cup One(p)
  <2>1. z \in Files
    BY <1>1 DEF Files
  <2> QED BY <1>1, <2>1, MixTypes
<1>4. Throughout(Known, Mixes(z, disk), live, L \cup One(p))
  BY <1>2, <1>3, WeakerThroughout
<1> QED BY <1>2, <1>4

LEMMA ListingWrites ==
  ASSUME Typed, Formatted, meta \in Known, NEW p \in Slot, NEW L, ListingId(p, L), p \notin live,
         NEW h, h = meta.head,
         NEW z, z = [cache EXCEPT ![h] = Listed(cache[h], p)]
  PROVE  /\ h \in PageId \ live /\ Offset(h) = h /\ cache[h] \in Freed
         /\ Listed(cache[h], p) \in Freed
         /\ Doing(todo, PutPage(h, Listed(cache[h], p)), <<Sync>>)
         /\ SoundIn({z}, meta, live, L)
         /\ Throughout(Known, Mixes(z, disk), live, L \cup One(p))
<1>0. cache \in Files /\ disk \in Files /\ live \subseteq PageId /\ h # INVALID_PAGE_ID /\ Pending(p, L)
  BY DEF Typed, ListingId
<1>1. /\ p \in PageId /\ One(p) = {p}
      /\ Throughout(Known, Mixes(cache, disk), live \cup {p}, L)
      /\ SoundIn(Mixes(cache, disk), meta, live \cup {p}, L)
  BY <1>0, InTransit, OneOf, MixTypes
<1>2. /\ h \in PageId \ (live \cup {p}) /\ cache[h] \in Freed /\ Offset(h) = h
      /\ AsFreelist(cache[Offset(h)]) = cache[h]
  BY <1>0, <1>1, NotHeld
<1>3. Doing(todo, PutPage(h, Listed(cache[h], p)), <<Sync>>)
  <2>1. todo = WriteFreelist(h, Listed(cache[h], p))
    BY <1>2 DEF ListingId, Listed
  <2> QED BY <2>1, PageScripts
<1>4. /\ Listed(cache[h], p) \in Freed /\ Listed(cache[h], p).next = cache[h].next
      /\ Adds(cache[h].ids, Listed(cache[h], p).ids, p)
  <2>1. cache[h].ids \in Seq(PageId)
    BY <1>2 DEF Freed
  <2>2. Append(cache[h].ids, p) \in Seq(PageId)
    BY <1>1, <2>1
  <2>3. Listed(cache[h], p).ids = Append(cache[h].ids, p)
    BY <1>2 DEF Listed, Freed
  <2> QED BY <1>2, <2>2, <2>3 DEF Listed, Freed, Adds
<1>5. z \in Files /\ OnePage(cache, z, h) /\ z[h] = Listed(cache[h], p)
  <2>1. h \in Slot /\ Listed(cache[h], p) \in Cell
    BY <1>2, <1>4, PagesAreSlots DEF Cell
  <2>2. z \in Files /\ z[h] = Listed(cache[h], p) /\ \A s \in Slot \ {h} : z[s] = cache[s]
    BY <1>0, <2>1 DEF Files
  <2> QED BY <1>2, <1>4, <2>2 DEF OnePage
<1>6. (live \cup {p}) \ {p} = live /\ L \cup {p} = L \cup One(p)
  BY <1>1
<1>7. ASSUME NEW m, SoundIn(Mixes(cache, disk), m, live \cup {p}, L)
      PROVE  /\ SoundIn(Mixes(z, disk), m, (live \cup {p}) \ {p}, L \cup {p})
             /\ h = m.head => SoundIn({z}, m, (live \cup {p}) \ {p}, L)
  <2>1. p \in live \cup {p} /\ h \in PageId /\ Adds(cache[h].ids, z[h].ids, p)
    BY <1>2, <1>4, <1>5
  <2> QED BY <1>0, <1>1, <1>5, <1>7, <2>1, ListingAnywhere
<1>8. SoundIn({z}, meta, live, L)
  BY <1>1, <1>6, <1>7
<1>9. Throughout(Known, Mixes(z, disk), live, L \cup One(p))
  <2>1. \A i, n : SoundIn(Mixes(cache, disk), Mix(i, n), live \cup {p}, L)
                    => SoundIn(Mixes(z, disk), Mix(i, n), live, L \cup One(p))
    BY <1>6, <1>7
  <2>2. \A k \in Known : \E c, d \in Known : k.head = c.head /\ k.next = d.next
    OBVIOUS
  <2> QED BY <1>1, <2>1, <2>2, Carried
<1> QED BY <1>2, <1>3, <1>4, <1>8, <1>9

LEMMA PwriteKeeps ==
  ASSUME Inv, Typed', Pwrite
  PROVE  Inv'
<1> USE DEF NoPage
<1>1. PICK p \in Slot, L \in SUBSET PageId : Accounted(p, L)
  BY DEF Inv
<1>2. /\ todo # <<>> /\ Head(todo).do = "pwrite" /\ todo' = Tail(todo)
      /\ cache' = [cache EXCEPT ![Offset(Head(todo).page)] = Head(todo).content]
      /\ UNCHANGED <<up, meta, disk, ret, live, crashes, faults>>
      /\ cache \in Files /\ disk \in Files /\ up /\ live \subseteq PageId
      /\ Typed /\ Formatted
  BY DEF Pwrite, Inv, Typed
<1>3. /\ Recoverable(p, L) /\ Stage(p, L)
      /\ p \notin live /\ (faults = 0 => Cardinality(L) <= crashes)
      /\ meta \in Known
  BY <1>1, <1>2 DEF Accounted, Known
<1>4. ASSUME NEW q, NEW x, NEW rest, Doing(todo, PutPage(q, x), rest), Offset(q) = q,
             q \in PageId, x \in Freed
      PROVE  /\ todo' = rest /\ cache' = [cache EXCEPT ![q] = x]
             /\ cache' \in Files /\ cache'[q] = x /\ cache'[0] = cache[0]
             /\ Formatted' \/ disk[0] \notin Header
  <2>1. Head(todo).page = q /\ Head(todo).content = x /\ Tail(todo) = rest
    BY <1>4, Steps DEF Doing
  <2>2. cache' = [cache EXCEPT ![q] = x] /\ q \in Slot /\ q # 0 /\ x \in Cell
    BY <1>2, <1>4, <2>1, PagesAreSlots DEF Cell
  <2>3. cache' \in Files /\ cache'[q] = x /\ cache'[0] = cache[0]
    BY <1>2, <2>2, PagesAreSlots DEF Files
  <2> QED BY <1>2, <2>1, <2>2, <2>3 DEF Formatted
<1>5. ASSUME cache'[0] = cache[0], Throughout(Known, Mixes(cache', disk), live, L \cup One(p))
      PROVE  Recoverable(p, L)' /\ Known' = Known
  <2>1. Known' = Known
    BY <1>2, <1>5 DEF Known
  <2> QED BY <1>2, <1>5, <2>1 DEF Recoverable
<1>6. CASE TakingId(p, L)
  <2> DEFINE h == meta.head
             x == Taken(cache[h])
  <2>1. /\ h \in PageId \ live /\ Offset(h) = h /\ x \in Freed
        /\ ret \in PageId /\ p = ret
        /\ Doing(todo, PutPage(h, x), <<Sync>> \o UpdateMetadata)
    BY <1>2, <1>3, <1>6, TakingWrites
  <2>2. /\ todo' = <<Sync>> \o UpdateMetadata /\ cache' = [cache EXCEPT ![h] = x]
        /\ cache'[0] = cache[0] /\ (Formatted' \/ disk[0] \notin Header)
    BY <1>4, <2>1
  <2>3. /\ SoundIn({cache'}, meta, live \cup {ret}, L)
        /\ Throughout(Known, Mixes(cache', disk), live, L \cup One(p))
    BY <1>2, <1>3, <1>6, <2>2, TakingWrites
  <2>4. disk[0] \in Header
    BY <1>6 DEF TakingId
  <2>5. TookId(p, L)'
    BY <1>2, <2>1, <2>2, <2>3, <2>4, PagesAreSlots DEF TookId, Here
  <2>6. Accounted(p, L)'
    BY <1>2, <1>3, <1>5, <2>2, <2>3, <2>5 DEF Accounted, Stage
  <2> QED BY <1>2, <2>2, <2>4, <2>6, Rebuilt
<1>7. CASE WritingHead(p, L)
  <2> DEFINE x == FreelistPage(meta.head, <<>>)
  <2>1. Pending(p, L)
    BY <1>7 DEF WritingHead
  <2>2. /\ p \in PageId /\ Offset(p) = p /\ disk[0] \in Header /\ ret = 0
        /\ (faults = 0 => cache[0] = Metadata(meta))
    BY <1>2, <2>1, InTransit
  <2>3. x \in Freed /\ x \in Cell
    BY <1>2 DEF Typed, FreelistPage, Freed, Cell
  <2>4. Doing(todo, PutPage(p, x), <<Sync>> \o <<SetHead(p)>> \o UpdateMetadata)
    BY <1>7, PageScripts DEF WritingHead
  <2> HIDE DEF x
  <2>5. /\ todo' = <<Sync>> \o <<SetHead(p)>> \o UpdateMetadata
        /\ cache' = [cache EXCEPT ![p] = x] /\ cache'[p] = x
        /\ cache'[0] = cache[0] /\ (Formatted' \/ disk[0] \notin Header)
    BY <1>4, <2>2, <2>3, <2>4
  <2>6. /\ Throughout(Known, Mixes(cache', disk), live \cup {p}, L)
        /\ Throughout(Known, Mixes(cache', disk), live, L \cup One(p))
    BY <1>2, <2>1, <2>3, <2>5, HeadWrites
  <2>7. Recoverable(p, L)' /\ Known' = Known
    BY <1>5, <2>5, <2>6
  <2>8. Pending(p, L)'
    BY <1>2, <2>2, <2>5, <2>6, <2>7 DEF Pending
  <2>9. WroteHead(p, L)'
    BY <1>2, <2>5, <2>8 DEF WroteHead, x
  <2>10. Accounted(p, L)'
    BY <1>2, <1>3, <2>7, <2>9 DEF Accounted, Stage
  <2> QED BY <1>2, <2>2, <2>5, <2>10, Rebuilt
<1>8. CASE ListingId(p, L)
  <2> DEFINE h == meta.head
             x == Listed(cache[h], p)
  <2>0. \A z : z = [cache EXCEPT ![h] = x] =>
          /\ h \in PageId \ live /\ Offset(h) = h /\ x \in Freed
          /\ Doing(todo, PutPage(h, x), <<Sync>>)
          /\ SoundIn({z}, meta, live, L)
          /\ Throughout(Known, Mixes(z, disk), live, L \cup One(p))
    BY <1>2, <1>3, <1>8, ListingWrites
  <2>1. /\ h \in PageId \ live /\ Offset(h) = h /\ x \in Freed
        /\ Doing(todo, PutPage(h, x), <<Sync>>)
    BY <2>0
  <2>2. /\ todo' = <<Sync>> /\ cache' = [cache EXCEPT ![h] = x]
        /\ cache'[0] = cache[0] /\ (Formatted' \/ disk[0] \notin Header)
    BY <1>4, <2>1
  <2>3. /\ SoundIn({cache'}, meta, live, L)
        /\ Throughout(Known, Mixes(cache', disk), live, L \cup One(p))
    BY <2>0, <2>2
  <2>4. /\ disk[0] \in Header /\ ret = 0 /\ (faults = 0 => cache[0] = Metadata(meta))
        /\ live \cup One(0) = live
    BY <1>2, <1>8, InTransit DEF ListingId, One
  <2>5. LastSync(p, L)'
    BY <1>2, <2>2, <2>3, <2>4 DEF LastSync, Here
  <2>6. Accounted(p, L)'
    BY <1>2, <1>3, <1>5, <2>2, <2>3, <2>5 DEF Accounted, Stage
  <2> QED BY <1>2, <2>2, <2>4, <2>6, Rebuilt
<1> QED BY <1>2, <1>3, <1>6, <1>7, <1>8, Located

(* Page 0 as a write of the metadata leaves it, complete or not. *)
LEMMA HeaderWrites ==
  ASSUME Typed, up, NEW H, NEW L, Throughout(Known, Mixes(cache, disk), H, L),
         NEW x \in Cell, NEW z, z = [cache EXCEPT ![0] = x]
  PROVE  Throughout(Known, Mixes(z, disk), H, L)
<1>1. cache \in Files /\ disk \in Files /\ 0 \in Slot /\ 0 \in H \cup {0}
  BY PagesAreSlots DEF Typed
<1> QED BY <1>1, OverwrittenThroughout

LEMMA PwriteMetadataKeeps ==
  ASSUME Inv, Typed', PwriteMetadata
  PROVE  Inv'
<1> USE DEF NoPage
<1>1. PICK p \in Slot, L \in SUBSET PageId : Accounted(p, L)
  BY DEF Inv
<1>2. /\ todo # <<>> /\ Head(todo) = PutMeta /\ todo' = Tail(todo)
      /\ cache' = [cache EXCEPT ![0] = Metadata(meta)]
      /\ UNCHANGED <<up, meta, disk, ret, live, crashes, faults>>
      /\ cache \in Files /\ disk \in Files /\ up /\ live \subseteq PageId
      /\ Typed
  BY DEF PwriteMetadata, Inv, Typed
<1>3. /\ Throughout(Known, Mixes(cache, disk), live, L \cup One(p))
      /\ p \notin live /\ (faults = 0 => Cardinality(L) <= crashes)
  BY <1>1 DEF Accounted, Recoverable
<1>4. /\ Metadata(meta) \in Header /\ Metadata(meta) \in Cell
      /\ Metadata(meta).head = meta.head /\ Metadata(meta).next = meta.next
  BY <1>2, MetadataCell
<1>5. /\ cache' \in Files /\ cache'[0] = Metadata(meta)
      /\ \A s \in Slot \ {0} : cache'[s] = cache[s]
  BY <1>2, <1>4, PagesAreSlots DEF Files
<1>6. Formatted'
  <2>1. \A s \in PageId : cache'[s] = cache[s]
    BY <1>5, PagesAreSlots
  <2> QED BY <1>2, <1>4, <1>5, <2>1 DEF Inv, Formatted
<1>7. Recoverable(p, L)'
  <2>1. Throughout(Known, Mixes(cache', disk), live, L \cup One(p))
    BY <1>2, <1>3, <1>4, HeaderWrites
  <2>2. \A k \in Known' : k \in Known \/ k = Metadata(meta)
    BY <1>2, <1>5 DEF Known
  <2>3. meta \in Known
    BY <1>2 DEF Known
  <2>4. \A k \in Known' : \E a, b \in Known : k.head = a.head /\ k.next = b.next
    BY <1>4, <2>2, <2>3
  <2>5. Throughout(Known', Mixes(cache', disk), live, L \cup One(p))
    BY <2>1, <2>4, Carried
  <2> QED BY <1>2, <2>5 DEF Recoverable
<1>8. Mixes(cache', disk) \in SUBSET Files /\ cache' \in Mixes(cache', disk)
  BY <1>2, <1>5, MixTypes
<1>9. ASSUME NEW H, Anywhere(meta, H, L)
      PROVE  SoundIn(Mixes(cache', disk), meta, H, L) /\ SoundIn({cache'}, meta, H, L)
  <2>1. SoundIn(Mixes(cache', disk), meta, H, L)
    BY <1>2, <1>5, <1>9, PagesAreSlots, Overwritten DEF Anywhere
  <2>2. {cache'} \in SUBSET Mixes(cache', disk) /\ H \in SUBSET H /\ L \cup (H \ H) \subseteq L
    BY <1>8
  <2> QED BY <1>8, <2>1, <2>2, Weaker
<1>10. CASE BeforeMeta(p, L)
  <2>1. todo' = <<Sync>>
    BY <1>2, <1>10, Scripts DEF BeforeMeta, Doing
  <2>2. ret \in {p, 0} /\ SoundIn({cache'}, meta, live \cup One(ret), L)
    BY <1>9, <1>10 DEF BeforeMeta
  <2>3. LastSync(p, L)'
    BY <1>2, <1>5, <2>1, <2>2 DEF LastSync, Here
  <2>4. Accounted(p, L)'
    BY <1>2, <1>3, <1>7, <2>3 DEF Accounted, Stage
  <2> QED BY <1>2, <1>6, <2>4, Rebuilt
<1>11. CASE Closing(p, L) /\ todo = UpdateMetadata \o <<CloseFd>>
  <2>1. todo' = <<Sync>> \o <<CloseFd>>
    BY <1>2, <1>11, Scripts DEF Doing
  <2>2. p = 0 /\ ret = 0 /\ SoundIn(Mixes(cache', disk), meta, live, L)
    BY <1>9, <1>11 DEF Closing
  <2>3. Closing(p, L)'
    BY <1>2, <2>1, <2>2 DEF Closing, Anywhere
  <2>4. Accounted(p, L)'
    BY <1>2, <1>3, <1>7, <2>3 DEF Accounted, Stage
  <2> QED BY <1>2, <1>6, <2>4, Rebuilt
<1>12. Stage(p, L)
  BY <1>1 DEF Accounted
<1> QED BY <1>2, <1>10, <1>11, <1>12, Located

LEMMA FsyncKeeps ==
  ASSUME Inv, Typed', Fsync
  PROVE  Inv'
<1> USE DEF NoPage
<1>1. PICK p \in Slot, L \in SUBSET PageId : Accounted(p, L)
  BY DEF Inv
<1>2. /\ todo # <<>> /\ Head(todo) = Sync /\ todo' = Tail(todo) /\ disk' = cache
      /\ UNCHANGED <<up, meta, cache, ret, live, crashes, faults>>
      /\ cache \in Files /\ disk \in Files /\ up /\ live \subseteq PageId /\ ret \in Slot
      /\ Typed
  BY DEF Fsync, Inv, Typed
<1>3. /\ Throughout(Known, Mixes(cache, disk), live, L \cup One(p))
      /\ p \notin live /\ (faults = 0 => Cardinality(L) <= crashes)
  BY <1>1 DEF Accounted, Recoverable
<1>4. Formatted'
  BY <1>2 DEF Inv, Formatted
<1>5. /\ Mixes(cache, disk) \in SUBSET Files /\ {cache} \in SUBSET Mixes(cache, disk)
      /\ Mixes(cache', disk') = {cache} /\ {cache} \in SUBSET Files
  BY <1>2, MixTypes
<1>6. ASSUME NEW m, NEW H, Anywhere(m, H, L) PROVE SoundIn({cache}, m, H, L)
  <2>1. H \in SUBSET H /\ L \cup (H \ H) \subseteq L
    OBVIOUS
  <2> QED BY <1>5, <1>6, <2>1, Weaker DEF Anywhere
<1>7. \A k \in Known' : k \in Known
  BY <1>2 DEF Known
<1>8. ASSUME NEW H, NEW M, Throughout(Known, Mixes(cache, disk), H, M)
      PROVE  Throughout(Known', {cache}, H, M)
  <2>1. H \in SUBSET H /\ M \cup (H \ H) \subseteq M
    OBVIOUS
  <2>2. \A k \in Known' : \E a, b \in Known : k.head = a.head /\ k.next = b.next
    BY <1>7
  <2> QED BY <1>5, <1>8, <2>1, <2>2, WeakerThroughout
<1>9. Throughout(Known', {cache}, live, L \cup One(p))
  BY <1>3, <1>8
<1>10. Recoverable(p, L)'
  BY <1>2, <1>5, <1>9 DEF Recoverable
<1>11. CASE LastSync(p, L)
  <2>0. PICK K, r : K = (IF faults = 0 THEN L ELSE PageId) /\ r = ret
    OBVIOUS
  <2>1. /\ r \in {p, 0} /\ SoundIn({cache}, meta, live \cup One(r), L)
        /\ faults = 0 \/ r # 0 => cache[0] = Metadata(meta)
        /\ todo' = <<>>
    BY <1>2, <1>11, <2>0, Scripts DEF LastSync, Here, Doing
  <2>2. K \in SUBSET PageId /\ L \subseteq K /\ (faults = 0 => Cardinality(K) <= crashes)
        /\ r \notin live /\ r \in Slot
    BY <1>2, <1>3, <2>0, <2>1, PagesAreSlots
  <2>3. {cache} \in SUBSET {cache}
    OBVIOUS
  <2>4. /\ SoundIn({cache}, meta, live \cup One(r), K)
        /\ SoundIn({cache}, meta, live, K \cup One(r))
    <3>1. /\ live \cup One(r) \in SUBSET (live \cup One(r)) /\ live \in SUBSET (live \cup One(r))
          /\ L \cup ((live \cup One(r)) \ (live \cup One(r))) \subseteq K
          /\ L \cup ((live \cup One(r)) \ live) \subseteq K \cup One(r)
      BY <2>0, <2>2
    <3> QED BY <1>5, <2>1, <2>3, <3>1, Weaker
  <2>5. Throughout(Known', {cache}, live, K \cup One(r))
    <3>1. CASE faults = 0 \/ r # 0
      <4>1. cache[0] = Metadata(meta)
        BY <2>1, <3>1
      <4>2. cache[0].head = meta.head /\ cache[0].next = meta.next
        BY <1>2, <4>1, MetadataCell
      <4>3. \A k \in Known' : k = meta \/ k = cache[0]
        BY <1>2 DEF Known
      <4>4. \A k \in Known' : k.head = meta.head /\ k.next = meta.next
        BY <4>2, <4>3
      <4> QED BY <1>5, <2>4, <4>4, Spread
    <3>2. CASE faults # 0 /\ r = 0
      <4>1. L \cup One(p) \subseteq K \cup One(r)
        <5>1. One(p) \subseteq PageId
          BY DEF One, Slot, PageId
        <5> QED BY <2>0, <3>2, <5>1
      <4>2. live \in SUBSET live /\ (L \cup One(p)) \cup (live \ live) \subseteq K \cup One(r)
        BY <4>1
      <4>3. \A k \in Known' : \E a, b \in Known' : k.head = a.head /\ k.next = b.next
        OBVIOUS
      <4> QED BY <1>5, <1>9, <2>3, <4>2, <4>3, WeakerThroughout
    <3> QED BY <3>1, <3>2
  <2>6. Recoverable(r, K)'
    BY <1>2, <1>5, <2>5 DEF Recoverable
  <2>7. Between(r, K)'
    BY <1>2, <1>5, <2>0, <2>1, <2>4 DEF Between, Anywhere
  <2>8. Accounted(r, K)'
    BY <1>2, <2>2, <2>6, <2>7 DEF Accounted, Stage
  <2> QED BY <1>2, <1>4, <2>2, <2>8, Rebuilt
<1>12. CASE TookId(p, L)
  <2>1. /\ ret # 0 /\ p = ret /\ SoundIn({cache}, meta, live \cup {ret}, L) /\ One(ret) = {ret}
        /\ todo' = UpdateMetadata
    BY <1>2, <1>12, Scripts DEF TookId, Here, Doing, One
  <2>2. BeforeMeta(p, L)'
    BY <1>2, <1>5, <2>1 DEF BeforeMeta, Anywhere
  <2>3. Accounted(p, L)'
    BY <1>2, <1>3, <1>10, <2>2 DEF Accounted, Stage
  <2> QED BY <1>2, <1>4, <2>3, Rebuilt
<1>13. CASE WroteHead(p, L)
  <2>1. todo' = <<SetHead(p)>> \o UpdateMetadata
    <3>1. Doing(<<Sync>> \o <<SetHead(p)>> \o UpdateMetadata, Sync, <<SetHead(p)>> \o UpdateMetadata)
      BY PageScripts
    <3> QED BY <1>2, <1>13, <3>1 DEF WroteHead, Doing
  <2>2. /\ cache[p] = FreelistPage(meta.head, <<>>) /\ p \in PageId /\ ret = 0
        /\ Throughout(Known, Mixes(cache, disk), live \cup {p}, L)
        /\ disk[0] \in Header /\ (faults = 0 => cache[0] = Metadata(meta))
    BY <1>13 DEF WroteHead, Pending
  <2>3. cache[0] \in Header
    BY <2>2 DEF Inv, Formatted
  <2>4. Throughout(Known', {cache}, live \cup {p}, L)
    BY <1>8, <2>2
  <2>5. Pending(p, L)'
    BY <1>2, <1>5, <2>2, <2>3, <2>4 DEF Pending
  <2>6. SettingHead(p, L)'
    BY <1>2, <2>1, <2>2, <2>5 DEF SettingHead
  <2>7. Accounted(p, L)'
    BY <1>2, <1>3, <1>10, <2>6 DEF Accounted, Stage
  <2> QED BY <1>2, <1>4, <2>7, Rebuilt
<1>14. CASE Closing(p, L) /\ todo = <<Sync>> \o <<CloseFd>>
  <2>1. todo' = <<CloseFd>>
    BY <1>2, <1>14, Scripts DEF Doing
  <2>2. p = 0 /\ ret = 0 /\ SoundIn({cache}, meta, live, L)
    BY <1>6, <1>14 DEF Closing
  <2>3. Closing(p, L)'
    BY <1>2, <1>5, <2>1, <2>2 DEF Closing, Anywhere
  <2>4. Accounted(p, L)'
    BY <1>2, <1>3, <1>10, <2>3 DEF Accounted, Stage
  <2> QED BY <1>2, <1>4, <2>4, Rebuilt
<1>15. Stage(p, L)
  BY <1>1 DEF Accounted
<1> QED BY <1>2, <1>11, <1>12, <1>13, <1>14, <1>15, Located

LEMMA AssignHeadKeeps ==
  ASSUME Inv, Typed', AssignHead
  PROVE  Inv'
<1> USE DEF NoPage
<1>1. PICK p \in Slot, L \in SUBSET PageId : Accounted(p, L)
  BY DEF Inv
<1>2. /\ todo # <<>> /\ Head(todo).do = "set_head" /\ todo' = Tail(todo)
      /\ meta' = [meta EXCEPT !.head = Head(todo).page]
      /\ UNCHANGED <<up, cache, disk, ret, live, crashes, faults>>
      /\ cache \in Files /\ disk \in Files /\ up /\ live \subseteq PageId
      /\ meta \in [head : PageId \cup {INVALID_PAGE_ID}, next : 1..(MaxPage + 1)]
  BY DEF AssignHead, Inv, Typed
<1>3. SettingHead(p, L) /\ p \notin live /\ (faults = 0 => Cardinality(L) <= crashes)
  BY <1>1, <1>2, Located DEF Accounted
<1>4. todo' = UpdateMetadata /\ meta' = [meta EXCEPT !.head = p]
  <2>1. Doing(<<SetHead(p)>> \o UpdateMetadata, SetHead(p), UpdateMetadata)
    BY PageScripts
  <2>2. todo = <<SetHead(p)>> \o UpdateMetadata
    BY <1>3 DEF SettingHead
  <2>3. Head(todo) = SetHead(p) /\ Tail(todo) = UpdateMetadata
    BY <2>1, <2>2 DEF Doing
  <2>4. Head(todo).page = p
    BY <2>3, Steps
  <2> QED BY <1>2, <2>3, <2>4
<1>5. /\ p \in PageId /\ cache[p] = FreelistPage(meta.head, <<>>) /\ disk = cache
      /\ Mixes(cache, disk) = {cache} /\ {cache} \in SUBSET Files
      /\ Throughout(Known, {cache}, live \cup {p}, L)
      /\ ret = 0 /\ One(ret) = {} /\ One(p) = {p} /\ live \cup {} = live
      /\ (live \cup {p}) \ {p} = live
  BY <1>2, <1>3, MixTypes, PagesAreSlots DEF SettingHead, Pending, One
<1>6. Formatted'
  BY <1>2 DEF Inv, Formatted
<1>7. meta \in Known /\ \A k \in Known' : k \in Known \cup {meta'}
  BY <1>2 DEF Known
<1>8. /\ SoundIn({cache}, meta', live, L)
      /\ Throughout(Known \cup {meta'}, {cache}, live, L \cup {p})
  <2>1. meta'.head = p /\ meta'.next = meta.next
    BY <1>2, <1>4
  <2>2. p \in live \cup {p} /\ \A f \in {cache} : f[p] = FreelistPage(meta.head, <<>>)
    BY <1>5
  <2>3. /\ SoundIn({cache}, meta', (live \cup {p}) \ {p}, L)
        /\ Throughout(Known \cup {meta'}, {cache}, (live \cup {p}) \ {p}, L \cup {p})
    BY <1>5, <1>7, <2>1, <2>2, NewHeadThroughout
  <2> QED BY <1>5, <2>3
<1>9. Recoverable(p, L)'
  <2>1. Throughout(Known', {cache}, live, L \cup {p})
    BY <1>7, <1>8 DEF Throughout
  <2> QED BY <1>2, <1>5, <2>1 DEF Recoverable
<1>10. BeforeMeta(p, L)'
  BY <1>2, <1>4, <1>5, <1>8 DEF BeforeMeta, Anywhere
<1>11. Accounted(p, L)'
  BY <1>2, <1>3, <1>9, <1>10 DEF Accounted, Stage
<1> QED BY <1>2, <1>6, <1>11, Rebuilt

-----------------------------------------------------------------------------
(* Failures.                                                               *)

(* No call runs, no page is in transit. *)
LEMMA Stopped ==
  ASSUME NEW L \in SUBSET PageId, Typed', Formatted', todo' = <<>>, ret' = NoPage,
         faults' = 0 => Cardinality(L) <= crashes',
         Throughout(Known', Mixes(cache', disk'), live', L),
         up' => faults' # 0
  PROVE  Inv'
<1>1. One(0) = {} /\ L \cup {} = L /\ live' \cup {} = live'
  BY DEF One, NoPage
<1>2. Recoverable(0, L)'
  BY <1>1 DEF Recoverable
<1>3. up' => SoundIn(Mixes(cache', disk'), meta', live', L)
  <2>1. up' => meta' \in Known'
    BY DEF Known
  <2>2. Mixes(cache', disk') \in SUBSET Files
    BY MixTypes DEF Typed
  <2> QED BY <2>1, <2>2, OneOf
<1>4. Between(0, L)'
  BY <1>1, <1>3 DEF Between, NoPage, Anywhere
<1>5. 0 \notin live'
  BY PagesAreSlots DEF Typed
<1>6. Accounted(0, L)'
  BY <1>2, <1>4, <1>5 DEF Accounted, Stage
<1> QED BY <1>6, PagesAreSlots, Rebuilt

LEMMA CloseFileKeeps ==
  ASSUME Inv, Typed', CloseFile
  PROVE  Inv'
<1> USE DEF NoPage
<1>1. PICK p \in Slot, L \in SUBSET PageId : Accounted(p, L)
  BY DEF Inv
<1>2. /\ todo # <<>> /\ Head(todo) = CloseFd /\ todo' = Tail(todo) /\ up' = FALSE
      /\ UNCHANGED <<meta, cache, disk, ret, live, crashes, faults>>
  BY DEF CloseFile
<1>3. Closing(p, L) /\ todo = <<CloseFd>>
  BY <1>1, <1>2, Located DEF Accounted
<1>4. todo' = <<>> /\ ret = 0 /\ p = 0 /\ One(p) = {} /\ L \cup {} = L
  BY <1>2, <1>3, Scripts DEF Closing, Doing, One
<1>5. Formatted'
  BY <1>2 DEF Inv, Formatted
<1>6. /\ Throughout(Known, Mixes(cache, disk), live, L)
      /\ (faults = 0 => Cardinality(L) <= crashes)
  BY <1>1, <1>4 DEF Accounted, Recoverable
<1>7. \A k \in Known' : k \in Known
  BY <1>2 DEF Known
<1>8. Throughout(Known', Mixes(cache', disk'), live', L)
  BY <1>2, <1>6, <1>7 DEF Throughout
<1> QED BY <1>2, <1>4, <1>5, <1>6, <1>8, Stopped

(* The file outlives the call: it may have lost the page in transit.       *)
LEMMA Interrupted ==
  ASSUME Inv
  PROVE  \E L \in SUBSET PageId :
           /\ faults = 0 => Cardinality(L) <= crashes + 1
           /\ Throughout(Known, Mixes(cache, disk), live, L)
<1>1. PICK p \in Slot, L \in SUBSET PageId : Accounted(p, L)
  BY DEF Inv
<1> DEFINE K == L \cup One(p)
<1>2. K \in SUBSET PageId
  BY DEF One, Slot, PageId, NoPage
<1>3. ASSUME faults = 0 PROVE Cardinality(K) <= crashes + 1
  <2>1. IsFiniteSet(L)
    <3>1. IsFiniteSet(PageId)
      BY FS_Interval, DiskAssumption DEF PageId
    <3> QED BY <3>1, FS_Subset
  <2>2. Cardinality(L) \in Nat /\ crashes \in Nat /\ Cardinality(L) <= crashes
    BY <1>1, <1>3, <2>1, FS_CardinalityType, DiskAssumption DEF Accounted, Inv, Typed
  <2>3. K = L \/ K = L \cup {p}
    BY DEF One
  <2>4. Cardinality(L \cup {p}) = IF p \in L THEN Cardinality(L) ELSE Cardinality(L) + 1
    BY <2>1, FS_AddElement
  <2> QED BY <2>2, <2>3, <2>4
<1> QED BY <1>1, <1>2, <1>3 DEF Accounted, Recoverable

(* A write of the metadata that fails. *)
LEMMA CutHeader ==
  ASSUME Typed, Formatted, meta \in Known, NEW x \in Remains(cache[0], Metadata(meta))
  PROVE  /\ x \in Cell /\ x \in {Absent, Torn} \cup Header
         /\ disk[0] \in Header => x \in Header
         /\ x \in Header => \E a, b \in Known : x.head = a.head /\ x.next = b.next
<1>1. /\ cache[0] \in Cell /\ cache[0] \in {Absent, Torn} \cup Header
      /\ disk[0] \in Header => cache[0] \in Header
      /\ Metadata(meta) \in Header /\ Metadata(meta) \in Cell
      /\ Metadata(meta).head = meta.head /\ Metadata(meta).next = meta.next
  BY MetadataCell, PagesAreSlots DEF Typed, Files, Formatted
<1>2. cache[0] \in Header => cache[0] \in Known
  BY DEF Known
<1>3. CASE x = cache[0]
  BY <1>1, <1>2, <1>3
<1>4. CASE x = Metadata(meta)
  BY <1>1, <1>4
<1>5. CASE x \in Tears(cache[0], Metadata(meta))
  <2>1. CASE cache[0] \in Header
    <3>1. x \in Cell /\ x \in Header /\ x.head \in {cache[0].head, meta.head} /\ x.next \in {cache[0].next, meta.next}
      BY <1>1, <1>5, <2>1, TornPages
    <3> QED BY <1>2, <2>1, <3>1
  <2>2. CASE cache[0] \notin Header
    <3>1. x = Torn /\ x \in Cell
      BY <1>1, <1>5, <2>2, TornPages
    <3>2. Torn \notin Header
      BY DEF Torn, Header
    <3> QED BY <1>1, <2>2, <3>1, <3>2
  <2> QED BY <2>1, <2>2
<1> QED BY <1>3, <1>4, <1>5 DEF Remains

LEMMA FailingWriteKeeps ==
  ASSUME Inv, Scripted, Typed', FailingWrite, damage' = {}
  PROVE  Inv'
<1> USE DEF NoPage
<1>1. PICK p \in Slot, L \in SUBSET PageId : Accounted(p, L)
  BY DEF Inv
<1>2. /\ todo # <<>> /\ faults < MaxFaults /\ faults' = faults + 1
      /\ todo' = <<>> /\ ret' = 0
      /\ UNCHANGED <<meta, disk, live, crashes>>
      /\ Head(todo).do \in {"pwrite", "pwrite_metadata"}
  BY DEF FailingWrite
<1>3. \E c \in Remains(cache[Target(Head(todo))], Written(Head(todo))) :
        cache' = [cache EXCEPT ![Target(Head(todo))] = c]
  BY DEF FailingWrite
<1>4. /\ Typed /\ Formatted /\ up /\ cache \in Files /\ disk \in Files /\ cache' \in Files
      /\ live \subseteq PageId /\ todo \in Seq(Step)
      /\ Stage(p, L) /\ p \notin live /\ Recoverable(p, L)
      /\ meta \in Known /\ faults' # 0
  <2>1. up /\ faults \in Nat
    BY <1>2, DiskAssumption DEF Inv, Typed
  <2> QED BY <1>1, <1>2, <2>1 DEF Inv, Typed, Scripted, Accounted, Known
<1>5. ASSUME \A k \in Known' : \E a, b \in Known : k.head = a.head /\ k.next = b.next,
             Throughout(Known, Mixes(cache', disk), live, L \cup One(p)), Formatted'
      PROVE  Inv'
  <2>1. One(p) \subseteq PageId
    BY DEF One, Slot, PageId
  <2>2. /\ Mixes(cache', disk) \in SUBSET Files /\ Mixes(cache', disk) \in SUBSET Mixes(cache', disk)
        /\ live \in SUBSET live /\ (L \cup One(p)) \cup (live \ live) \subseteq PageId
    BY <1>4, <2>1, MixTypes
  <2>3. Throughout(Known', Mixes(cache', disk), live, PageId)
    BY <1>5, <2>2, WeakerThroughout
  <2>4. Throughout(Known', Mixes(cache', disk'), live', PageId)
    BY <1>2, <2>3
  <2> QED BY <1>2, <1>4, <1>5, <2>4, Stopped
<1>6. CASE Head(todo).do = "pwrite_metadata"
  <2>1. Head(todo) = PutMeta
    BY <1>2, <1>4, <1>6, StepTypes
  <2>2. PICK x \in Remains(cache[0], Metadata(meta)) : cache' = [cache EXCEPT ![0] = x]
    BY <1>3, <2>1 DEF Target, Written
  <2>3. /\ x \in Cell /\ x \in {Absent, Torn} \cup Header
        /\ disk[0] \in Header => x \in Header
        /\ x \in Header => \E a, b \in Known : x.head = a.head /\ x.next = b.next
    BY <1>4, CutHeader
  <2>4. cache'[0] = x /\ \A s \in PageId : cache'[s] = cache[s]
    BY <1>4, <2>2, PagesAreSlots DEF Files
  <2>5. Formatted'
    BY <1>2, <1>4, <2>3, <2>4 DEF Formatted
  <2>6. Throughout(Known, Mixes(cache', disk), live, L \cup One(p))
    BY <1>4, <2>2, <2>3, HeaderWrites DEF Recoverable
  <2>7. \A k \in Known' : k \in Known \/ (k = x /\ x \in Header)
    BY <1>2, <1>4, <2>4 DEF Known
  <2>8. \A k \in Known' : \E a, b \in Known : k.head = a.head /\ k.next = b.next
    BY <2>3, <2>7
  <2> QED BY <1>5, <2>5, <2>6, <2>8
<1>7. ASSUME NEW q \in PageId, NEW x \in Freed, NEW rest, Doing(todo, PutPage(q, x), rest), Offset(q) = q,
             disk[0] \in Header
      PROVE  /\ \E c \in Remains(cache[q], x) : cache' = [cache EXCEPT ![q] = c]
             /\ cache[q] \in Cell
             /\ Formatted'
             /\ \A k \in Known' : \E a, b \in Known : k.head = a.head /\ k.next = b.next
  <2>1. Head(todo).page = q /\ Head(todo).content = x /\ Head(todo) # PutMeta
    BY <1>7, Steps DEF Doing
  <2>2. PICK c \in Remains(cache[q], x) : cache' = [cache EXCEPT ![q] = c]
    BY <1>3, <1>7, <2>1 DEF Target, Written
  <2>3. q \in Slot /\ cache[q] \in Cell /\ cache'[0] = cache[0]
    BY <1>4, <2>2, PagesAreSlots DEF Files
  <2>4. Formatted'
    BY <1>2, <1>4, <1>7, <2>3 DEF Formatted
  <2>5. \A k \in Known' : k \in Known
    BY <1>2, <1>4, <2>3 DEF Known
  <2> QED BY <2>2, <2>3, <2>4, <2>5
<1>8. CASE TakingId(p, L) \/ ListingId(p, L)
  <2>1. PICK x, rest :
          /\ meta.head \in PageId /\ Offset(meta.head) = meta.head
          /\ cache[meta.head] \in Freed /\ x \in Freed
          /\ Doing(todo, PutPage(meta.head, x), rest) /\ disk[0] \in Header
          /\ \A z : z = [cache EXCEPT ![meta.head] = x]
                     => Throughout(Known, Mixes(z, disk), live, L \cup One(p))
    <3>1. CASE TakingId(p, L)
      <4>1. \A z : z = [cache EXCEPT ![meta.head] = Taken(cache[meta.head])] =>
              /\ meta.head \in PageId \ live /\ Offset(meta.head) = meta.head
              /\ cache[meta.head] \in Freed /\ Taken(cache[meta.head]) \in Freed
              /\ Doing(todo, PutPage(meta.head, Taken(cache[meta.head])), <<Sync>> \o UpdateMetadata)
              /\ Throughout(Known, Mixes(z, disk), live, L \cup One(p))
        BY <1>4, <3>1, TakingWrites
      <4>2. disk[0] \in Header
        BY <3>1 DEF TakingId
      <4> QED BY <4>1, <4>2
    <3>2. CASE ListingId(p, L)
      <4>1. \A z : z = [cache EXCEPT ![meta.head] = Listed(cache[meta.head], p)] =>
              /\ meta.head \in PageId \ live /\ Offset(meta.head) = meta.head
              /\ cache[meta.head] \in Freed /\ Listed(cache[meta.head], p) \in Freed
              /\ Doing(todo, PutPage(meta.head, Listed(cache[meta.head], p)), <<Sync>>)
              /\ Throughout(Known, Mixes(z, disk), live, L \cup One(p))
        BY <1>4, <3>2, ListingWrites
      <4>2. disk[0] \in Header
        BY <3>2 DEF ListingId, Pending
      <4> QED BY <4>1, <4>2
    <3> QED BY <1>8, <3>1, <3>2
  <2> DEFINE h == meta.head
  <2>2. /\ \E c \in Remains(cache[h], x) : cache' = [cache EXCEPT ![h] = c]
        /\ Formatted'
        /\ \A k \in Known' : \E a, b \in Known : k.head = a.head /\ k.next = b.next
    BY <1>7, <2>1
  <2>3. Tears(cache[h], x) = {}
    <3>1. cache[h] \in Cell /\ x \in Cell
      BY <2>1 DEF Cell
    <3> QED BY <2>1, <3>1, TornPages
  <2>4. cache' = [cache EXCEPT ![h] = cache[h]] \/ cache' = [cache EXCEPT ![h] = x]
    BY <2>2, <2>3 DEF Remains
  <2>5. cache' = cache \/ cache' = [cache EXCEPT ![h] = x]
    BY <1>4, <2>4 DEF Files
  <2>6. Throughout(Known, Mixes(cache', disk), live, L \cup One(p))
    BY <1>4, <2>1, <2>5 DEF Recoverable
  <2> QED BY <1>5, <2>2, <2>6
<1>9. CASE WritingHead(p, L)
  <2>1. Pending(p, L)
    BY <1>9 DEF WritingHead
  <2>2. p \in PageId /\ Offset(p) = p /\ disk[0] \in Header
    BY <1>4, <2>1, InTransit
  <2>3. FreelistPage(meta.head, <<>>) \in Freed /\ FreelistPage(meta.head, <<>>) \in Cell
    BY <1>4 DEF Typed, FreelistPage, Freed, Cell
  <2>4. Doing(todo, PutPage(p, FreelistPage(meta.head, <<>>)), <<Sync>> \o <<SetHead(p)>> \o UpdateMetadata)
    BY <1>9, PageScripts DEF WritingHead
  <2>5. /\ \E c \in Remains(cache[p], FreelistPage(meta.head, <<>>)) : cache' = [cache EXCEPT ![p] = c]
        /\ cache[p] \in Cell
        /\ Formatted'
        /\ \A k \in Known' : \E a, b \in Known : k.head = a.head /\ k.next = b.next
    BY <1>7, <2>2, <2>3, <2>4
  <2>6. PICK c \in Cell : cache' = [cache EXCEPT ![p] = c]
    BY <2>3, <2>5, RemainTypes
  <2>7. Throughout(Known, Mixes(cache', disk), live, L \cup One(p))
    BY <1>4, <2>1, <2>6, HeadWrites
  <2> QED BY <1>5, <2>5, <2>7
<1> QED BY <1>2, <1>4, <1>6, <1>8, <1>9, Located

LEMMA KillKeeps ==
  ASSUME Inv, Typed', Kill
  PROVE  Inv'
<1> USE DEF NoPage
<1>1. /\ crashes < MaxCrashes /\ crashes' = crashes + 1 /\ up' = FALSE
      /\ todo' = <<>> /\ ret' = 0
      /\ UNCHANGED <<meta, cache, disk, live, faults>>
  BY DEF Kill
<1>2. PICK L \in SUBSET PageId :
        /\ faults = 0 => Cardinality(L) <= crashes + 1
        /\ Throughout(Known, Mixes(cache, disk), live, L)
  BY Interrupted
<1>3. Formatted'
  BY <1>1 DEF Inv, Formatted
<1>4. \A k \in Known' : k \in Known
  BY <1>1 DEF Known
<1>5. Throughout(Known', Mixes(cache', disk'), live', L)
  BY <1>1, <1>2, <1>4 DEF Throughout
<1> QED BY <1>1, <1>2, <1>3, <1>5, Stopped

(* Page 0 after a power cut. *)
LEMMA HeaderSurvives ==
  ASSUME Typed, Formatted, NEW g, Survivor(g)
  PROVE  /\ g[0] \in {Absent, Torn} \cup Header
         /\ disk[0] \in Header => g[0] \in Header
         /\ g[0] \notin Header => live = {} /\ \A s \in PageId : g[s] = Absent
         /\ g[0] \in Header => \E a, b \in Known : g[0].head = a.head /\ g[0].next = b.next
<1>1. /\ cache[0] \in Cell /\ disk[0] \in Cell /\ 0 \in Slot
      /\ cache[0] \in {Absent, Torn} \cup Header /\ disk[0] \in {Absent, Torn} \cup Header
      /\ disk[0] \in Header => cache[0] \in Header
  BY PagesAreSlots DEF Typed, Files, Formatted
<1>2. Torn \notin Header
  BY DEF Torn, Header
<1>3. /\ g[0] \in {cache[0], disk[0]} \/ g[0] \in Tears(disk[0], cache[0])
  BY <1>1 DEF Survivor
<1>4. CASE g[0] \in {cache[0], disk[0]}
  <2>1. g[0] \in Header => g[0] \in Known
    BY <1>4 DEF Known
  <2>2. g[0] \notin Header => disk[0] \notin Header
    BY <1>1, <1>4
  <2>3. \A s \in PageId : cache[s] = disk[s] => g[s] = cache[s]
    BY PagesAreSlots DEF Survivor
  <2> QED BY <1>1, <1>4, <2>1, <2>2, <2>3 DEF Formatted
<1>5. CASE g[0] \in Tears(disk[0], cache[0])
  <2>1. CASE cache[0] \in Header /\ disk[0] \in Header
    <3>1. g[0] \in Header /\ g[0].head \in {cache[0].head, disk[0].head}
          /\ g[0].next \in {cache[0].next, disk[0].next}
      BY <1>1, <1>5, <2>1, TornPages
    <3>2. cache[0] \in Known /\ disk[0] \in Known
      BY <2>1 DEF Known
    <3> QED BY <3>1, <3>2
  <2>2. CASE ~(cache[0] \in Header /\ disk[0] \in Header)
    <3>1. g[0] = Torn /\ disk[0] \notin Header
      BY <1>1, <1>5, <2>2, TornPages
    <3>2. \A s \in PageId : cache[s] = disk[s] => g[s] = cache[s]
      BY PagesAreSlots DEF Survivor
    <3> QED BY <1>2, <3>1, <3>2 DEF Formatted
  <2> QED BY <2>1, <2>2
<1> QED BY <1>3, <1>4, <1>5

LEMMA PowerCutKeeps ==
  ASSUME Inv, Typed', PowerCut, damage' = {}
  PROVE  Inv'
<1> USE DEF NoPage
<1>1. /\ crashes < MaxCrashes /\ crashes' = crashes + 1 /\ up' = FALSE
      /\ todo' = <<>> /\ ret' = 0 /\ disk' = cache'
      /\ UNCHANGED <<meta, live, faults>>
      /\ cache \in Files /\ disk \in Files /\ cache' \in Files
      /\ Typed /\ Formatted
  BY DEF PowerCut, Inv, Typed
<1>2. Survivor(cache')
  <2>1. cache' \in AfterPowerCut
    BY DEF PowerCut
  <2> QED BY <1>1, <2>1, PowerCutPages
<1>3. PICK L \in SUBSET PageId :
        /\ faults = 0 => Cardinality(L) <= crashes + 1
        /\ Throughout(Known, Mixes(cache, disk), live, L)
  BY Interrupted
<1>4. /\ cache'[0] \in {Absent, Torn} \cup Header
      /\ cache'[0] \notin Header => live = {} /\ \A s \in PageId : cache'[s] = Absent
      /\ cache'[0] \in Header => \E a, b \in Known : cache'[0].head = a.head /\ cache'[0].next = b.next
  BY <1>1, <1>2, HeaderSurvives
<1>5. Formatted'
  BY <1>1, <1>4 DEF Formatted
<1>6. Throughout(Known', {cache'}, live, L)
  <2>1. \A k \in Known' : k = cache'[0] /\ cache'[0] \in Header
    BY <1>1 DEF Known
  <2>2. \A k \in Known' : \E a, b \in Known : k.head = a.head /\ k.next = b.next
    BY <1>4, <2>1
  <2>3. \A h, n : SoundIn(Mixes(cache, disk), Mix(h, n), live, L)
                    => SoundIn({cache'}, Mix(h, n), live, L)
    BY <1>1, <1>2, ChainSurvives
  <2> QED BY <1>3, <2>2, <2>3, Carried
<1>7. Mixes(cache', disk') = {cache'}
  BY <1>1, MixTypes
<1> QED BY <1>1, <1>3, <1>5, <1>6, <1>7, Stopped

LEMMA StutterKeeps ==
  ASSUME Inv, UNCHANGED vars
  PROVE  Inv'
<1>2. UNCHANGED <<up, meta, cache, disk, todo, ret, live, crashes, faults>>
  BY DEF vars
<1>3. Typed' /\ Formatted' /\ (~up' => todo' = <<>> /\ ret' = NoPage)
  BY <1>2 DEF Inv, Typed, Formatted
<1>1. PICK p \in Slot, L \in SUBSET PageId : Accounted(p, L)
  BY DEF Inv
<1>4. Recoverable(p, L)'
  BY <1>1, <1>2 DEF Accounted, Recoverable, Known
<1>5. Stage(p, L)'
  <2>1. CASE Between(p, L)
    BY <1>2, <2>1 DEF Stage, Between, Anywhere
  <2>2. CASE BeforeMeta(p, L)
    BY <1>2, <2>2 DEF Stage, BeforeMeta, Anywhere
  <2>3. CASE LastSync(p, L)
    BY <1>2, <2>3 DEF Stage, LastSync, Here
  <2>4. CASE Closing(p, L)
    BY <1>2, <2>4 DEF Stage, Closing, Anywhere
  <2>5. CASE TakingId(p, L)
    BY <1>2, <2>5 DEF Stage, TakingId, Anywhere
  <2>6. CASE TookId(p, L)
    BY <1>2, <2>6 DEF Stage, TookId, Here
  <2>7. ASSUME Pending(p, L) PROVE Pending(p, L)'
    BY <1>2, <2>7 DEF Pending, Known
  <2>8. CASE WritingHead(p, L)
    BY <1>2, <2>7, <2>8 DEF Stage, WritingHead
  <2>9. CASE WroteHead(p, L)
    BY <1>2, <2>7, <2>9 DEF Stage, WroteHead
  <2>10. CASE SettingHead(p, L)
    BY <1>2, <2>7, <2>10 DEF Stage, SettingHead
  <2>11. CASE ListingId(p, L)
    BY <1>2, <2>7, <2>11 DEF Stage, ListingId
  <2> QED BY <1>1, <2>1, <2>2, <2>3, <2>4, <2>5, <2>6, <2>8, <2>9, <2>10, <2>11 DEF Accounted, Stage
<1>6. Accounted(p, L)'
  BY <1>1, <1>2, <1>4, <1>5 DEF Accounted
<1> QED BY <1>3, <1>6, Rebuilt

LEMMA DamageStays == [Next]_vars /\ damage' = {} => damage = {}
<1> SUFFICES ASSUME [Next]_vars, damage' = {} PROVE damage = {}
  OBVIOUS
<1>1. CASE AllocatePage
  BY <1>1 DEF AllocatePage
<1>2. CASE FailingWrite
  <2>1. damage' = damage \/ damage' = damage \cup {"list"}
    BY <1>2, Zenon DEF FailingWrite
  <2> QED BY <2>1
<1>3. CASE PowerCut
  <2>1. damage' = damage \/ damage' = damage \cup {"list"}
    BY <1>3, Zenon DEF PowerCut
  <2> QED BY <2>1
<1>4. CASE Open \/ OpenThrows \/ Close \/ Return \/ Kill \/ UNCHANGED vars
  BY <1>4 DEF Open, OpenThrows, Close, Return, Kill, vars
<1>5. CASE Pwrite \/ PwriteMetadata \/ Fsync \/ AssignHead \/ CloseFile
  BY <1>5 DEF Pwrite, PwriteMetadata, Fsync, AssignHead, CloseFile
<1>6. CASE \E p \in live : \/ DeallocatePage(p) \/ FailingWritePage(p)
                           \/ \E d \in Data : WritePage(p, d)
  BY <1>6 DEF DeallocatePage, FailingWritePage, WritePage
<1> QED BY <1>1, <1>2, <1>3, <1>4, <1>5, <1>6 DEF Next

(* Inv holds in every state that nothing has damaged: the allocator in     *)
(* memory, every pair of ids that page 0 may come to hold and every file a *)
(* power cut may leave agree on one freelist, at each step of each call    *)
(* and after each failed or partial write.                                 *)
THEOREM Invariance == Spec => []IInv
<1>1. ASSUME IInv, [Next]_vars PROVE IInv'
  <2>1. Typed' /\ Scripted' /\ Placed'
    BY <1>1, TypesKept, PlacedKept DEF IInv
  <2>2. ASSUME damage' = {} PROVE Inv'
    <3>1. Inv /\ Scripted
      BY <1>1, <2>2, DamageStays DEF IInv
    <3>2. CASE UNCHANGED vars \/ OpenThrows
      BY <3>1, <3>2, StutterKeeps DEF OpenThrows
    <3>3. CASE Open \/ Close \/ AllocatePage \/ Return
      BY <2>1, <2>2, <3>1, <3>3, OpenKeeps, CloseKeeps, AllocatePageKeeps, ReturnKeeps
    <3>4. CASE \E p \in live : \/ DeallocatePage(p) \/ FailingWritePage(p)
                               \/ \E d \in Data : WritePage(p, d)
      BY <2>1, <3>1, <3>4, DeallocatePageKeeps, WritePageKeeps
    <3>5. CASE Pwrite \/ PwriteMetadata \/ Fsync \/ AssignHead \/ CloseFile
      BY <2>1, <3>1, <3>5, PwriteKeeps, PwriteMetadataKeeps, FsyncKeeps, AssignHeadKeeps, CloseFileKeeps
    <3>6. CASE FailingWrite \/ Kill \/ PowerCut
      BY <2>1, <2>2, <3>1, <3>6, FailingWriteKeeps, KillKeeps, PowerCutKeeps
    <3> QED BY <1>1, <3>2, <3>3, <3>4, <3>5, <3>6 DEF Next
  <2> QED BY <2>1, <2>2 DEF IInv
<1> QED BY <1>1, Begins, PTL DEF Spec

-----------------------------------------------------------------------------
(* TypeOK: every variable keeps its type, after damage too.                *)
LEMMA InvTypes == IInv => TypeOK
<1> SUFFICES ASSUME IInv PROVE TypeOK
  OBVIOUS
<1>1. Typed /\ Scripted
  BY DEF IInv
<1>2. \A x \in Cell : x.kind \in {"absent", "torn", "data", "free", "meta"}
  BY DEF Cell, Absent, Torn, Payload, Freed, Header
<1>3. \A s \in Slot : cache[s] \in Cell /\ disk[s] \in Cell
  BY <1>1 DEF Typed, Files
<1>4. Slot = PageId \cup {NoPage}
  BY DiskAssumption DEF Slot, PageId, NoPage
<1> QED BY <1>1, <1>2, <1>3, <1>4 DEF Typed, Scripted, TypeOK

THEOREM TypesHold == Spec => []TypeOK
BY Invariance, InvTypes, PTL

(* NeverLiveAndFree: whenever no call runs, the freelist in memory is      *)
(* acyclic, lists each page once, and lists none that a caller holds or is *)
(* about to receive; so allocatePage never hands a page to two callers.    *)
LEMMA InvNeverLiveAndFree == IInv => NeverLiveAndFree
<1> SUFFICES ASSUME IInv, damage = {}, up, todo = <<>>
             PROVE  Sound(meta, cache, live \cup ({ret} \ {NoPage}))
  BY DEF NeverLiveAndFree
<1>0. Inv
  BY DEF IInv
<1>1. PICK p \in Slot, L \in SUBSET PageId : Accounted(p, L)
  BY <1>0 DEF Inv
<1>2. SoundIn(Mixes(cache, disk), meta, live \cup One(ret), L)
  BY <1>1, Located DEF Accounted, Between, Anywhere
<1>3. cache \in Mixes(cache, disk)
  BY <1>0, MixTypes DEF Inv, Typed
<1> QED BY <1>2, <1>3 DEF SoundIn, SoundFor, SoundAt, Sound, One

THEOREM NoPageTwice == Spec => []NeverLiveAndFree
BY Invariance, InvNeverLiveAndFree, PTL

(* CrashSafe: whatever part of the writes since the last fsync a power cut *)
(* keeps, of each page too, in the middle of any call and after any        *)
(* earlier crash, failed or partial write, the constructor finds metadata  *)
(* and a freelist that is sound for the pages the callers hold.            *)
LEMMA InvCrashSafe == IInv => CrashSafe
<1> SUFFICES ASSUME IInv, damage = {}, NEW f \in AfterPowerCut
             PROVE  \/ f[0].kind = "meta" /\ Sound(f[0], f, live)
                    \/ (InFile(f) = {} \/ f[0] = Torn) /\ live = {}
  BY DEF CrashSafe
<1>0. Inv /\ Typed /\ Formatted
  BY DEF IInv, Inv
<1>1. PICK p \in Slot, L \in SUBSET PageId : Accounted(p, L)
  BY <1>0 DEF Inv
<1>2. cache \in Files /\ disk \in Files /\ Survivor(f)
  BY <1>0, PowerCutPages DEF Typed
<1>3. /\ f[0] \in {Absent, Torn} \cup Header
      /\ f[0] \notin Header => live = {} /\ \A s \in PageId : f[s] = Absent
      /\ f[0] \in Header => \E a, b \in Known : f[0].head = a.head /\ f[0].next = b.next
  BY <1>0, <1>2, HeaderSurvives
<1>4. CASE f[0] \notin Header
  <2>1. live = {} /\ \A s \in PageId : f[s] = Absent
    BY <1>3, <1>4
  <2>2. CASE f[0] = Torn
    BY <2>1, <2>2
  <2>3. CASE f[0] = Absent
    <3>1. \A s \in Slot : f[s] = Absent
      BY <2>1, <2>3 DEF Slot, PageId
    <3> QED BY <2>1, <3>1 DEF InFile
  <2> QED BY <1>3, <1>4, <2>2, <2>3
<1>5. CASE f[0] \in Header
  <2>1. f[0].kind = "meta"
    BY <1>5 DEF Header
  <2>2. PICK a \in Known, b \in Known : f[0].head = a.head /\ f[0].next = b.next
    BY <1>3, <1>5
  <2>3. SoundIn(Mixes(cache, disk), Mix(f[0].head, f[0].next), live, L \cup One(p))
    BY <1>1, <2>2 DEF Accounted, Recoverable, Throughout
  <2>4. SoundIn({f}, Mix(f[0].head, f[0].next), live, L \cup One(p))
    BY <1>2, <2>3, ChainSurvives
  <2>5. {f} \in SUBSET Files
    BY <1>2 DEF Survivor
  <2>6. Throughout({f[0]}, {f}, live, L \cup One(p))
    BY <2>4 DEF Throughout
  <2>7. SoundIn({f}, f[0], live, L \cup One(p))
    BY <2>5, <2>6, OneOf
  <2> QED BY <2>1, <2>7 DEF SoundIn, SoundFor, SoundAt, Sound
<1> QED BY <1>4, <1>5

THEOREM SurvivesPowerCut == Spec => []CrashSafe
BY Invariance, InvCrashSafe, PTL

(* LeakBoundedByCrashes: while no pwrite has failed, the pages that are    *)
(* neither free nor held are at most one per kill or power cut, the one in *)
(* transit when it struck; without a crash none is ever lost.              *)
LEMMA InvLeakBounded == IInv => LeakBoundedByCrashes
<1> SUFFICES ASSUME IInv, damage = {}, faults = 0, Idle
             PROVE  \E c \in Chains : /\ IsChain(c, meta, cache)
                                      /\ Cardinality(Leaked(c, meta, cache, live)) <= crashes
  BY DEF LeakBoundedByCrashes
<1>0. Inv
  BY DEF IInv
<1>1. PICK L \in SUBSET PageId : Cardinality(L) <= crashes /\ Anywhere(meta, live, L)
  BY <1>0, WhenIdle
<1>2. PICK c \in Chains : SoundFor(c, meta, cache, live, L)
  BY <1>0, <1>1, MixTypes DEF Anywhere, SoundIn, Inv, Typed
<1>3. IsChain(c, meta, cache) /\ Leaked(c, meta, cache, live) \subseteq L
  BY <1>2 DEF SoundFor, SoundAt, SoundBy
<1>4. IsFiniteSet(L) /\ Cardinality(L) \in Nat
  <2>1. IsFiniteSet(PageId)
    BY FS_Interval, DiskAssumption DEF PageId
  <2> QED BY <2>1, FS_Subset, FS_CardinalityType
<1>5. /\ Cardinality(Leaked(c, meta, cache, live)) <= Cardinality(L)
      /\ Cardinality(Leaked(c, meta, cache, live)) \in Nat
  BY <1>3, <1>4, FS_Subset, FS_CardinalityType
<1>6. crashes \in Nat
  BY <1>0, DiskAssumption DEF Inv, Typed
<1> QED BY <1>1, <1>3, <1>4, <1>5, <1>6

THEOREM LossIsBounded == Spec => []LeakBoundedByCrashes
BY Invariance, InvLeakBounded, PTL

-----------------------------------------------------------------------------
(* The refinement.                                                         *)

(* A held page is in its own slot: its id lies below one whose offset      *)
(* wraps.                                                                  *)
LEMMA HeldInPlace ==
  ASSUME Inv
  PROVE  \A s \in live : s \in PageId /\ s \in Slot /\ Offset(s) = s
<1> SUFFICES ASSUME NEW s \in live PROVE s \in PageId /\ s \in Slot /\ Offset(s) = s
  OBVIOUS
<1>1. PICK p \in Slot, L \in SUBSET PageId : Accounted(p, L)
  BY DEF Inv
<1>2. cache \in Files /\ disk \in Files /\ live \subseteq PageId
  BY DEF Inv, Typed
<1>3. disk[0] \in Known
  BY DEF Inv, Formatted, Known
<1>4. SoundIn(Mixes(cache, disk), disk[0], live, L \cup One(p))
  BY <1>1, <1>2, <1>3, MixTypes, OneOf DEF Accounted, Recoverable
<1> QED BY <1>2, <1>4, InPlace

(* A write that spares the held pages is invisible to their holders.       *)
LEMMA Spares ==
  ASSUME live' = live, disk' = disk, \A s \in live : cache'[Offset(s)] = cache[Offset(s)]
  PROVE  UNCHANGED Store!vars
<1>1. [s \in live' |-> cache'[Offset(s)]] = [s \in live |-> cache[Offset(s)]]
  OBVIOUS
<1>2. [s \in live' |-> disk'[Offset(s)]] = [s \in live |-> disk[Offset(s)]]
  OBVIOUS
<1> QED BY <1>1, <1>2 DEF Store!vars

LEMMA QuietSteps ==
  ASSUME \/ Open \/ OpenThrows \/ Close \/ AllocatePage \/ AssignHead \/ CloseFile \/ Kill
         \/ UNCHANGED vars
  PROVE  UNCHANGED Store!vars
<1>1. UNCHANGED <<cache, disk, live>>
  BY DEF Open, OpenThrows, Close, AllocatePage, AssignHead, CloseFile, Kill, vars
<1> QED BY <1>1, Spares

(* A call writes page 0, or a page in transit, or the head of the          *)
(* freelist; no caller holds any of them.                                  *)
LEMMA CallTargets ==
  ASSUME Inv, Scripted, todo # <<>>, Head(todo).do \in {"pwrite", "pwrite_metadata"}
  PROVE  Target(Head(todo)) \in Slot \ live
<1>1. PICK p \in Slot, L \in SUBSET PageId : Accounted(p, L)
  BY DEF Inv
<1>2. /\ Typed /\ Formatted /\ cache \in Files /\ disk \in Files /\ live \subseteq PageId
      /\ up /\ meta \in Known /\ p \notin live /\ Stage(p, L) /\ Recoverable(p, L)
      /\ todo \in Seq(Step)
  BY <1>1 DEF Inv, Typed, Scripted, Known, Accounted
<1>3. CASE Head(todo).do = "pwrite_metadata"
  <2>1. Head(todo) = PutMeta
    BY <1>2, <1>3, StepTypes
  <2> QED BY <1>2, <2>1, PagesAreSlots DEF Target
<1>4. ASSUME NEW q \in PageId \ live, Offset(q) = q, NEW x, NEW rest, Doing(todo, PutPage(q, x), rest)
      PROVE  Target(Head(todo)) \in Slot \ live
  <2>1. Head(todo).page = q /\ Head(todo) # PutMeta
    BY <1>4, Steps DEF Doing
  <2> QED BY <1>4, <2>1, PagesAreSlots DEF Target
<1>5. CASE TakingId(p, L)
  <2>1. \A z : z = [cache EXCEPT ![meta.head] = Taken(cache[meta.head])] =>
          /\ meta.head \in PageId \ live /\ Offset(meta.head) = meta.head
          /\ Doing(todo, PutPage(meta.head, Taken(cache[meta.head])), <<Sync>> \o UpdateMetadata)
    BY <1>2, <1>5, TakingWrites
  <2> QED BY <1>4, <2>1
<1>6. CASE ListingId(p, L)
  <2>1. \A z : z = [cache EXCEPT ![meta.head] = Listed(cache[meta.head], p)] =>
          /\ meta.head \in PageId \ live /\ Offset(meta.head) = meta.head
          /\ Doing(todo, PutPage(meta.head, Listed(cache[meta.head], p)), <<Sync>>)
    BY <1>2, <1>6, ListingWrites
  <2> QED BY <1>4, <2>1
<1>7. CASE WritingHead(p, L)
  <2>1. p \in PageId /\ Offset(p) = p
    BY <1>2, <1>7, InTransit DEF WritingHead
  <2>2. \E x, rest : Doing(todo, PutPage(p, x), rest)
    BY <1>7, PageScripts DEF WritingHead
  <2> QED BY <1>2, <1>4, <2>1, <2>2
<1> QED BY <1>2, <1>3, <1>5, <1>6, <1>7, Located

LEMMA CallSpares ==
  ASSUME Inv, Scripted, Pwrite \/ PwriteMetadata \/ FailingWrite
  PROVE  UNCHANGED Store!vars
<1>1. /\ todo # <<>> /\ Head(todo).do \in {"pwrite", "pwrite_metadata"}
      /\ live' = live /\ disk' = disk
  BY Steps DEF Pwrite, PwriteMetadata, FailingWrite
<1>2. \E c : cache' = [cache EXCEPT ![Target(Head(todo))] = c]
  <2>1. CASE Pwrite
    <3>1. Head(todo) # PutMeta
      BY <2>1, Steps DEF Pwrite
    <3> QED BY <2>1, <3>1 DEF Pwrite, Target
  <2>2. CASE PwriteMetadata
    BY <2>2 DEF PwriteMetadata, Target
  <2>3. CASE FailingWrite
    BY <2>3 DEF FailingWrite
  <2> QED BY <2>1, <2>2, <2>3
<1>3. Target(Head(todo)) \in Slot \ live
  BY <1>1, CallTargets
<1>4. \A s \in live : cache'[Offset(s)] = cache[Offset(s)]
  BY <1>2, <1>3, HeldInPlace DEF Inv, Typed, Files
<1> QED BY <1>1, <1>4, Spares

LEMMA ReturnAcquires ==
  ASSUME Inv, Return
  PROVE  \E p \in PageId : Store!Acquire(p)
<1>1. PICK p \in Slot, L \in SUBSET PageId : Accounted(p, L)
  BY DEF Inv
<1>2. /\ todo = <<>> /\ ret # NoPage /\ live' = live \cup {ret}
      /\ cache' = cache /\ disk' = disk
  BY DEF Return
<1>3. ret = p /\ p \in PageId \ live
  BY <1>1, <1>2, Located DEF Accounted, Between, Slot, PageId, NoPage
<1>4. Store!Acquire(p)
  BY <1>2, <1>3 DEF Store!Acquire
<1> QED BY <1>3, <1>4

LEMMA DeallocatePageReleases ==
  ASSUME NEW p \in live, DeallocatePage(p)
  PROVE  Store!Release(p)
<1>1. live' = live \ {p} /\ cache' = cache /\ disk' = disk
  BY DEF DeallocatePage
<1> QED BY <1>1 DEF Store!Release

LEMMA WritePageWrites ==
  ASSUME Inv, NEW p \in live, FailingWritePage(p) \/ \E d \in Data : WritePage(p, d)
  PROVE  Store!Write(p)
<1>1. PICK x \in {Payload(d) : d \in Data} \cup {Torn} :
        cache' = [cache EXCEPT ![Offset(p)] = x]
  BY DEF FailingWritePage, WritePage
<1>2. /\ live' = live /\ disk' = disk /\ cache \in Files
      /\ \A s \in live : Offset(s) = s /\ s \in Slot
  BY HeldInPlace DEF FailingWritePage, WritePage, Inv, Typed
<1>3. [s \in live' |-> cache'[Offset(s)]] =
        [[s \in live |-> cache[Offset(s)]] EXCEPT ![p] = x]
  BY <1>1, <1>2 DEF Files
<1>4. [s \in live' |-> disk'[Offset(s)]] = [s \in live |-> disk[Offset(s)]]
  BY <1>2
<1> QED BY <1>1, <1>2, <1>3, <1>4 DEF Store!Write

LEMMA FsyncSyncs ==
  ASSUME Fsync
  PROVE  Store!Sync
<1>1. live' = live /\ cache' = cache /\ disk' = cache
  BY DEF Fsync
<1> QED BY <1>1 DEF Store!Sync

(* A page that was not written since the last fsync comes back as it was;  *)
(* one that was, as either, or torn.                                       *)
LEMMA PowerCutRefines ==
  ASSUME Inv, Placed, PowerCut, damage' = {}
  PROVE  Store!PowerCut
<1>1. /\ live' = live /\ cache' \in AfterPowerCut /\ disk' = cache'
      /\ cache \in Files /\ disk \in Files
      /\ \A s \in live : s \in PageId /\ Offset(s) = s /\ s \in Slot
  BY HeldInPlace DEF PowerCut, Inv, Typed
<1>2. Survivor(cache')
  BY <1>1, PowerCutPages
<1>3. ASSUME NEW s \in live
      PROVE  cache'[s] \in {cache[s], disk[s]} \/ (cache[s] # disk[s] /\ cache'[s] = Torn)
  <2>1. cache[s] \in Cell /\ disk[s] \in Cell /\ cache[s] \notin Header
    BY <1>1 DEF Placed, Files
  <2>2. \A x \in Tears(disk[s], cache[s]) : x = Torn
    BY <2>1, TornPages
  <2> QED BY <1>1, <1>2, <2>2 DEF Survivor
<1> QED BY <1>1, <1>3 DEF Store!PowerCut

LEMMA StepRefines ==
  IInv /\ [Next]_vars => Store!Next \/ UNCHANGED Store!vars \/ damage' # {}
<1> SUFFICES ASSUME IInv, [Next]_vars, damage' = {} PROVE Store!Next \/ UNCHANGED Store!vars
  OBVIOUS
<1>0. Inv /\ Scripted /\ Placed /\ live \subseteq PageId
  BY DamageStays DEF IInv, Inv, Typed
<1>1. CASE \/ Open \/ OpenThrows \/ Close \/ AllocatePage \/ AssignHead \/ CloseFile \/ Kill
           \/ UNCHANGED vars
  BY <1>1, QuietSteps
<1>2. CASE Return
  BY <1>0, <1>2, ReturnAcquires DEF Store!Next
<1>3. CASE \E p \in live : \/ DeallocatePage(p) \/ FailingWritePage(p)
                           \/ \E d \in Data : WritePage(p, d)
  BY <1>0, <1>3, DeallocatePageReleases, WritePageWrites DEF Store!Next
<1>4. CASE Pwrite \/ PwriteMetadata \/ FailingWrite
  BY <1>0, <1>4, CallSpares
<1>5. CASE Fsync
  BY <1>5, FsyncSyncs DEF Store!Next
<1>6. CASE PowerCut
  BY <1>0, <1>6, PowerCutRefines DEF Store!Next
<1> QED BY <1>1, <1>2, <1>3, <1>4, <1>5, <1>6 DEF Next

(* ImplementsPageStore: until something is damaged, the buffer pool may    *)
(* see the disk layer as a store of held pages.  allocatePage hands out a  *)
(* page nobody holds, no write of the allocator, failed or partial or not, *)
(* touches the bytes of a page a caller holds, and a power cut leaves each *)
(* held page as last written, as last synced or, where these differ, torn. *)
THEOREM Implements == Spec => ImplementsPageStore
<1>1. Init => Store!Init
  BY DEF Init, Store!Init
<1>2. IInv /\ [Next]_vars => [Store!Next \/ damage' # {}]_(Store!vars)
  BY StepRefines
<1> QED BY <1>1, <1>2, Invariance, PTL DEF Spec, ImplementsPageStore
=============================================================================
