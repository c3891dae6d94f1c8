---------------------------- MODULE EsbOtaProofs ----------------------------
(***************************************************************************)
(* The update session, for every geometry, every set of images and every   *)
(* order of packets, faults, aborts and resets.                            *)
(*                                                                         *)
(* Staged counts what is in flash and in the page buffer: it makes every   *)
(* page written one of the image's own, and every unit land at its place.  *)
(* Sound says that the page the writer stands on is blank when it was      *)
(* erased in advance, so a page is never programmed twice.                 *)
(***************************************************************************)
EXTENDS EsbOta, SequenceTheorems, TLAPS

Writers == [flash : [0 .. FlashEnd -> Seq(Units)],
            buf : Seq(Units), page : Nat, erased : Nat]

\* Where a session's image lies in flash.
Placed(b, i) ==
  /\ b \in Nat /\ b > 0 /\ b + PagesOf(i) <= FlashEnd
  /\ SizeOf[i] \in Nat /\ SizeOf[i] > 0

-----------------------------------------------------------------------------
(* Pages *)

\* An image fills all its pages but the last (esb_ota.c:390).
LEMMA PagesFacts ==
  ASSUME NEW i \in Images
  PROVE  /\ SizeOf[i] \in Nat /\ PagesOf(i) \in Int
         /\ PagesOf(i) * PAGE >= SizeOf[i]
         /\ PagesOf(i) * PAGE < SizeOf[i] + PAGE
  <1>1. PAGE \in Nat /\ PAGE > 0
    BY FlashAssumption
  <1>2. \A s \in Nat, P \in Nat :
          P > 0 => /\ ((s + P - 1) \div P) \in Int
                   /\ ((s + P - 1) \div P) * P >= s
                   /\ ((s + P - 1) \div P) * P < s + P
    BY Z3
  <1>3. SizeOf[i] \in Nat
    BY ImagesAssumption
  <1> QED
    BY <1>1, <1>2, <1>3 DEF PagesOf

\* More pages hold more units.
LEMMA PagesOrder ==
  ASSUME NEW n \in Int, NEW q \in Int, n * PAGE < q * PAGE
  PROVE  n < q
  <1>1. \A a, b \in Int, P \in Nat : a >= b => a * P >= b * P
    BY Z3
  <1> QED
    BY <1>1, FlashAssumption

\* Pages further on begin further on.
LEMMA PagesMono ==
  ASSUME NEW n \in Int, NEW q \in Int, n <= q
  PROVE  n * PAGE <= q * PAGE
  <1>1. \A a, c \in Int, P \in Nat : a <= c => a * P <= c * P
    BY Z3
  <1> QED
    BY <1>1, FlashAssumption

\* One page more is PAGE units more.
LEMMA PageStep == ASSUME NEW n \in Int PROVE (n + 1) * PAGE = n * PAGE + PAGE
  <1>1. \A a \in Int, P \in Nat : (a + 1) * P = a * P + P
    BY Z3
  <1> QED
    BY <1>1, FlashAssumption

\* A page that holds part of the image belongs to its staging area.
LEMMA PageInside ==
  ASSUME NEW i \in Images, NEW b, Placed(b, i), NEW p \in Nat, p >= b,
         (p - b) * PAGE < SizeOf[i]
  PROVE  p < FlashEnd /\ p - b < PagesOf(i)
  <1>1. p - b \in Int /\ PagesOf(i) \in Int /\ (p - b) * PAGE < PagesOf(i) * PAGE
    BY PagesFacts, FlashAssumption DEF Placed
  <1>2. p - b < PagesOf(i)
    BY <1>1, PagesOrder
  <1> QED
    BY <1>1, <1>2, FlashAssumption DEF Placed

\* Counting pages from the end of the image gives their number.
LEMMA PagesExact ==
  ASSUME NEW i \in Images, NEW n \in Int,
         n * PAGE >= SizeOf[i], n * PAGE < SizeOf[i] + PAGE
  PROVE  n = PagesOf(i)
  <1>1. (n + 1) * PAGE = n * PAGE + PAGE /\ (PagesOf(i) + 1) * PAGE = PagesOf(i) * PAGE + PAGE
    BY PageStep, PagesFacts
  <1>2. n * PAGE \in Int /\ PagesOf(i) * PAGE \in Int /\ PAGE \in Int
    BY PagesFacts, FlashAssumption
  <1>3. n < PagesOf(i) + 1
    BY <1>1, <1>2, PagesOrder, PagesFacts
  <1>4. PagesOf(i) < n + 1
    BY <1>1, <1>2, PagesOrder, PagesFacts
  <1> QED
    BY <1>3, <1>4, PagesFacts

-----------------------------------------------------------------------------
(* The page writer *)

\* The units of s are those that follow the n-th, in order.
Numbered(s, n) == \A k \in 1 .. Len(s) : s[k][2] = n + k

\* What the writer has written and holds is one gapless sequence of n units from
\* page b on, each unit at its place.
Gapless(w, b, n) ==
  /\ (w.page - b) * PAGE + Len(w.buf) = n
  /\ \A p \in b .. w.page - 1 :
       Len(w.flash[p]) = PAGE /\ Numbered(w.flash[p], (p - b) * PAGE)
  /\ Numbered(w.buf, (w.page - b) * PAGE)

\* The page the writer stands on is blank if it was erased in advance, and the
\* whole slot ahead of it is in the MCUboot build.
Sound(w) ==
  /\ build => \A p \in w.page .. FlashEnd - 1 : w.flash[p] = <<>>
  /\ ~build => w.erased <= w.page /\ (w.erased = w.page => w.flash[w.page] = <<>>)

\* The writer between two packets, n units into the image.
Held(w, b, n) == w.page >= b /\ Len(w.buf) < PAGE /\ Gapless(w, b, n) /\ Sound(w)

\* The pages on either side of the staging area that begins at b are as they were.
Around(b, f, g) == \A p \in 0 .. FlashEnd : p \notin b .. FlashEnd - 1 => g[p] = f[p]

\* esb_ota_flash_flush_page_buf writes the page it stands on, erasing at most
\* that one and the next of the same image, and moves on (esb_ota_flash.c:73-124).
LEMMA FlushFacts ==
  ASSUME NEW i \in Images, i = ota.image, NEW b, b = ota.base, Placed(b, i),
         build \in BOOLEAN, NEW w \in Writers, w.page >= b, Sound(w),
         (w.page - b) * PAGE < SizeOf[i], NEW fails \in BOOLEAN
  PROVE  LET v == Flush(w, fails)
         IN  /\ v \in Writers /\ v.page = w.page + 1 /\ v.buf = <<>>
             /\ Around(b, w.flash, v.flash) /\ Sound(v)
             /\ v.flash[w.page] = w.buf
             /\ \A p \in b .. w.page - 1 : v.flash[p] = w.flash[p]
  <1> DEFINE ready == IF ~build /\ w.page > w.erased THEN Erased(w, w.page) ELSE w
             done == [ready EXCEPT !.flash = Program(ready.flash, w.page, w.buf),
                                   !.page = w.page + 1, !.buf = <<>>]
             v == IF NextPageWanted(done) /\ ~fails THEN Erased(done, done.page) ELSE done
             pages == 0 .. FlashEnd
  <1>0. w.page \in Nat /\ w.erased \in Nat
    BY DEF Writers
  <1>1. b <= w.page /\ w.page < FlashEnd /\ b \in Nat /\ b > 0 /\ FlashEnd \in Nat
    BY PageInside, FlashAssumption DEF Writers, Placed
  <1>2. <<>> \in Seq(Units)
    OBVIOUS
  <1>3. /\ ready \in Writers /\ ready.page = w.page /\ ready.buf = w.buf
        /\ ready.flash[w.page] = <<>>
        /\ \A p \in pages : p # w.page => ready.flash[p] = w.flash[p]
        /\ ~build => ready.erased = w.page
    <2>1. CASE ~build /\ w.page > w.erased
      <3> DEFINE f == [w.flash EXCEPT ![w.page] = <<>>]
      <3>1. w.flash \in [pages -> Seq(Units)] /\ w.page \in pages
        BY <1>1 DEF Writers
      <3>2. /\ f \in [pages -> Seq(Units)] /\ f[w.page] = <<>>
            /\ \A p \in pages : p # w.page => f[p] = w.flash[p]
        BY <1>2, <3>1
      <3>3. ready = [w EXCEPT !.flash = f, !.erased = w.page]
        BY <2>1 DEF Erased, Blank
      <3> HIDE DEF f, ready
      <3> QED
        BY <3>2, <3>3 DEF Writers
    <2>2. CASE ~(~build /\ w.page > w.erased)
      BY <1>1, <2>2 DEF Sound, Writers
    <2> QED
      BY <2>1, <2>2
  <1> HIDE DEF ready
  <1>4. /\ done \in Writers /\ done.page = w.page + 1 /\ done.buf = <<>>
        /\ done.flash[w.page] = w.buf
        /\ \A p \in pages : p # w.page => done.flash[p] = w.flash[p]
        /\ ~build => done.erased = w.page
    <2>1. Program(ready.flash, w.page, w.buf) = [ready.flash EXCEPT ![w.page] = w.buf]
      BY <1>3 DEF Program, Blank
    <2> DEFINE f == [ready.flash EXCEPT ![w.page] = w.buf]
    <2>2. ready.flash \in [pages -> Seq(Units)] /\ w.page \in pages /\ w.buf \in Seq(Units)
      <3>1. ready.flash \in [pages -> Seq(Units)] /\ w.buf \in Seq(Units)
        BY <1>3, Zenon DEF Writers
      <3>2. w.page \in pages
        BY <1>0, <1>1
      <3> QED
        BY <3>1, <3>2
    <2>3. /\ f \in [pages -> Seq(Units)] /\ f[w.page] = w.buf
          /\ \A p \in pages : p # w.page => f[p] = ready.flash[p]
      BY <2>2
    <2>4. done = [ready EXCEPT !.flash = f, !.page = w.page + 1, !.buf = <<>>]
      BY <2>1
    <2> HIDE DEF f, done
    <2>5. w.page + 1 \in Nat
      BY DEF Writers
    <2> QED
      BY <1>2, <1>3, <2>3, <2>4, <2>5 DEF Writers
  <1> HIDE DEF done
  <1>5. CASE NextPageWanted(done) /\ ~fails
    <2>1. ~build /\ ((w.page + 1) - b) * PAGE < SizeOf[i]
      <3>1. ~build /\ (done.page - b) * PAGE < SizeOf[i]
        BY <1>5, Zenon DEF NextPageWanted
      <3>2. done.page = w.page + 1
        BY <1>4
      <3>3. ((w.page + 1) - b) * PAGE < SizeOf[i]
        BY <3>1, <3>2, Zenon
      <3> QED
        BY <3>1, <3>3
    <2>2. w.page + 1 < FlashEnd /\ w.page + 1 \in Nat
      <3>1. w.page + 1 \in Nat /\ w.page + 1 >= b
        BY <1>0, <1>1
      <3>2. \A q \in Nat : q >= b /\ (q - b) * PAGE < SizeOf[i] => q < FlashEnd
        BY PageInside
      <3> QED
        BY <2>1, <3>1, <3>2
    <2>3. v = [done EXCEPT !.flash = [done.flash EXCEPT ![w.page + 1] = <<>>],
                           !.erased = w.page + 1]
      BY <1>4, <1>5 DEF Erased, Blank
    <2> HIDE DEF v
    <2>4. /\ v \in Writers /\ v.page = w.page + 1 /\ v.buf = <<>> /\ v.erased = w.page + 1
          /\ v.flash[w.page + 1] = <<>>
          /\ \A p \in pages : p # w.page + 1 => v.flash[p] = done.flash[p]
      <3> DEFINE f == [done.flash EXCEPT ![w.page + 1] = <<>>]
      <3>1. done.flash \in [pages -> Seq(Units)] /\ w.page + 1 \in pages
        <4>1. done.flash \in [pages -> Seq(Units)]
          BY <1>4 DEF Writers
        <4>2. w.page + 1 \in pages
          BY <1>0, <1>1, <2>2
        <4> QED
          BY <4>1, <4>2
      <3>2. /\ f \in [pages -> Seq(Units)] /\ f[w.page + 1] = <<>>
            /\ \A p \in pages : p # w.page + 1 => f[p] = done.flash[p]
        BY <1>2, <3>1
      <3>3. v = [done EXCEPT !.flash = f, !.erased = w.page + 1]
        BY <2>3
      <3> HIDE DEF f
      <3> QED
        BY <1>4, <2>2, <3>2, <3>3 DEF Writers
    <2>5. v.flash[w.page] = w.buf /\ (\A p \in b .. w.page - 1 : v.flash[p] = w.flash[p])
      <3>1. \A p \in b .. w.page : p \in pages /\ p # w.page + 1
        BY <1>0, <1>1 DEF Placed
      <3>2. w.page \in b .. w.page /\ \A p \in b .. w.page - 1 : p \in b .. w.page /\ p # w.page
        BY <1>0, <1>1
      <3> HIDE DEF pages
      <3> QED
        BY <1>4, <2>4, <3>1, <3>2, Zenon
    <2>6. Around(b, w.flash, v.flash)
      BY <1>0, <1>1, <1>4, <2>2, <2>4 DEF Around
    <2>7. Sound(v)
      <3>1. ~build => v.erased <= v.page /\ (v.erased = v.page => v.flash[v.page] = <<>>)
        BY <1>0, <2>4
      <3> QED
        BY <2>1, <3>1, Zenon DEF Sound
    <2> QED
      BY <2>4, <2>5, <2>6, <2>7 DEF Flush, v, ready, done
  <1>6. CASE ~(NextPageWanted(done) /\ ~fails)
    <2>1. v = done
      BY <1>6
    <2> HIDE DEF v
    <2>2. Sound(v)
      <3>1. CASE build
        BY <1>0, <1>1, <1>4, <2>1, <3>1 DEF Sound
      <3>2. CASE ~build
        BY <1>0, <1>1, <1>4, <2>1, <3>2 DEF Sound
      <3> QED
        BY <3>1, <3>2
    <2>3. (\A p \in b .. w.page - 1 : v.flash[p] = w.flash[p]) /\ Around(b, w.flash, v.flash)
      BY <1>0, <1>1, <1>4, <2>1 DEF Around, Placed
    <2> QED
      BY <1>4, <2>1, <2>2, <2>3 DEF Flush, v, ready, done
  <1> QED
    BY <1>5, <1>6

\* The page buffer takes what fits of a packet, in order; the rest is what is
\* left over (esb_ota.c:597-608).
LEMMA FilledFacts ==
  ASSUME NEW w \in Writers, NEW data \in Seq(Units), Len(w.buf) < PAGE,
         NEW r, r = Lesser(PAGE - Len(w.buf), Len(data))
  PROVE  LET full == Filled(w, data)
             rest == Remainder(w, data)
         IN  /\ full \in Writers /\ full.flash = w.flash
             /\ full.page = w.page /\ full.erased = w.erased
             /\ r \in Nat /\ r <= Len(data) /\ Len(full.buf) = Len(w.buf) + r
             /\ \A k \in 1 .. Len(w.buf) : full.buf[k] = w.buf[k]
             /\ \A k \in Len(w.buf) + 1 .. Len(full.buf) : full.buf[k] = data[k - Len(w.buf)]
             /\ rest \in Seq(Units) /\ Len(rest) = Len(data) - r
             /\ \A k \in 1 .. Len(rest) : rest[k] = data[k + r]
  <1> DEFINE taken == SubSeq(data, 1, r)
             buf == w.buf \o taken
             full == Filled(w, data)
             rest == SubSeq(data, r + 1, Len(data))
  <1>1. w.buf \in Seq(Units) /\ Len(w.buf) \in Nat /\ Len(data) \in Nat /\ PAGE \in Nat
    BY FlashAssumption DEF Writers
  <1>2. r \in Nat /\ r <= Len(data)
    BY <1>1 DEF Lesser
  <1>3. /\ taken \in Seq(Units) /\ Len(taken) = r
        /\ \A k \in 1 .. r : taken[k] = data[k]
    BY <1>1, <1>2, SubSeqProperties
  <1> HIDE DEF taken
  <1>4. /\ buf \in Seq(Units) /\ Len(buf) = Len(w.buf) + r
        /\ \A k \in 1 .. Len(w.buf) : buf[k] = w.buf[k]
        /\ \A k \in Len(w.buf) + 1 .. Len(buf) : buf[k] = data[k - Len(w.buf)]
    <2>1. /\ buf \in Seq(Units) /\ Len(buf) = Len(w.buf) + r
          /\ \A k \in 1 .. Len(w.buf) + r :
               buf[k] = IF k <= Len(w.buf) THEN w.buf[k] ELSE taken[k - Len(w.buf)]
      <3>1. /\ buf \in Seq(Units) /\ Len(buf) = Len(w.buf) + Len(taken)
            /\ \A k \in 1 .. Len(w.buf) + Len(taken) :
                 buf[k] = IF k <= Len(w.buf) THEN w.buf[k] ELSE taken[k - Len(w.buf)]
        BY <1>1, <1>3, ConcatProperties, Zenon
      <3> HIDE DEF buf
      <3> QED
        BY <1>3, <3>1
    <2> HIDE DEF buf
    <2>2. \A k \in 1 .. Len(w.buf) : buf[k] = w.buf[k]
      BY <1>1, <1>2, <2>1
    <2>3. \A k \in Len(w.buf) + 1 .. Len(buf) : buf[k] = data[k - Len(w.buf)]
      <3> TAKE k \in Len(w.buf) + 1 .. Len(buf)
      <3>1. k \in 1 .. Len(w.buf) + r /\ ~(k <= Len(w.buf)) /\ k - Len(w.buf) \in 1 .. r
        BY <1>1, <1>2, <2>1
      <3> QED
        BY <1>3, <2>1, <3>1
    <2> QED
      BY <2>1, <2>2, <2>3
  <1> HIDE DEF buf
  <1>5. full = [w EXCEPT !.buf = buf]
    BY DEF Filled, buf, taken
  <1>6. /\ full \in Writers /\ full.flash = w.flash /\ full.buf = buf
        /\ full.page = w.page /\ full.erased = w.erased
    BY <1>4, <1>5 DEF Writers
  <1> HIDE DEF full
  <1>7. Remainder(w, data) = rest
    <2>1. Len(full.buf) = Len(w.buf) + r
      BY <1>4, <1>6, Zenon
    <2>2. Len(full.buf) - Len(w.buf) + 1 = r + 1
      BY <1>1, <1>2, <2>1
    <2> QED
      BY <2>2 DEF Remainder, full
  <1>8. /\ rest \in Seq(Units) /\ Len(rest) = Len(data) - r
        /\ \A k \in 1 .. Len(rest) : rest[k] = data[k + r]
    <2>1. \A k \in r + 1 .. Len(data) : data[k] \in Units
      BY <1>1, <1>2
    <2>2. /\ rest \in Seq(Units)
          /\ Len(rest) = IF r + 1 <= Len(data) THEN Len(data) - (r + 1) + 1 ELSE 0
          /\ \A k \in 1 .. Len(data) - (r + 1) + 1 : rest[k] = data[r + 1 + k - 1]
      BY <1>1, <1>2, <2>1, SubSeqProperties
    <2> HIDE DEF rest
    <2>3. Len(rest) = Len(data) - r
      BY <1>1, <1>2, <2>2
    <2>4. \A k \in 1 .. Len(rest) : r + 1 + k - 1 = k + r /\ k \in 1 .. Len(data) - (r + 1) + 1
      BY <1>1, <1>2, <2>3
    <2> QED
      BY <2>2, <2>3, <2>4
  <1> HIDE DEF rest
  <1> QED
    BY <1>2, <1>4, <1>6, <1>7, <1>8 DEF full

\* A packet appended goes on where the last one ended, whether or not it fills a
\* page on the way (esb_ota.c:597-622).
LEMMA AppendFacts ==
  ASSUME NEW i \in Images, i = ota.image, NEW b, b = ota.base, Placed(b, i),
         build \in BOOLEAN, NEW w \in Writers, NEW n \in Nat, Held(w, b, n),
         NEW data \in Seq(Units), Len(data) <= PAYLOAD, n + Len(data) <= SizeOf[i],
         Numbered(data, n), NEW fails \in BOOLEAN
  PROVE  LET a == Appended(w, data, fails)
         IN  a \in Writers /\ Held(a, b, n + Len(data)) /\ Around(b, w.flash, a.flash)
  <1> DEFINE full == Filled(w, data)
             rest == Remainder(w, data)
             r == Lesser(PAGE - Len(w.buf), Len(data))
             v == Flush(full, fails)
             a == Appended(w, data, fails)
             off == (w.page - b) * PAGE
             L == Len(w.buf)
             D == Len(data)
             F == Len(full.buf)
             R == Len(rest)
             S == SizeOf[i]
  <1>1. /\ w.page \in Nat /\ Len(w.buf) \in Nat /\ Len(data) \in Nat /\ PAGE \in Nat
        /\ PAYLOAD \in Nat /\ PAYLOAD <= PAGE /\ b \in Nat /\ w.page >= b /\ Len(w.buf) < PAGE
    BY FlashAssumption DEF Writers, Placed, Held
  <1>2. /\ full \in Writers /\ full.flash = w.flash
        /\ full.page = w.page /\ full.erased = w.erased
        /\ r \in Nat /\ r <= Len(data) /\ Len(full.buf) = Len(w.buf) + r
        /\ \A k \in 1 .. Len(w.buf) : full.buf[k] = w.buf[k]
        /\ \A k \in Len(w.buf) + 1 .. Len(full.buf) : full.buf[k] = data[k - Len(w.buf)]
        /\ rest \in Seq(Units) /\ Len(rest) = Len(data) - r
        /\ \A k \in 1 .. Len(rest) : rest[k] = data[k + r]
    BY <1>1, FilledFacts
  <1> HIDE DEF full, rest, r, v, a
  <1>3. /\ L \in Nat /\ D \in Nat /\ F \in Nat /\ R \in Nat /\ r \in Nat /\ S \in Nat
        /\ PAGE \in Nat /\ PAYLOAD \in Nat /\ PAYLOAD <= PAGE /\ L < PAGE /\ D <= PAYLOAD
        /\ r <= D /\ F = L + r /\ R = D - r /\ n + D <= S
    BY <1>1, <1>2, ImagesAssumption
  <1>4. off \in Int /\ off + L = n
    BY <1>1 DEF Held, Gapless
  <1>5. Numbered(w.buf, off)
    BY Zenon DEF Held, Gapless
  <1> HIDE DEF off, L, D, F, R, S
  <1>6. Numbered(full.buf, off)
    <2> SUFFICES ASSUME NEW k \in 1 .. Len(full.buf) PROVE full.buf[k][2] = off + k
      BY DEF Numbered
    <2>1. CASE k <= Len(w.buf)
      <3>1. k \in 1 .. Len(w.buf)
        BY <1>3, <2>1 DEF L, F
      <3> QED
        BY <1>2, <1>5, <3>1, Zenon DEF Numbered
    <2>2. CASE ~(k <= Len(w.buf))
      <3>1. k \in 1 .. F /\ ~(k <= L)
        BY <2>2 DEF F, L
      <3>2. k \in L + 1 .. F /\ k - L \in 1 .. D /\ n + (k - L) = off + k
        BY <1>3, <1>4, <3>1
      <3> QED
        BY <1>2, <3>2, Zenon DEF Numbered, L, D, F
    <2> QED
      BY <2>1, <2>2
  <1>7. Sound(full)
    BY <1>2, Zenon DEF Held, Sound
  <1>8. CASE Len(full.buf) < PAGE
    <2>1. r = D
      <3>1. r = (IF PAGE - L <= D THEN PAGE - L ELSE D) /\ F < PAGE
        BY <1>8, Zenon DEF Lesser, r, L, D, F
      <3> QED
        BY <1>3, <3>1
    <2>2. a = full
      BY <1>8 DEF Appended, full, a
    <2>3. off + F = n + D
      BY <1>3, <1>4, <2>1
    <2>4. \A p \in b .. full.page - 1 :
            Len(full.flash[p]) = PAGE /\ Numbered(full.flash[p], (p - b) * PAGE)
      BY <1>2 DEF Held, Gapless
    <2>5. Gapless(full, b, n + Len(data))
      BY <1>2, <1>6, <2>3, <2>4, Zenon DEF Gapless, off, F, D
    <2> QED
      BY <1>1, <1>2, <1>7, <1>8, <2>2, <2>5 DEF Held, Around, a
  <1>9. CASE ~(Len(full.buf) < PAGE)
    <2>1. r = PAGE - L /\ F = PAGE /\ R < PAGE
      <3>1. r = (IF PAGE - L <= D THEN PAGE - L ELSE D) /\ ~(F < PAGE)
        BY <1>9, Zenon DEF Lesser, r, L, D, F
      <3> QED
        BY <1>3, <3>1
    <2>2. (full.page - b) * PAGE < SizeOf[i] /\ full.page >= b
      <3>1. off < S
        BY <1>3, <1>4, <2>1
      <3> QED
        BY <1>1, <1>2, <3>1, Zenon DEF off, S
    <2>3. /\ v \in Writers /\ v.page = full.page + 1 /\ v.buf = <<>>
          /\ Around(b, full.flash, v.flash) /\ Sound(v)
          /\ v.flash[full.page] = full.buf
          /\ \A p \in b .. full.page - 1 : v.flash[p] = full.flash[p]
      <3>1. full \in Writers
        BY <1>2
      <3> QED
        BY <1>7, <2>2, <3>1, FlushFacts DEF v
    <2>4. a = [v EXCEPT !.buf = rest]
      BY <1>9 DEF Appended, full, rest, v, a
    <2>5. /\ a \in Writers /\ a.flash = v.flash /\ a.page = v.page
          /\ a.erased = v.erased /\ a.buf = rest
      BY <1>2, <2>3, <2>4 DEF Writers
    <2>6. a.page = w.page + 1 /\ a.page - b = (w.page - b) + 1
      BY <1>1, <1>2, <2>3, <2>5
    <2>7. ((w.page - b) + 1) * PAGE = off + PAGE
      <3>1. w.page - b \in Int
        BY <1>1
      <3> QED
        BY <3>1, PageStep, Zenon DEF off
    <2>8. (a.page - b) * PAGE = off + PAGE
      BY <2>6, <2>7, Zenon
    <2>9. off + PAGE + R = n + D
      BY <1>3, <1>4, <2>1
    <2>10. ASSUME NEW p \in b .. a.page - 1
           PROVE  Len(a.flash[p]) = PAGE /\ Numbered(a.flash[p], (p - b) * PAGE)
      <3>1. CASE p = w.page
        <4>1. a.flash[p] = full.buf
          BY <1>2, <2>3, <2>5, <3>1
        <4> QED
          BY <1>6, <2>1, <3>1, <4>1, Zenon DEF off, F
      <3>2. CASE p # w.page
        <4>1. p \in b .. w.page - 1
          BY <1>1, <2>6, <3>2
        <4>2. a.flash[p] = w.flash[p]
          BY <1>2, <2>3, <2>5, <4>1
        <4> QED
          BY <4>1, <4>2, Zenon DEF Held, Gapless
      <3> QED
        BY <3>1, <3>2
    <2>11. Numbered(a.buf, off + PAGE)
      <3> SUFFICES ASSUME NEW k \in 1 .. Len(rest) PROVE rest[k][2] = off + PAGE + k
        BY <2>5, Zenon DEF Numbered
      <3>1. k \in 1 .. R
        BY DEF R
      <3>2. k + r \in 1 .. D /\ n + (k + r) = off + PAGE + k
        BY <1>3, <1>4, <2>1, <3>1
      <3> QED
        BY <1>2, <3>2, Zenon DEF Numbered, D
    <2>12. Gapless(a, b, n + Len(data))
      BY <2>5, <2>8, <2>9, <2>10, <2>11, Zenon DEF Gapless, R, D
    <2>13. Sound(a) /\ Around(b, w.flash, a.flash)
      BY <1>2, <2>3, <2>5, Zenon DEF Sound, Around
    <2>14. a.page >= b /\ Len(a.buf) < PAGE
      <3>1. a.page >= b
        BY <1>1, <2>6
      <3> QED
        BY <2>1, <2>5, <3>1, Zenon DEF R
    <2> QED
      BY <2>5, <2>12, <2>13, <2>14, Zenon DEF Held, a
  <1> QED
    BY <1>8, <1>9

\* The whole image is in flash, the last page filled as far as the image goes.
Whole(w, b, i) ==
  /\ w.buf = <<>> /\ w.page = b + PagesOf(i)
  /\ \A p \in b .. w.page - 1 :
       /\ Len(w.flash[p]) = Lesser(PAGE, SizeOf[i] - (p - b) * PAGE)
       /\ Numbered(w.flash[p], (p - b) * PAGE)

\* Pages that are full lie before the end of the units counted.
LEMMA FullPages ==
  ASSUME NEW b \in Nat, NEW q \in Nat, NEW m \in Int, (q - b) * PAGE <= m,
         NEW p \in b .. q - 1
  PROVE  PAGE = Lesser(PAGE, m - (p - b) * PAGE)
  <1> DEFINE x == (p - b) * PAGE
             y == (q - b) * PAGE
  <1>1. p \in Int /\ (p - b) + 1 <= q - b /\ p - b \in Int /\ q - b \in Int
    OBVIOUS
  <1>2. ((p - b) + 1) * PAGE <= y
    BY <1>1, PagesMono
  <1>3. ((p - b) + 1) * PAGE = x + PAGE
    BY <1>1, PageStep
  <1>4. x \in Int /\ y \in Int /\ PAGE \in Nat
    BY <1>1, FlashAssumption
  <1> HIDE DEF x, y
  <1>5. x + PAGE <= y
    BY <1>2, <1>3
  <1>6. y <= m
    BY DEF y
  <1>7. PAGE <= m - x
    BY <1>4, <1>5, <1>6
  <1> QED
    BY <1>4, <1>7 DEF Lesser, x

\* After the last packet what is left in the page buffer is flushed, and the
\* image is whole (esb_ota.c:627-639).
LEMMA LastFlushFacts ==
  ASSUME NEW i \in Images, i = ota.image, NEW b, b = ota.base, Placed(b, i),
         build \in BOOLEAN, NEW w \in Writers, Held(w, b, SizeOf[i]), NEW fails \in BOOLEAN
  PROVE  LET v == IF w.buf # <<>> THEN Flush(w, fails) ELSE w
         IN  v \in Writers /\ Whole(v, b, i) /\ Around(b, w.flash, v.flash)
  <1> DEFINE off == (w.page - b) * PAGE
             S == SizeOf[i]
             L == Len(w.buf)
             f == Flush(w, fails)
  <1>1. w.page \in Nat /\ b \in Nat /\ w.page >= b /\ PAGE \in Nat /\ w.buf \in Seq(Units)
    BY FlashAssumption DEF Writers, Placed, Held
  <1>2. off \in Int /\ L \in Nat /\ L < PAGE /\ S \in Nat /\ off + L = S
    BY <1>1 DEF Held, Gapless, Placed
  <1>3. /\ \A p \in b .. w.page - 1 :
             Len(w.flash[p]) = PAGE /\ Numbered(w.flash[p], (p - b) * PAGE)
        /\ Numbered(w.buf, off)
    BY Zenon DEF Held, Gapless
  <1>4. \A p \in b .. w.page - 1 : PAGE = Lesser(PAGE, S - (p - b) * PAGE)
    <2>1. off <= S
      <3> HIDE DEF off, L, S
      <3> QED
        BY <1>2
    <2> SUFFICES ASSUME NEW p \in b .. w.page - 1 PROVE PAGE = Lesser(PAGE, S - (p - b) * PAGE)
      OBVIOUS
    <2> HIDE DEF S
    <2>2. S \in Int
      BY <1>2
    <2> QED
      BY <1>1, <2>1, <2>2, FullPages, Zenon
  <1>5. CASE w.buf = <<>>
    <2>1. L = 0 /\ off = S
      <3>1. L = 0
        BY <1>5
      <3> HIDE DEF off, L, S
      <3> QED
        BY <1>2, <3>1
    <2>2. w.page - b = PagesOf(i)
      <3>1. w.page - b \in Int /\ off >= S /\ off < S + PAGE
        <4> HIDE DEF off, L, S
        <4> QED
          BY <1>1, <1>2, <2>1
      <3> QED
        BY <3>1, PagesExact DEF off, S
    <2>3. w.page = b + PagesOf(i)
      BY <1>1, <2>2
    <2>4. Whole(w, b, i)
      BY <1>3, <1>4, <1>5, <2>3, Zenon DEF Whole, S
    <2> QED
      BY <1>5, <2>4 DEF Around
  <1>6. CASE w.buf # <<>>
    <2>1. L > 0 /\ off < S
      <3>1. L # 0
        BY <1>1, <1>6
      <3> HIDE DEF off, L, S
      <3> QED
        BY <1>2, <3>1
    <2>2. /\ f \in Writers /\ f.page = w.page + 1 /\ f.buf = <<>>
          /\ Around(b, w.flash, f.flash) /\ Sound(f)
          /\ f.flash[w.page] = w.buf
          /\ \A p \in b .. w.page - 1 : f.flash[p] = w.flash[p]
      BY <1>1, <2>1, FlushFacts DEF Held
    <2>3. f.page = b + PagesOf(i)
      <3>0. w.page - b \in Int
        BY <1>1
      <3>1. ((w.page - b) + 1) * PAGE = off + PAGE
        BY <3>0, PageStep
      <3>2. off + PAGE >= S /\ off + PAGE < S + PAGE
        <4> HIDE DEF off, L, S
        <4> QED
          BY <1>1, <1>2, <2>1
      <3>3. (w.page - b) + 1 = PagesOf(i)
        <4>1. (w.page - b) + 1 \in Int
          BY <3>0
        <4> QED
          BY <3>1, <3>2, <4>1, PagesExact
      <3> QED
        BY <1>1, <2>2, <3>3
    <2>4. ASSUME NEW p \in b .. f.page - 1
          PROVE  /\ Len(f.flash[p]) = Lesser(PAGE, S - (p - b) * PAGE)
                 /\ Numbered(f.flash[p], (p - b) * PAGE)
      <3>1. CASE p = w.page
        <4>1. f.flash[p] = w.buf
          BY <2>2, <3>1
        <4>2. L = Lesser(PAGE, S - off)
          <5> HIDE DEF off, L, S
          <5> QED
            BY <1>1, <1>2 DEF Lesser
        <4> QED
          BY <1>3, <3>1, <4>1, <4>2, Zenon DEF off, L
      <3>2. CASE p # w.page
        <4>1. p \in b .. w.page - 1
          BY <1>1, <2>2, <3>2
        <4>2. f.flash[p] = w.flash[p]
          BY <2>2, <4>1
        <4> QED
          BY <1>3, <1>4, <4>1, <4>2, Zenon
      <3> QED
        BY <3>1, <3>2
    <2>5. Whole(f, b, i)
      BY <2>2, <2>3, <2>4, Zenon DEF Whole, S
    <2> QED
      BY <1>6, <2>2, <2>5
  <1> QED
    BY <1>5, <1>6

-----------------------------------------------------------------------------
(* Packets *)

\* Of a packet only what belongs to the image is used, numbered from the
\* packet's place in the image (esb_ota.c:588-592).
LEMMA DataFacts ==
  ASSUME NEW i \in Images, NEW seq \in Nat, ota.written \in Nat,
         ota.image \in Images, ota.written <= SizeOf[ota.image]
  PROVE  /\ Data(i, seq) \in Seq(Units)
         /\ Len(Data(i, seq)) = Lesser(PAYLOAD, SizeOf[ota.image] - ota.written)
         /\ Numbered(Data(i, seq), seq * PAYLOAD)
  <1> DEFINE n == Lesser(PAYLOAD, SizeOf[ota.image] - ota.written)
             at == seq * PAYLOAD
             all == [k \in 1 .. PAYLOAD |-> <<i, at + k>>]
  <1>1. PAYLOAD \in Nat /\ SizeOf[ota.image] \in Nat
    BY FlashAssumption, ImagesAssumption
  <1>2. at \in Nat
    BY <1>1
  <1>3. n \in Nat /\ n <= PAYLOAD
    BY <1>1 DEF Lesser
  <1> HIDE DEF n, at
  <1>4. /\ all \in Seq(Units) /\ Len(all) = PAYLOAD
        /\ \A k \in 1 .. PAYLOAD : all[k] = <<i, at + k>>
    BY <1>1, <1>2 DEF Units
  <1> HIDE DEF all
  <1> DEFINE data == SubSeq(all, 1, n)
  <1>5. data \in Seq(Units) /\ Len(data) = n /\ (\A k \in 1 .. n : data[k] = all[k])
    BY <1>1, <1>3, <1>4, SubSeqProperties
  <1>6. data = Data(i, seq)
    BY DEF Data, Payload, data, all, n, at
  <1> HIDE DEF data
  <1>7. Numbered(data, at)
    <2> SUFFICES ASSUME NEW k \in 1 .. n PROVE data[k][2] = at + k
      BY <1>5, Zenon DEF Numbered
    <2>1. k \in 1 .. PAYLOAD
      BY <1>1, <1>3
    <2> QED
      BY <1>4, <1>5, <2>1
  <1> QED
    BY <1>5, <1>6, <1>7 DEF n, at

\* A packet that brings nothing leaves the page buffer alone.
LEMMA NothingAppended ==
  ASSUME NEW w \in Writers, Len(w.buf) < PAGE, NEW data \in Seq(Units), Len(data) = 0,
         NEW fails
  PROVE  Filled(w, data) = w /\ Appended(w, data, fails) = w
  <1>1. w.buf \in Seq(Units) /\ PAGE \in Nat
    BY FlashAssumption DEF Writers
  <1>2. Lesser(PAGE - Len(w.buf), Len(data)) = 0
    BY <1>1 DEF Lesser
  <1>3. data = <<>>
    BY EmptySeq
  <1>4. SubSeq(data, 1, 0) = <<>>
    BY <1>3
  <1>5. w.buf \o <<>> = w.buf
    BY <1>1, ConcatEmptySeq
  <1>6. Filled(w, data) = w
    BY <1>2, <1>4, <1>5 DEF Filled, Writers
  <1> QED
    BY <1>6 DEF Appended

-----------------------------------------------------------------------------
(* The session *)

\* A session in progress has staged what it counts: it holds a gapless start of
\* the image, or all of it is in flash.
Staged(c, w) ==
  /\ c.session /\ c.image \in Images /\ Placed(c.base, c.image)
  /\ Fits(c.image) /\ c.base = StagingBase(c.image)
  /\ c.written <= SizeOf[c.image]
  /\ c.written < SizeOf[c.image] =>
       Held(w, c.base, c.written) /\ c.written = c.next * PAYLOAD
  /\ c.written = SizeOf[c.image] => Whole(w, c.base, c.image)

SessionInv == InProgress => Staged(ota, Writer)

\* A verdict is about the image as it lies in flash.
Judged ==
  ota.state = "COMPLETE" \/ (ota.state = "VERIFYING" /\ ota.error = "VERIFY_OK")
    => ota.session /\ CrcMatches

StagingInv == TypeOK /\ SessionInv /\ Judged

\* The page writer's state has its type.
LEMMA WriterTyped == TypeOK => Writer \in Writers
  BY DEF TypeOK, Contexts, Writer, Writers

\* Between two packets the page buffer is never full.
LEMMA RoomLeft ==
  ASSUME StagingInv, Receiving
  PROVE  /\ Staged(ota, Writer) /\ Writer \in Writers /\ build \in BOOLEAN
         /\ Len(Writer.buf) < PAGE /\ ota.written \in Nat /\ ota.next \in Nat
  <1>1. /\ Staged(ota, Writer) /\ Writer \in Writers /\ build \in BOOLEAN
        /\ ota.written \in Nat /\ ota.next \in Nat
    BY WriterTyped, ImagesAssumption
    DEF StagingInv, SessionInv, InProgress, Receiving, TypeOK, Contexts
  <1>2. SizeOf[ota.image] \in Nat
    BY <1>1, ImagesAssumption DEF Staged
  <1>3. CASE ota.written < SizeOf[ota.image]
    BY <1>1, <1>3 DEF Staged, Held
  <1>4. CASE ~(ota.written < SizeOf[ota.image])
    <2>1. Whole(Writer, ota.base, ota.image)
      BY <1>1, <1>2, <1>4 DEF Staged
    <2> QED
      BY <1>1, <2>1, FlashAssumption DEF Whole
  <1> QED
    BY <1>1, <1>3, <1>4

-----------------------------------------------------------------------------
(* What the handlers of a DATA packet do to the staged image *)

\* A packet taken extends what is staged, or completes it (esb_ota.c:588-639).
LEMMA DataStaged ==
  ASSUME StagingInv, Receiving, NEW i \in Images, NEW seq \in Nat, seq = ota.next,
         NEW fails \in BOOLEAN
  PROVE  LET data == Data(i, seq)
             a == Appended(Writer, data, fails)
             w == IF Complete(data) /\ a.buf # <<>> THEN Flush(a, fails) ELSE a
         IN  /\ w \in Writers /\ Around(ota.base, flash, w.flash) /\ Len(data) \in Nat
             /\ ota.written + Len(data) <= SizeOf[ota.image]
             /\ ota.written + Len(data) < SizeOf[ota.image] =>
                  /\ Held(w, ota.base, ota.written + Len(data))
                  /\ ota.written + Len(data) = (seq + 1) * PAYLOAD
             /\ ota.written + Len(data) = SizeOf[ota.image] =>
                  Whole(w, ota.base, ota.image)
  <1> DEFINE data == Data(i, seq)
             a == Appended(Writer, data, fails)
             w == IF Complete(data) /\ a.buf # <<>> THEN Flush(a, fails) ELSE a
             S == SizeOf[ota.image]
             N == ota.written
             D == Len(data)
  <1>1. /\ Staged(ota, Writer) /\ Writer \in Writers /\ build \in BOOLEAN
        /\ Len(Writer.buf) < PAGE /\ N \in Nat /\ ota.next \in Nat
    BY RoomLeft
  <1>2. /\ ota.image \in Images /\ Placed(ota.base, ota.image) /\ N <= S
        /\ S \in Nat /\ PAYLOAD \in Nat
    BY <1>1, ImagesAssumption, FlashAssumption DEF Staged
  <1>3. data \in Seq(Units) /\ D = Lesser(PAYLOAD, S - N) /\ Numbered(data, seq * PAYLOAD)
    BY <1>1, <1>2, DataFacts
  <1> HIDE DEF data, a, S, D, w
  <1>4. D \in Nat /\ D <= PAYLOAD /\ N + D <= S /\ (N + D < S => D = PAYLOAD)
    BY <1>1, <1>2, <1>3 DEF Lesser
  <1>5. Writer.flash = flash
    BY DEF Writer
  <1>6. CASE N < S
    <2>1. Held(Writer, ota.base, N) /\ N = seq * PAYLOAD
      BY <1>1, <1>6 DEF Staged, S
    <2>2. a \in Writers /\ Held(a, ota.base, N + D) /\ Around(ota.base, flash, a.flash)
      BY <1>1, <1>2, <1>3, <1>4, <1>5, <2>1, AppendFacts, Zenon DEF a, D, S
    <2>3. CASE N + D < S
      <3>1. ~Complete(data)
        BY <1>1, <1>2, <1>4, <2>3 DEF Complete, S, D
      <3>2. w = a
        BY <3>1, Zenon DEF w
      <3>3. N + D = (seq + 1) * PAYLOAD
        BY <1>4, <2>1, <2>3, <1>2
      <3>4. N + D # S
        BY <1>1, <1>2, <1>4, <2>3
      <3> QED
        BY <1>4, <2>2, <3>2, <3>3, <3>4, Zenon DEF S, D, data, a, w
    <2>4. CASE N + D = S
      <3>1. Complete(data)
        BY <2>4 DEF Complete, S, D
      <3>2. w = IF a.buf # <<>> THEN Flush(a, fails) ELSE a
        BY <3>1, Zenon DEF w
      <3>3. Held(a, ota.base, SizeOf[ota.image])
        BY <2>2, <2>4, Zenon DEF S
      <3>4. w \in Writers /\ Whole(w, ota.base, ota.image) /\ Around(ota.base, a.flash, w.flash)
        BY <1>1, <1>2, <2>2, <3>2, <3>3, LastFlushFacts
      <3>5. Around(ota.base, flash, w.flash)
        BY <2>2, <3>4, Zenon DEF Around
      <3>6. ~(N + D < S)
        BY <1>1, <1>2, <1>4, <2>4
      <3> QED
        BY <1>4, <3>4, <3>5, <3>6, Zenon DEF S, D, data, a, w
    <2> QED
      BY <1>1, <1>2, <1>4, <2>3, <2>4
  <1>7. CASE ~(N < S)
    <2>1. N = S /\ D = 0
      BY <1>1, <1>2, <1>4, <1>7
    <2>2. a = Writer
      BY <1>1, <1>3, <2>1, NothingAppended DEF a, D
    <2>3. Whole(Writer, ota.base, ota.image)
      BY <1>1, <2>1 DEF Staged, S
    <2>4. w = Writer
      BY <2>2, <2>3, Zenon DEF w, Whole
    <2>5. N + D = N /\ ~(N + D < S)
      BY <1>1, <1>2, <2>1
    <2> QED
      BY <1>1, <1>4, <1>5, <2>3, <2>4, <2>5, Zenon DEF S, D, data, a, w, Around
  <1> QED
    BY <1>6, <1>7

\* A page that fails to be written holds part of the image (esb_ota.c:611-639).
LEMMA FailingPageIsOwn ==
  ASSUME StagingInv, Receiving, NEW i \in Images, NEW seq \in Nat, seq = ota.next
  PROVE  LET data == Data(i, seq)
             full == Filled(Writer, data)
             a == Appended(Writer, data, FALSE)
         IN  /\ data \in Seq(Units)
             /\ Len(full.buf) = PAGE =>
                  /\ full \in Writers /\ full.flash = flash
                  /\ ota.base <= full.page /\ full.page < FlashEnd
             /\ Complete(data) /\ a.buf # <<>> =>
                  /\ a \in Writers /\ Around(ota.base, flash, a.flash)
                  /\ ota.base <= a.page /\ a.page < FlashEnd
  <1> DEFINE data == Data(i, seq)
             full == Filled(Writer, data)
             a == Appended(Writer, data, FALSE)
             S == SizeOf[ota.image]
             N == ota.written
             D == Len(data)
             L == Len(Writer.buf)
             off == (Writer.page - ota.base) * PAGE
             r == Lesser(PAGE - Len(Writer.buf), Len(data))
  <1>1. /\ Staged(ota, Writer) /\ Writer \in Writers /\ build \in BOOLEAN
        /\ L < PAGE /\ N \in Nat /\ ota.next \in Nat
    BY RoomLeft
  <1>2. /\ ota.image \in Images /\ Placed(ota.base, ota.image) /\ N <= S
        /\ S \in Nat /\ PAYLOAD \in Nat /\ PAGE \in Nat /\ PAYLOAD <= PAGE
    BY <1>1, ImagesAssumption, FlashAssumption DEF Staged
  <1>3. data \in Seq(Units) /\ D = Lesser(PAYLOAD, S - N) /\ Numbered(data, seq * PAYLOAD)
    BY <1>1, <1>2, DataFacts
  <1>4. Writer.page \in Nat /\ L \in Nat /\ ota.base \in Nat /\ off \in Int
    BY <1>1, <1>2 DEF Writers, Placed
  <1>5. /\ full \in Writers /\ full.flash = Writer.flash /\ full.page = Writer.page
        /\ r \in Nat /\ r <= D /\ Len(full.buf) = L + r
    BY <1>1, <1>3, FilledFacts
  <1>6. Writer.flash = flash
    BY DEF Writer
  <1> HIDE DEF data, a, S, D, full, L, off, r
  <1>7. D \in Nat /\ D <= PAYLOAD /\ N + D <= S
    BY <1>1, <1>2, <1>3 DEF Lesser
  <1>8. CASE N < S
    <2>1. Held(Writer, ota.base, N) /\ N = seq * PAYLOAD
      BY <1>1, <1>8 DEF Staged, S
    <2>2. a \in Writers /\ Held(a, ota.base, N + D) /\ Around(ota.base, flash, a.flash)
      BY <1>1, <1>2, <1>3, <1>6, <1>7, <2>1, AppendFacts, Zenon DEF a, D, S
    <2>3. ASSUME Len(full.buf) = PAGE
          PROVE  ota.base <= full.page /\ full.page < FlashEnd
      <3>1. off + L = N /\ Writer.page >= ota.base
        BY <2>1 DEF Held, Gapless, off, L
      <3>2. L + r = PAGE
        BY <1>5, <2>3
      <3>3. off < S
        BY <1>1, <1>2, <1>4, <1>5, <1>7, <3>1, <3>2
      <3>4. (Writer.page - ota.base) * PAGE < SizeOf[ota.image]
        BY <3>3, Zenon DEF off, S
      <3> QED
        BY <1>2, <1>4, <1>5, <3>1, <3>4, PageInside
    <2>4. ASSUME Complete(data), a.buf # <<>>
          PROVE  ota.base <= a.page /\ a.page < FlashEnd
      <3>1. N + D = S
        BY <2>4, Zenon DEF Complete, S, D
      <3> DEFINE at == (a.page - ota.base) * PAGE
                 K == Len(a.buf)
      <3>2. at + K = S /\ a.page >= ota.base
        BY <2>2, <3>1 DEF Held, Gapless
      <3>3. a.page \in Nat /\ K \in Nat /\ K # 0
        BY <2>2, <2>4 DEF Writers
      <3>4. at \in Int
        BY <1>2, <1>4, <3>3
      <3> HIDE DEF at, K
      <3>5. at < S
        BY <1>2, <3>2, <3>3, <3>4
      <3>6. (a.page - ota.base) * PAGE < SizeOf[ota.image]
        BY <3>5, Zenon DEF at, S
      <3> QED
        BY <1>2, <1>4, <3>2, <3>3, <3>6, PageInside
    <2> QED
      BY <1>3, <1>5, <1>6, <2>2, <2>3, <2>4, Zenon DEF data, full, a
  <1>9. CASE ~(N < S)
    <2>1. N = S /\ D = 0
      BY <1>1, <1>2, <1>7, <1>9
    <2>2. full = Writer /\ a = Writer
      BY <1>1, <1>3, <2>1, NothingAppended DEF a, full, D, L
    <2>3. Whole(Writer, ota.base, ota.image)
      BY <1>1, <2>1 DEF Staged, S
    <2>4. a.buf = <<>>
      BY <2>2, <2>3, Zenon DEF Whole
    <2>5. Len(full.buf) # PAGE
      BY <1>1, <1>2, <1>4, <2>2 DEF L
    <2> QED
      BY <1>3, <2>4, <2>5, Zenon DEF data, full, a
  <1> QED
    BY <1>8, <1>9

\* A page that fails is left alone or spoilt, and no other page is touched.
LEMMA FailedFlushFacts ==
  ASSUME NEW b \in Nat, NEW w \in Writers, b <= w.page, w.page < FlashEnd, NEW damaged
  PROVE  FailedFlush(w, damaged) \in Writers /\ Around(b, w.flash, FailedFlush(w, damaged).flash)
  <1> DEFINE f == [w.flash EXCEPT ![w.page] = Garbage]
  <1>1. Garbage \in Seq(Units)
    BY DEF Garbage, Units
  <1>2. /\ w.page \in Nat /\ FlashEnd \in Nat /\ w.flash \in [0 .. FlashEnd -> Seq(Units)]
    BY FlashAssumption DEF Writers
  <1>3. f \in [0 .. FlashEnd -> Seq(Units)] /\ Around(b, w.flash, f)
    BY <1>1, <1>2 DEF Around
  <1>4. FailedFlush(w, damaged) \in {w, [w EXCEPT !.flash = f]}
    BY DEF FailedFlush
  <1> HIDE DEF f
  <1>5. CASE FailedFlush(w, damaged) = w
    BY <1>5 DEF Around
  <1>6. CASE FailedFlush(w, damaged) = [w EXCEPT !.flash = f]
    BY <1>3, <1>6 DEF Around, Writers
  <1> QED
    BY <1>4, <1>5, <1>6

-----------------------------------------------------------------------------
(* Steps *)

SameImage ==
  /\ build' = build /\ flash' = flash
  /\ ota'.session = ota.session /\ ota'.image = ota.image /\ ota'.base = ota.base
  /\ ota'.written = ota.written /\ ota'.next = ota.next /\ ota'.buf = ota.buf
  /\ ota'.page = ota.page /\ ota'.erased = ota.erased

\* A step that leaves the image and its bookkeeping alone keeps what is staged.
LEMMA ImageKept ==
  ASSUME StagingInv, TypeOK', SameImage, InProgress' => InProgress, Judged'
  PROVE  StagingInv'
  <1>2. Writer' = Writer
    BY DEF Writer, SameImage
  <1>3. ASSUME Staged(ota, Writer) PROVE Staged(ota, Writer)'
    BY <1>2, <1>3, Zenon DEF Staged, Fits, StagingBase, Placed, Held, Gapless, Sound, Whole, SameImage
  <1>4. SessionInv'
    BY <1>3, Zenon DEF StagingInv, SessionInv
  <1> QED
    BY <1>4 DEF StagingInv

\* A session that has failed or ended promises nothing about an image.
LEMMA SessionOver ==
  ASSUME TypeOK', ~InProgress'
  PROVE  StagingInv'
  BY DEF StagingInv, SessionInv, Judged, InProgress

\* A verdict stands while the image and the state stay.
LEMMA VerdictKept ==
  ASSUME Judged, SameImage, ota'.state = ota.state, ota'.error = "VERIFY_OK" => ota.error = "VERIFY_OK"
  PROVE  Judged'
  BY DEF Judged, CrcMatches, SameImage

\* Nothing is staged when the tracker starts.
LEMMA StartsEmpty == Init => StagingInv
  <1> SUFFICES ASSUME Init PROVE StagingInv
    OBVIOUS
  <1>1. /\ SlotBase \in Nat /\ SlotBase > 0 /\ FlashEnd \in Nat /\ SlotBase <= FlashEnd
        /\ TIMEOUT \in Nat /\ MaxFaults \in Nat /\ Builds \subseteq BOOLEAN
    BY FlashAssumption, ImagesAssumption
  <1>2. Foreign \in Seq(Units) /\ <<>> \in Seq(Units)
    BY DEF Foreign, Units
  <1>3. ota \in Contexts
    BY <1>1, <1>2 DEF Init, NoSession, Contexts, States, Errors
  <1>4. flash \in [0 .. FlashEnd -> Seq(Units)]
    BY <1>1, <1>2 DEF Init
  <1>5. TypeOK
    BY <1>1, <1>3, <1>4 DEF Init, TypeOK
  <1>6. ota.state = "IDLE"
    BY DEF Init, NoSession
  <1> QED
    BY <1>4, <1>5, <1>6 DEF StagingInv, SessionInv, Judged, InProgress

\* The MCUboot slot is erased as a whole and nothing around it
\* (esb_ota_flash.c:159-174).
LEMMA SlotErasedFacts ==
  ASSUME TypeOK
  PROVE  /\ SlotErased \in [0 .. FlashEnd -> Seq(Units)]
         /\ Around(SlotBase, flash, SlotErased)
         /\ \A p \in SlotBase .. FlashEnd - 1 : SlotErased[p] = <<>>
  <1>1. SlotBase \in Nat /\ SlotBase > 0 /\ FlashEnd \in Nat /\ SlotBase <= FlashEnd
    BY FlashAssumption
  <1>2. <<>> \in Seq(Units) /\ flash \in [0 .. FlashEnd -> Seq(Units)]
    BY DEF TypeOK
  <1> QED
    BY <1>1, <1>2 DEF SlotErased, Blank, Around

\* BEGIN admits an image only where its staging area lies whole, below the
\* settings and above what is taken for the end of the firmware (esb_ota.c:302-405).
LEMMA FitsPlaced ==
  ASSUME NEW i \in Images, build \in BOOLEAN, Fits(i)
  PROVE  /\ Placed(StagingBase(i), i)
         /\ StagingBase(i) \in Nat /\ (build \/ StagingBase(i) >= RunningEnd)
  <1>1. /\ SizeOf[i] \in Nat /\ SizeOf[i] > 0 /\ PagesOf(i) \in Int /\ FlashEnd \in Nat
        /\ RunningEnd \in Nat /\ RunningEnd > 0 /\ SlotBase \in Nat /\ SlotBase > 0
    BY PagesFacts, FlashAssumption DEF Fits, RunningEnd
  <1>2. CASE build
    <2>1. SizeOf[i] <= (FlashEnd - SlotBase) * PAGE
      <3>1. SizeOf[i] <= SlotCapacity /\ SlotCapacity \in Nat
        BY <1>2, SlotAssumption DEF Fits
      <3>2. SlotCapacity <= (FlashEnd - SlotBase) * PAGE /\ (FlashEnd - SlotBase) * PAGE \in Int
        BY <1>1, FlashAssumption, SlotAssumption
      <3> DEFINE room == (FlashEnd - SlotBase) * PAGE
      <3> HIDE DEF room
      <3>3. SizeOf[i] <= room
        BY <1>1, <3>1, <3>2 DEF room
      <3> QED
        BY <3>3 DEF room
    <2>2. (FlashEnd - SlotBase + 1) * PAGE = (FlashEnd - SlotBase) * PAGE + PAGE
      BY <1>1, PageStep
    <2> DEFINE pages == PagesOf(i) * PAGE
               room == (FlashEnd - SlotBase) * PAGE
               more == (FlashEnd - SlotBase + 1) * PAGE
    <2>3. /\ pages \in Int /\ room \in Int /\ more \in Int /\ PAGE \in Nat
          /\ pages < SizeOf[i] + PAGE /\ SizeOf[i] <= room /\ more = room + PAGE
      BY <1>1, <2>1, <2>2, PagesFacts, FlashAssumption
    <2> HIDE DEF pages, room, more
    <2>4. pages < more
      BY <1>1, <2>3
    <2>5. PagesOf(i) < FlashEnd - SlotBase + 1
      BY <1>1, <2>4, PagesOrder DEF pages, more
    <2> QED
      BY <1>1, <1>2, <2>5 DEF StagingBase, Placed
  <1>3. CASE ~build
    BY <1>1, <1>3 DEF StagingBase, Placed, Fits
  <1> QED
    BY <1>2, <1>3

\* A session begins with an empty page buffer on the first page of its staging
\* area (esb_ota.c:408-526).
LEMMA BeginKeeps ==
  ASSUME StagingInv, NEW i \in Images, HandleBegin(i) \/ RefuseBegin(i) \/ FailBegin(i)
  PROVE  StagingInv'
  <1>1. /\ SlotBase \in Nat /\ SlotBase > 0 /\ FlashEnd \in Nat /\ SlotBase <= FlashEnd
        /\ TIMEOUT \in Nat /\ PAGE \in Nat /\ PAGE > 0 /\ PAYLOAD \in Nat
        /\ Builds \subseteq BOOLEAN
    BY FlashAssumption, ImagesAssumption
  <1>2. TypeOK /\ build \in BOOLEAN /\ <<>> \in Seq(Units)
    BY <1>1 DEF StagingInv, TypeOK
  <1>6. NoSession \in Contexts
    BY <1>1, <1>2 DEF NoSession, Contexts, States, Errors
  <1>3. CASE HandleBegin(i)
    <2>1. StagingBase(i) \in Nat /\ Placed(StagingBase(i), i) /\ Fits(i)
      <3>1. SizeOf[i] \in Nat /\ PagesOf(i) \in Int
        BY PagesFacts
      <3>2. Fits(i)
        BY <1>3 DEF HandleBegin, BeginAdmitted
      <3> QED
        BY <1>2, <3>1, <3>2, FitsPlaced
    <2> DEFINE b == StagingBase(i)
    <2>2. /\ ota' = [NoSession EXCEPT !.state = "READY", !.session = TRUE, !.image = i,
                                      !.base = b, !.page = b]
          /\ build' = build /\ abortReq' = abortReq /\ pending' = pending
          /\ physical' = physical /\ faults' = faults
          /\ flash' = IF build THEN SlotErased ELSE flash
      BY <1>3 DEF HandleBegin, Becomes
    <2> HIDE DEF b
    <2>3. ota' \in Contexts
      BY <1>6, <2>1, <2>2 DEF b, Contexts, States, Errors
    <2>4. /\ ota'.state = "READY" /\ ota'.session = TRUE /\ ota'.image = i /\ ota'.base = b
          /\ ota'.page = b /\ ota'.buf = <<>> /\ ota'.erased = 0 /\ ota'.written = 0
          /\ ota'.next = 0
      BY <2>2 DEF NoSession
    <2>5. TypeOK'
      <3>1. flash' \in [0 .. FlashEnd -> Seq(Units)]
        BY <1>2, <2>2, SlotErasedFacts DEF TypeOK
      <3> QED
        BY <1>2, <2>2, <2>3, <3>1 DEF TypeOK
    <2>6. Held(Writer, ota.base, 0)'
      <3>1. /\ Writer'.page = b /\ Writer'.buf = <<>> /\ Writer'.erased = 0
            /\ Writer'.flash = flash' /\ ota'.base = b
        BY <2>4 DEF Writer
      <3>2. (b - b) * PAGE + 0 = 0 /\ b \in Nat /\ b # 0 /\ b >= b /\ (build => b = SlotBase)
        BY <1>1, <2>1 DEF b, Placed, StagingBase
      <3>3. Gapless(Writer, ota.base, 0)'
        BY <3>1, <3>2 DEF Gapless, Numbered
      <3>4. Sound(Writer)'
        <4>1. build => \A p \in b .. FlashEnd - 1 : flash'[p] = <<>>
          BY <1>1, <1>2, <2>2, <3>2, SlotErasedFacts
        <4>2. 0 <= b /\ 0 # b
          BY <1>1, <3>2
        <4> QED
          BY <2>2, <3>1, <4>1, <4>2 DEF Sound
      <3> QED
        BY <1>1, <3>1, <3>2, <3>3, <3>4 DEF Held
    <2>7. Staged(ota, Writer)'
      <3>1. 0 < SizeOf[i] /\ SizeOf[i] \in Nat /\ Placed(b, i) /\ 0 = 0 * PAYLOAD
        BY <1>1, <2>1 DEF Placed, b
      <3>2. 0 # SizeOf[i] /\ 0 <= SizeOf[i]
        BY <3>1
      <3>3. Fits(ota.image)' /\ ota'.base = StagingBase(ota.image)'
        <4>1. build' = build /\ ota'.image = i /\ ota'.base = b /\ b = StagingBase(i)
          BY <2>2, <2>4 DEF b
        <4> QED
          BY <2>1, <4>1 DEF Fits, StagingBase
      <3>4. Placed(ota.base, ota.image)'
        <4>1. ota'.image = i /\ ota'.base = b
          BY <2>4
        <4> QED
          BY <3>1, <4>1 DEF Placed
      <3> QED
        BY <2>4, <2>6, <3>1, <3>2, <3>3, <3>4 DEF Staged
    <2> QED
      BY <2>4, <2>5, <2>7 DEF StagingInv, SessionInv, Judged
  <1>4. CASE RefuseBegin(i)
    <2>1. /\ ota' = [ota EXCEPT !.state = "ERROR", !.error = "REJECTED"]
          /\ UNCHANGED <<build, abortReq, pending, physical, flash, faults>>
      BY <1>4 DEF RefuseBegin, Becomes, InState
    <2>2. TypeOK' /\ ~InProgress'
      BY <1>2, <2>1 DEF TypeOK, Contexts, States, Errors, InProgress
    <2> QED
      BY <2>2, SessionOver
  <1>5. CASE FailBegin(i)
    <2>1. /\ ota' = [NoSession EXCEPT !.state = "ERROR", !.session = TRUE, !.image = i,
                                      !.error = "FLASH_ERROR"]
          /\ UNCHANGED <<build, abortReq, pending, physical>>
          /\ faults > 0 /\ faults' = faults - 1
          /\ flash' = flash \/ flash' = SlotErased
      BY <1>5 DEF FailBegin, Becomes
    <2>2. ota' \in Contexts /\ ota'.state = "ERROR"
      BY <1>6, <2>1 DEF Contexts, States, Errors
    <2>3. flash' \in [0 .. FlashEnd -> Seq(Units)]
      BY <1>2, <2>1, SlotErasedFacts DEF TypeOK
    <2>4. TypeOK' /\ ~InProgress'
      BY <1>2, <2>1, <2>2, <2>3 DEF TypeOK, InProgress
    <2> QED
      BY <2>4, SessionOver
  <1> QED
    BY <1>3, <1>4, <1>5

\* A DATA packet is refused, extends what is staged, or ends the session on a
\* page of its own (esb_ota.c:538-650).
LEMMA DataKeeps ==
  ASSUME StagingInv, NEW i \in Images, NEW seq \in Nat, NEW fails \in BOOLEAN,
         \/ RefuseData(i, seq) \/ HandleData(i, seq, fails)
         \/ FailFullPage(i, seq, fails) \/ FailLastPage(i, seq, fails)
  PROVE  StagingInv'
  <1>1. TypeOK /\ faults \in Nat /\ TIMEOUT \in Nat /\ 0 \in 0 .. TIMEOUT + 1
    BY FlashAssumption DEF StagingInv, TypeOK
  <1>2. ASSUME NEW w \in Writers, Around(ota.base, flash, w.flash), flash' = w.flash
        PROVE  flash' \in [0 .. FlashEnd -> Seq(Units)]
    BY <1>1, <1>2 DEF Writers, Around
  <1>3. ASSUME NEW w \in Writers, NEW c \in Contexts
        PROVE  /\ With(c, w) \in Contexts /\ With(c, w).state = c.state
               /\ With(c, w).session = c.session
               /\ With(c, w).image = c.image /\ With(c, w).base = c.base
               /\ With(c, w).buf = w.buf /\ With(c, w).page = w.page
               /\ With(c, w).erased = w.erased
    BY DEF Contexts, Writers, With
  <1>4. /\ Taking \in Contexts /\ Taking.state = "RECEIVING" /\ Taking.session = ota.session
        /\ Taking.image = ota.image /\ Taking.base = ota.base
    BY <1>1 DEF TypeOK, Taking, Contexts, States
  <1>5. /\ InState(Taking, "ERROR", "FLASH_ERROR") \in Contexts
        /\ InState(Taking, "ERROR", "FLASH_ERROR").state = "ERROR"
    BY <1>4 DEF InState, Contexts, States, Errors
  <1>6. ASSUME NEW c \in Contexts, NEW d \in Nat
        PROVE  LET t == [c EXCEPT !.written = ota.written + d, !.next = seq + 1]
               IN  /\ t \in Contexts /\ t.state = c.state /\ t.session = c.session
                   /\ t.image = c.image /\ t.base = c.base /\ t.buf = c.buf
                   /\ t.page = c.page /\ t.erased = c.erased
                   /\ t.written = ota.written + d /\ t.next = seq + 1
    <2>1. ota.written \in Nat
      BY <1>1 DEF TypeOK, Contexts
    <2> DEFINE n == ota.written + d
               m == seq + 1
    <2>2. n \in Nat /\ m \in Nat
      BY <2>1
    <2> HIDE DEF n, m
    <2>3. [c EXCEPT !.written = n, !.next = m] \in Contexts
      BY <2>2 DEF Contexts
    <2> QED
      BY <2>3 DEF Contexts, n, m
  <1>7. CASE RefuseData(i, seq)
    <2>1. /\ ota' = [ota EXCEPT !.state = "ERROR", !.error = "VERIFY_FAIL"]
          /\ UNCHANGED <<build, abortReq, pending, physical, flash, faults>>
      BY <1>7 DEF RefuseData, Becomes, InState
    <2>2. TypeOK' /\ ~InProgress'
      BY <1>1, <2>1 DEF TypeOK, Contexts, States, Errors, InProgress
    <2> QED
      BY <2>2, SessionOver
  <1>8. CASE HandleData(i, seq, fails)
    <2> DEFINE data == Data(i, seq)
               a == Appended(Writer, data, fails)
               w == IF Complete(data) /\ a.buf # <<>> THEN Flush(a, fails) ELSE a
               n == ota.written + Len(data)
               c == With(Taking, w)
    <2>1. Receiving /\ seq = ota.next
      BY <1>8 DEF HandleData, DataAccepted, Expected
    <2>2. /\ w \in Writers /\ Around(ota.base, flash, w.flash) /\ Len(data) \in Nat
          /\ n <= SizeOf[ota.image]
          /\ n < SizeOf[ota.image] => Held(w, ota.base, n) /\ n = (seq + 1) * PAYLOAD
          /\ n = SizeOf[ota.image] => Whole(w, ota.base, ota.image)
      BY <2>1, DataStaged
    <2>3. /\ flash' = w.flash /\ ota' = Taken(c, seq, data)
          /\ UNCHANGED <<build, abortReq, pending, physical>>
          /\ faults' = IF fails THEN faults - 1 ELSE faults
          /\ fails => faults > 0
      BY <1>8, Zenon DEF HandleData, Becomes
    <2>4. Staged(ota, Writer) /\ build \in BOOLEAN
      BY <2>1, RoomLeft
    <2> HIDE DEF w
    <2>5. /\ c \in Contexts /\ c.state = "RECEIVING" /\ c.session = ota.session
          /\ c.image = ota.image /\ c.base = ota.base
          /\ c.buf = w.buf /\ c.page = w.page /\ c.erased = w.erased
      BY <1>3, <1>4, <2>2
    <2> HIDE DEF c
    <2>6. /\ ota' \in Contexts /\ ota'.state = "RECEIVING" /\ ota'.session = ota.session
          /\ ota'.image = ota.image /\ ota'.base = ota.base /\ ota'.buf = w.buf
          /\ ota'.page = w.page /\ ota'.erased = w.erased
          /\ ota'.written = n /\ ota'.next = seq + 1
      BY <1>6, <2>2, <2>3, <2>5, Zenon DEF Taken
    <2>7. TypeOK'
      <3>1. faults' \in Nat
        BY <1>1, <2>3
      <3>2. flash' \in [0 .. FlashEnd -> Seq(Units)]
        BY <1>2, <2>2, <2>3
      <3> QED
        BY <1>1, <2>3, <2>6, <3>1, <3>2 DEF TypeOK
    <2>8. Writer' = w
      BY <2>2, <2>3, <2>6 DEF Writer, Writers
    <2> HIDE DEF n
    <2>9. Staged(ota, Writer)'
      <3>1. /\ ota'.session /\ ota'.image \in Images /\ Placed(ota.base, ota.image)'
            /\ ota'.written <= SizeOf[ota'.image]
            /\ Fits(ota.image)' /\ ota'.base = StagingBase(ota.image)'
        BY <2>2, <2>3, <2>4, <2>6, Zenon DEF Staged, Placed, Fits, StagingBase
      <3>2. ASSUME ota'.written < SizeOf[ota'.image]
            PROVE  Held(Writer, ota.base, ota.written)' /\ ota'.written = ota'.next * PAYLOAD
        <4>1. Held(w, ota.base, n) /\ n = (seq + 1) * PAYLOAD
          BY <2>2, <2>6, <3>2, Zenon
        <4> QED
          BY <2>3, <2>6, <2>8, <4>1, Zenon DEF Held, Gapless, Sound
      <3>3. ASSUME ota'.written = SizeOf[ota'.image]
            PROVE  Whole(Writer, ota.base, ota.image)'
        <4>1. Whole(w, ota.base, ota.image)
          BY <2>2, <2>6, <3>3, Zenon
        <4> QED
          BY <2>6, <2>8, <4>1, Zenon DEF Whole
      <3> QED
        BY <3>1, <3>2, <3>3, Zenon DEF Staged
    <2>10. Judged'
      BY <2>6 DEF Judged
    <2> QED
      BY <2>7, <2>9, <2>10, Zenon DEF StagingInv, SessionInv
  <1>9. CASE FailFullPage(i, seq, fails)
    <2> DEFINE full == Filled(Writer, Data(i, seq))
               w == FailedFlush(full, fails)
    <2>1. Receiving /\ seq = ota.next /\ Len(full.buf) = PAGE
      BY <1>9, Zenon DEF FailFullPage, DataAccepted, Expected
    <2>2. /\ flash' = w.flash /\ ota' = With(InState(Taking, "ERROR", "FLASH_ERROR"), w)
          /\ UNCHANGED <<build, abortReq, pending, physical>>
          /\ faults > 0 /\ faults' = faults - 1
      BY <1>9, Zenon DEF FailFullPage, Becomes
    <2>3. /\ full \in Writers /\ full.flash = flash
          /\ ota.base <= full.page /\ full.page < FlashEnd
      BY <2>1, FailingPageIsOwn
    <2> HIDE DEF full
    <2>4. w \in Writers /\ Around(ota.base, flash, w.flash)
      BY <2>1, <2>3, RoomLeft, FailedFlushFacts DEF Staged, Placed
    <2> HIDE DEF w
    <2>5. ota' \in Contexts /\ ota'.state = "ERROR"
      BY <1>3, <1>5, <2>2, <2>4
    <2>6. TypeOK' /\ ~InProgress'
      <3>1. flash' \in [0 .. FlashEnd -> Seq(Units)]
        BY <1>2, <2>2, <2>4
      <3> QED
        BY <1>1, <2>2, <2>5, <3>1 DEF TypeOK, InProgress
    <2> QED
      BY <2>6, SessionOver
  <1>10. CASE FailLastPage(i, seq, fails)
    <2> DEFINE data == Data(i, seq)
               a == Appended(Writer, data, FALSE)
               w == FailedFlush(a, fails)
               c == With(InState(Taking, "ERROR", "FLASH_ERROR"), w)
    <2>1. Receiving /\ seq = ota.next /\ Complete(data) /\ a.buf # <<>>
      BY <1>10, Zenon DEF FailLastPage, DataAccepted, Expected
    <2>2. /\ flash' = w.flash /\ ota' = Taken(c, seq, data)
          /\ UNCHANGED <<build, abortReq, pending, physical>>
          /\ faults > 0 /\ faults' = faults - 1
      BY <1>10, Zenon DEF FailLastPage, Becomes
    <2>3. /\ a \in Writers /\ Around(ota.base, flash, a.flash) /\ Len(data) \in Nat
          /\ ota.base <= a.page /\ a.page < FlashEnd
      <3>1. data \in Seq(Units)
        BY <2>1, FailingPageIsOwn
      <3>2. Len(data) \in Nat
        BY <3>1
      <3> QED
        BY <2>1, <3>2, FailingPageIsOwn
    <2> HIDE DEF a, data
    <2>4. w \in Writers /\ Around(ota.base, flash, w.flash)
      <3>1. w \in Writers /\ Around(ota.base, a.flash, w.flash)
        BY <2>1, <2>3, RoomLeft, FailedFlushFacts DEF Staged, Placed
      <3> QED
        BY <2>3, <3>1, Zenon DEF Around
    <2> HIDE DEF w
    <2>5. c \in Contexts /\ c.state = "ERROR"
      BY <1>3, <1>5, <2>4
    <2> HIDE DEF c
    <2>6. ota' \in Contexts /\ ota'.state = "ERROR"
      BY <1>6, <2>2, <2>3, <2>5, Zenon DEF Taken
    <2>7. TypeOK' /\ ~InProgress'
      <3>1. flash' \in [0 .. FlashEnd -> Seq(Units)]
        BY <1>2, <2>2, <2>4
      <3> QED
        BY <1>1, <2>2, <2>6, <3>1 DEF TypeOK, InProgress
    <2> QED
      BY <2>7, SessionOver
  <1> QED
    BY <1>7, <1>8, <1>9, <1>10

\* VERIFY and ACTIVATE change what is said of the image, not the image
\* (esb_ota.c:652-779).
LEMMA VerdictKeeps ==
  ASSUME StagingInv, VerifyStep \/ ActivateStep
  PROVE  StagingInv'
  <1>1. TypeOK /\ Judged /\ TIMEOUT \in Nat /\ 0 \in 0 .. TIMEOUT + 1
    BY FlashAssumption DEF StagingInv, TypeOK
  <1>2. ASSUME NEW s \in States, NEW e \in Errors, NEW k \in 0 .. TIMEOUT + 1
        PROVE  /\ [ota EXCEPT !.state = s, !.error = e, !.idle = k] \in Contexts
               /\ [ota EXCEPT !.state = s, !.error = e] \in Contexts
               /\ [ota EXCEPT !.error = e] \in Contexts
               /\ [ota EXCEPT !.state = s] \in Contexts
    BY <1>1 DEF TypeOK, Contexts
  <1>3. CASE HandleVerify
    <2>1. /\ Verifiable /\ UNCHANGED <<build, abortReq, pending, physical, flash, faults>>
          /\ ota' = IF CrcMatches
                    THEN [ota EXCEPT !.state = "VERIFYING", !.error = "VERIFY_OK", !.idle = 0]
                    ELSE [ota EXCEPT !.state = "ERROR", !.error = "VERIFY_FAIL"]
      BY <1>3 DEF HandleVerify, Becomes, InState
    <2>2. TypeOK'
      BY <1>1, <1>2, <2>1 DEF TypeOK, States, Errors
    <2>3. SameImage /\ InProgress
      BY <1>1, <2>1 DEF SameImage, TypeOK, Contexts, Verifiable, InProgress
    <2>4. CASE CrcMatches
      <3>1. ota.session /\ CrcMatches'
        BY <2>1, <2>3, <2>4 DEF Verifiable, CrcMatches, SameImage
      <3> QED
        BY <2>2, <2>3, <3>1, ImageKept DEF Judged, SameImage
    <2>5. CASE ~CrcMatches
      <3>1. ota'.state = "ERROR"
        BY <1>1, <2>1, <2>5 DEF TypeOK, Contexts
      <3> QED
        BY <2>2, <2>3, <3>1, ImageKept DEF Judged
    <2> QED
      BY <2>4, <2>5
  <1>4. CASE FailVerify \/ FailActivate
    <2>1. /\ ota' = [ota EXCEPT !.state = "ERROR", !.error = "FLASH_ERROR"]
          /\ UNCHANGED <<build, abortReq, pending, physical, flash>>
          /\ faults > 0 /\ faults' = faults - 1
      BY <1>4 DEF FailVerify, FailActivate, Becomes, InState
    <2>0. ota' \in Contexts
      BY <1>1, <1>2, <2>1 DEF States, Errors
    <2>2. ota' \in Contexts /\ ota'.state = "ERROR"
      BY <1>1, <2>0, <2>1 DEF TypeOK, Contexts
    <2>3. faults' \in Nat
      BY <1>1, <2>1 DEF TypeOK
    <2>4. TypeOK' /\ ~InProgress'
      BY <1>1, <2>1, <2>2, <2>3 DEF StagingInv, TypeOK, InProgress
    <2> QED
      BY <2>4, SessionOver
  <1>5. CASE RefuseVerify
    <2>1. /\ ota' = [ota EXCEPT !.error = "VERIFY_FAIL"]
          /\ UNCHANGED <<build, abortReq, pending, physical, flash, faults>>
      BY <1>5 DEF RefuseVerify, Becomes
    <2>0. ota' \in Contexts
      BY <1>1, <1>2, <2>1 DEF Errors, States
    <2>2. TypeOK' /\ SameImage /\ ota'.state = ota.state /\ ota'.error = "VERIFY_FAIL"
      BY <1>1, <2>0, <2>1 DEF TypeOK, Contexts, SameImage
    <2>3. Judged'
      BY <1>1, <2>2, VerdictKept
    <2> QED
      BY <2>2, <2>3, ImageKept DEF InProgress
  <1>6. CASE HandleActivate
    <2>1. /\ Activatable /\ ota' = [ota EXCEPT !.state = "COMPLETE"] /\ pending' = TRUE
          /\ UNCHANGED <<build, abortReq, physical, flash, faults>>
      BY <1>6 DEF HandleActivate
    <2>0. ota' \in Contexts
      BY <1>1, <1>2, <2>1 DEF States, Errors
    <2>2. TypeOK' /\ SameImage /\ InProgress
      BY <1>1, <2>0, <2>1 DEF TypeOK, Contexts, SameImage, Activatable, InProgress
    <2>3. ota.session /\ CrcMatches
      BY <1>1, <2>1 DEF Judged, Activatable
    <2>4. Judged'
      BY <2>2, <2>3 DEF Judged, CrcMatches, SameImage
    <2> QED
      BY <2>2, <2>4, ImageKept
  <1> QED
    BY <1>3, <1>4, <1>5, <1>6 DEF VerifyStep, ActivateStep

\* Aborts, recovery, the power owner and a reset write no flash.
LEMMA WorldKeeps ==
  ASSUME StagingInv, WorldStep
  PROVE  StagingInv'
  <1>1. TypeOK /\ Judged /\ TIMEOUT \in Nat /\ NoSession \in Contexts
    <2>1. TIMEOUT \in Nat /\ 0 \in 0 .. TIMEOUT + 1
      BY FlashAssumption
    <2> QED
      BY <2>1 DEF StagingInv, NoSession, Contexts, States, Errors
  <1>2. CASE ota' = NoSession
    <2>1. TypeOK'
      BY <1>1, <1>2 DEF WorldStep, RequestAbort, ServeAbort, Recover, Tick, Commit, Fail, Reset,
                        Becomes, StagingInv, TypeOK
    <2>2. ~InProgress'
      BY <1>2 DEF NoSession, InProgress
    <2> QED
      BY <2>1, <2>2, SessionOver
  <1>3. CASE ota' = ota
    <2>1. TypeOK' /\ SameImage
      BY <1>1, <1>3 DEF WorldStep, RequestAbort, ServeAbort, Recover, Tick, Commit, Fail, Reset,
                        Becomes, TypeOK, SameImage
    <2> QED
      BY <1>1, <1>3, <2>1, VerdictKept, ImageKept DEF InProgress
  <1>4. CASE Recover /\ ota' = InState(ota, "ERROR", "TIMEOUT")
    <2>1. ota' \in Contexts /\ ota'.state = "ERROR"
      BY <1>1, <1>4 DEF TypeOK, Contexts, InState, States, Errors
    <2>2. TypeOK' /\ ~InProgress'
      BY <1>1, <1>4, <2>1 DEF Recover, StagingInv, TypeOK, InProgress
    <2> QED
      BY <2>2, SessionOver
  <1>5. CASE Tick
    <2>1. /\ ota' = [ota EXCEPT !.idle = ota.idle + 1] /\ ota.idle <= TIMEOUT
          /\ UNCHANGED <<build, abortReq, pending, physical, flash, faults>>
      BY <1>5 DEF Tick, Becomes
    <2>2. ota.idle + 1 \in 0 .. TIMEOUT + 1
      BY <1>1, <2>1 DEF TypeOK, Contexts
    <2>3. ota' \in Contexts /\ ota'.state = ota.state /\ ota'.error = ota.error
      BY <1>1, <2>1, <2>2 DEF TypeOK, Contexts
    <2>4. TypeOK' /\ SameImage
      BY <1>1, <2>1, <2>3 DEF TypeOK, Contexts, SameImage
    <2> QED
      BY <1>1, <2>3, <2>4, VerdictKept, ImageKept DEF InProgress
  <1> QED
    BY <1>2, <1>3, <1>4, <1>5
    DEF WorldStep, RequestAbort, ServeAbort, Recover, Commit, Fail, Reset

-----------------------------------------------------------------------------
(* Results *)

\* The staged image is what the session counts, and only the staging area is
\* touched, in every reachable state (esb_ota.c:239-859, esb_ota_flash.c:73-174).
THEOREM StagingInvariant == Spec => []StagingInv
  <1>1. StagingInv /\ [Next]_vars => StagingInv'
    <2> SUFFICES ASSUME StagingInv, [Next]_vars PROVE StagingInv'
      OBVIOUS
    <2>1. CASE BeginStep
      BY <2>1, BeginKeeps DEF BeginStep
    <2>2. CASE DataStep
      <3>1. PICK i \in Images : \E seq \in PacketsOf(i) : \E fails \in BOOLEAN :
              \/ RefuseData(i, seq) \/ HandleData(i, seq, fails)
              \/ FailFullPage(i, seq, fails) \/ FailLastPage(i, seq, fails)
        BY <2>2 DEF DataStep
      <3>2. \A seq \in PacketsOf(i) : seq \in Nat
        BY DEF PacketsOf
      <3> QED
        BY <3>1, <3>2, DataKeeps, Zenon
    <2>3. CASE VerifyStep \/ ActivateStep
      BY <2>3, VerdictKeeps
    <2>4. CASE WorldStep
      BY <2>4, WorldKeeps
    <2>5. CASE UNCHANGED vars
      <3>1. TypeOK' /\ SameImage
        BY <2>5 DEF vars, StagingInv, TypeOK, SameImage
      <3> QED
        BY <2>5, <3>1, VerdictKept, ImageKept DEF vars, StagingInv, InProgress
    <2> QED
      BY <2>1, <2>2, <2>3, <2>4, <2>5 DEF Next
  <1> QED
    BY <1>1, StartsEmpty, PTL DEF Spec

\* The pages and the page buffer are one gapless sequence as long as
\* bytes_written (esb_ota.c:588-639).
THEOREM StagedPlaces == Spec => []StagedInPlace
  <1>1. StagingInv => StagedInPlace
    <2> SUFFICES ASSUME StagingInv, InProgress PROVE StagedInPlace
      BY DEF StagedInPlace
    <2> DEFINE b == ota.base
               S == SizeOf[ota.image]
    <2>1. /\ Staged(ota, Writer) /\ ota.written \in Nat /\ ota.page \in Nat
          /\ Writer.flash = flash /\ Writer.buf = ota.buf /\ Writer.page = ota.page
      BY DEF StagingInv, SessionInv, TypeOK, Contexts, Writer
    <2>2. S \in Nat /\ b \in Nat /\ ota.written <= S /\ Len(ota.buf) \in Nat
      BY <2>1 DEF Staged, Placed, StagingInv, TypeOK, Contexts
    <2>3. CASE ota.written < S
      <3>1. Held(Writer, b, ota.written) /\ ota.written # S
        BY <2>1, <2>2, <2>3 DEF Staged
      <3>2. /\ (ota.page - b) * PAGE + Len(ota.buf) = ota.written
            /\ \A p \in b .. ota.page - 1 :
                 Len(flash[p]) = PAGE /\ Numbered(flash[p], (p - b) * PAGE)
            /\ Numbered(ota.buf, (ota.page - b) * PAGE)
        BY <2>1, <3>1, Zenon DEF Held, Gapless
      <3>3. (ota.page - b) * PAGE <= S
        <4> DEFINE off == (ota.page - b) * PAGE
        <4>1. off \in Int /\ off + Len(ota.buf) = ota.written
          BY <2>1, <2>2, <3>2, FlashAssumption
        <4> HIDE DEF off, S
        <4>2. off <= S
          BY <2>1, <2>2, <4>1
        <4> QED
          BY <4>2 DEF off
      <3>4. \A p \in b .. ota.page - 1 : PAGE = Lesser(PAGE, S - (p - b) * PAGE)
        <4>1. S \in Int
          BY <2>2
        <4> QED
          BY <2>1, <2>2, <3>3, <4>1, FullPages, Zenon
      <3> QED
        BY <3>1, <3>2, <3>4, Zenon DEF StagedInPlace, Numbered, b, S
    <2>4. CASE ota.written = S
      <3>1. Whole(Writer, b, ota.image)
        BY <2>1, <2>4 DEF Staged
      <3>2. /\ ota.buf = <<>> /\ ota.page = b + PagesOf(ota.image)
            /\ \A p \in b .. ota.page - 1 :
                 /\ Len(flash[p]) = Lesser(PAGE, S - (p - b) * PAGE)
                 /\ Numbered(flash[p], (p - b) * PAGE)
        BY <2>1, <3>1, Zenon DEF Whole
      <3>3. \A k \in 1 .. Len(ota.buf) : ota.buf[k][2] = (ota.page - b) * PAGE + k
        BY <3>2
      <3> QED
        BY <2>4, <3>2, <3>3, Zenon DEF StagedInPlace, Numbered, b, S
    <2> QED
      BY <2>1, <2>2, <2>3, <2>4
  <1> QED
    BY <1>1, StagingInvariant, PTL

\* What ACTIVATE hands to the boot path is the whole image
\* (esb_ota.c:652-720).
THEOREM ActivatedWhole == Spec => []ActivatedIsWhole
  <1>1. StagingInv => ActivatedIsWhole
    BY DEF StagingInv, Judged, ActivatedIsWhole
  <1> QED
    BY <1>1, StagingInvariant, PTL

\* A step changes no page but those its session's image is staged in
\* (esb_ota.c:390-392, esb_ota_flash.c:73-174), and BEGIN has admitted the image.
OnlyStaged ==
  \A p \in DOMAIN flash :
    flash'[p] # flash[p] =>
      /\ ota'.image \in Images /\ p \in StagedPages(ota'.image) /\ Fits(ota'.image)

LEMMA BeginWithin ==
  ASSUME TypeOK, NEW i \in Images, HandleBegin(i) \/ RefuseBegin(i) \/ FailBegin(i)
  PROVE  OnlyStaged
  <1>1. DOMAIN flash = 0 .. FlashEnd
    BY DEF TypeOK
  <1>2. CASE flash' = flash
    BY <1>2 DEF OnlyStaged
  <1>3. CASE build /\ flash' = SlotErased /\ ota'.image = i /\ Fits(i)
    BY <1>1, <1>3, SlotErasedFacts DEF OnlyStaged, StagedPages, StagingBase, Around
  <1>4. HandleBegin(i) => ota'.image = i /\ Fits(i)
    BY DEF HandleBegin, BeginAdmitted, Becomes, NoSession
  <1>5. FailBegin(i) => ota'.image = i /\ Fits(i)
    BY DEF FailBegin, BeginAdmitted, Becomes, NoSession
  <1> QED
    BY <1>2, <1>3, <1>4, <1>5 DEF HandleBegin, RefuseBegin, FailBegin

LEMMA DataWithin ==
  ASSUME StagingInv, NEW i \in Images, NEW seq \in Nat, NEW fails \in BOOLEAN,
         \/ RefuseData(i, seq) \/ HandleData(i, seq, fails)
         \/ FailFullPage(i, seq, fails) \/ FailLastPage(i, seq, fails)
  PROVE  OnlyStaged
  <1>1. DOMAIN flash = 0 .. FlashEnd
    BY DEF StagingInv, TypeOK
  <1>2. ASSUME Receiving, Around(ota.base, flash, flash'), ota'.image = ota.image
        PROVE  OnlyStaged
    <2>1. Staged(ota, Writer)
      BY <1>2, RoomLeft
    <2> QED
      BY <1>1, <1>2, <2>1 DEF OnlyStaged, StagedPages, Around, Staged
  <1>3. Taking.image = ota.image /\ InState(Taking, "ERROR", "FLASH_ERROR").image = ota.image
    BY DEF InState, Taking, StagingInv, TypeOK, Contexts
  <1>4. \A w : /\ With(Taking, w).image = ota.image
               /\ With(InState(Taking, "ERROR", "FLASH_ERROR"), w).image = ota.image
    BY <1>3 DEF With, InState, Taking, StagingInv, TypeOK, Contexts
  <1>6. CASE RefuseData(i, seq)
    BY <1>6 DEF RefuseData, OnlyStaged
  <1>7. CASE HandleData(i, seq, fails)
    <2> DEFINE data == Data(i, seq)
               a == Appended(Writer, data, fails)
               w == IF Complete(data) /\ a.buf # <<>> THEN Flush(a, fails) ELSE a
    <2>1. Receiving /\ seq = ota.next
      BY <1>7 DEF HandleData, DataAccepted, Expected
    <2>2. Around(ota.base, flash, w.flash)
      BY <2>1, DataStaged
    <2>3. flash' = w.flash /\ ota' = Taken(With(Taking, w), seq, data)
      BY <1>7, Zenon DEF HandleData, Becomes
    <2> HIDE DEF w, data
    <2>4. ota'.image = ota.image
      BY <1>4, <2>3 DEF Taken, With, Taking, StagingInv, TypeOK, Contexts
    <2> QED
      BY <1>2, <2>1, <2>2, <2>3, <2>4
  <1>8. CASE FailFullPage(i, seq, fails)
    <2> DEFINE full == Filled(Writer, Data(i, seq))
               w == FailedFlush(full, fails)
    <2>1. Receiving /\ seq = ota.next /\ Len(full.buf) = PAGE
      BY <1>8, Zenon DEF FailFullPage, DataAccepted, Expected
    <2>2. flash' = w.flash /\ ota' = With(InState(Taking, "ERROR", "FLASH_ERROR"), w)
      BY <1>8, Zenon DEF FailFullPage, Becomes
    <2>3. full \in Writers /\ full.flash = flash /\ ota.base <= full.page /\ full.page < FlashEnd
      BY <2>1, FailingPageIsOwn
    <2> HIDE DEF full
    <2>4. Around(ota.base, flash, w.flash)
      BY <2>1, <2>3, RoomLeft, FailedFlushFacts DEF Staged, Placed
    <2> HIDE DEF w
    <2>5. ota'.image = ota.image
      BY <1>4, <2>2
    <2> QED
      BY <1>2, <2>1, <2>2, <2>4, <2>5
  <1>9. CASE FailLastPage(i, seq, fails)
    <2> DEFINE data == Data(i, seq)
               a == Appended(Writer, data, FALSE)
               w == FailedFlush(a, fails)
    <2>1. Receiving /\ seq = ota.next /\ Complete(data) /\ a.buf # <<>>
      BY <1>9, Zenon DEF FailLastPage, DataAccepted, Expected
    <2>2. /\ flash' = w.flash
          /\ ota' = Taken(With(InState(Taking, "ERROR", "FLASH_ERROR"), w), seq, data)
      BY <1>9, Zenon DEF FailLastPage, Becomes
    <2>3. /\ a \in Writers /\ Around(ota.base, flash, a.flash)
          /\ ota.base <= a.page /\ a.page < FlashEnd
      BY <2>1, FailingPageIsOwn
    <2> HIDE DEF a, data
    <2>4. Around(ota.base, a.flash, w.flash)
      BY <2>1, <2>3, RoomLeft, FailedFlushFacts DEF Staged, Placed
    <2> HIDE DEF w
    <2>5. ota'.image = ota.image
      BY <1>4, <2>2 DEF Taken, With, InState, Taking, StagingInv, TypeOK, Contexts
    <2>6. Around(ota.base, flash, flash')
      BY <2>2, <2>3, <2>4, Zenon DEF Around
    <2> QED
      BY <1>2, <2>1, <2>5, <2>6
  <1> QED
    BY <1>6, <1>7, <1>8, <1>9

\* Of all the steps only BEGIN and DATA write flash.
LEMMA StaysWithin ==
  ASSUME StagingInv, [Next]_vars
  PROVE  OnlyStaged
  <1>1. CASE BeginStep
    BY <1>1, BeginWithin DEF BeginStep, StagingInv
  <1>2. CASE DataStep
    <2>1. PICK i \in Images : \E seq \in PacketsOf(i) : \E fails \in BOOLEAN :
            \/ RefuseData(i, seq) \/ HandleData(i, seq, fails)
            \/ FailFullPage(i, seq, fails) \/ FailLastPage(i, seq, fails)
      BY <1>2 DEF DataStep
    <2>2. \A seq \in PacketsOf(i) : seq \in Nat
      BY DEF PacketsOf
    <2> QED
      BY <2>1, <2>2, DataWithin, Zenon
  <1>3. CASE VerifyStep \/ ActivateStep
    BY <1>3 DEF VerifyStep, ActivateStep, HandleVerify, FailVerify, RefuseVerify,
                HandleActivate, FailActivate, OnlyStaged
  <1>4. CASE WorldStep
    BY <1>4 DEF WorldStep, RequestAbort, ServeAbort, Recover, Tick, Becomes, Commit, Fail,
                Reset, OnlyStaged
  <1>5. CASE UNCHANGED vars
    BY <1>5 DEF vars, OnlyStaged
  <1> QED
    BY <1>1, <1>2, <1>3, <1>4, <1>5 DEF Next

\* Nothing below a session's staging area nor the settings above it is ever
\* erased or written by the update.
THEOREM StagingAlone == Spec => StagingOnly
  <1> DEFINE Stays == \A p \in DOMAIN flash :
               flash'[p] # flash[p] => ota'.image \in Images /\ p \in StagedPages(ota'.image)
  <1>1. StagingInv /\ [Next]_vars => [Stays]_vars
    BY StaysWithin DEF OnlyStaged
  <1> QED
    BY <1>1, StagingInvariant, PTL DEF Spec, StagingOnly

\* Which build runs never changes.
LEMMA BuildStays == ASSUME [Next]_vars PROVE build' = build
  <1>1. CASE BeginStep
    BY <1>1 DEF BeginStep, HandleBegin, RefuseBegin, FailBegin, Becomes
  <1>2. CASE DataStep
    <2>1. PICK i \in Images : \E seq \in PacketsOf(i) :
            \/ RefuseData(i, seq)
            \/ \E fails \in BOOLEAN : \/ HandleData(i, seq, fails)
                                      \/ FailFullPage(i, seq, fails)
                                      \/ FailLastPage(i, seq, fails)
      BY <1>2, Zenon DEF DataStep
    <2>2. ASSUME NEW seq, RefuseData(i, seq) PROVE build' = build
      BY <2>2 DEF RefuseData, Becomes
    <2>3. ASSUME NEW seq, NEW fails, HandleData(i, seq, fails) PROVE build' = build
      BY <2>3 DEF HandleData, Becomes
    <2>4. ASSUME NEW seq, NEW fails, FailFullPage(i, seq, fails) PROVE build' = build
      BY <2>4 DEF FailFullPage, Becomes
    <2>5. ASSUME NEW seq, NEW fails, FailLastPage(i, seq, fails) PROVE build' = build
      BY <2>5 DEF FailLastPage, Becomes
    <2> QED
      BY <2>1, <2>2, <2>3, <2>4, <2>5
  <1>3. CASE VerifyStep \/ ActivateStep
    BY <1>3 DEF VerifyStep, ActivateStep, HandleVerify, FailVerify, RefuseVerify,
                HandleActivate, FailActivate, Becomes
  <1>4. CASE WorldStep
    BY <1>4 DEF WorldStep, RequestAbort, ServeAbort, Recover, Tick, Becomes, Commit, Fail,
                Reset
  <1>5. CASE UNCHANGED vars
    BY <1>5 DEF vars
  <1> QED
    BY <1>1, <1>2, <1>3, <1>4, <1>5 DEF Next

\* Whatever the geometry, an MCUboot build never touches the firmware it runs
\* from, and a legacy build none of it below what BEGIN takes for its end.
THEOREM FirmwareIsSpared == Spec => []FirmwareSpared
  <1>1. Init => FirmwareSpared
    BY DEF Init, FirmwareSpared, Firmware
  <1>2. StagingInv /\ StagingInv' /\ FirmwareSpared /\ [Next]_vars => FirmwareSpared'
    <2> SUFFICES ASSUME StagingInv, StagingInv', FirmwareSpared, [Next]_vars,
                        NEW p \in Firmware \cap DOMAIN flash', flash'[p] # Foreign
                 PROVE  ~build' /\ p >= RunningEnd
      BY DEF FirmwareSpared, Firmware, RunningEnd
    <2>1. build' = build /\ build \in Builds /\ build \in BOOLEAN
      BY BuildStays, ImagesAssumption DEF StagingInv, TypeOK
    <2>2. DOMAIN flash' = DOMAIN flash
      BY DEF StagingInv, TypeOK
    <2>3. CASE flash'[p] = flash[p]
      BY <2>1, <2>2, <2>3 DEF FirmwareSpared
    <2>4. CASE flash'[p] # flash[p]
      <3>1. ota'.image \in Images /\ p \in StagedPages(ota'.image) /\ Fits(ota'.image)
        BY <2>2, <2>4, StaysWithin DEF OnlyStaged
      <3>2. StagingBase(ota'.image) \in Int /\ RunningEnd \in Int /\ p \in Int
        BY <3>1, PagesFacts, FlashAssumption DEF StagingBase, RunningEnd, StagedPages
      <3>3. p >= StagingBase(ota'.image) /\ p < FlashBase + FlashUsed
        BY <3>1, <3>2, FlashAssumption DEF StagedPages, Firmware
      <3>4. ~build
        <4>1. build => StagingBase(ota'.image) = SlotBase /\ FlashBase + FlashUsed <= SlotBase
          BY <2>1, SlotAssumption DEF StagingBase
        <4> QED
          BY <3>2, <3>3, <4>1, FlashAssumption
      <3>5. StagingBase(ota'.image) >= RunningEnd
        BY <3>1, <3>4 DEF Fits
      <3> QED
        BY <2>1, <3>2, <3>3, <3>4, <3>5
    <2> QED
      BY <2>3, <2>4
  <1> QED
    BY <1>1, <1>2, StagingInvariant, PTL DEF Spec

==============================================================================
