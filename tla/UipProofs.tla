------------------------------ MODULE UipProofs ------------------------------
(***************************************************************************)
(* What a datagram meets in firmware/uip besides TCP.  The ARP cache, for  *)
(* any number of entries, hosts and MAC addresses and any clock.  The      *)
(* checksum arithmetic, for bytes of any size and any number of words.     *)
(* The path of one datagram, for any senders, addresses and data that fit. *)
(***************************************************************************)
EXTENDS UipArp, UipInput, SequenceTheorems, WellFoundedInduction, TLAPS

-----------------------------------------------------------------------------
(* Induction                                                               *)

\* A set of naturals that is not empty has a least element, which Min picks.
LEMMA MinOfNaturals ==
    ASSUME NEW S \in SUBSET Nat, S # {}
    PROVE  Min(S) \in S /\ \A y \in S : Min(S) <= y
<1> DEFINE R == {ss \in Nat \X Nat : ss[1] < ss[2]}
<1>1. IsWellFoundedOn(R, Nat)
  BY NatLessThanWellFounded DEF OpToRel
<1>2. \E x \in S : \A y \in S : ~ (<<y, x>> \in R)
  BY <1>1, WFMin
<1>3. \E x \in S : \A y \in S : x <= y
  <2>1. PICK x \in S : \A y \in S : ~ (<<y, x>> \in R)
    BY <1>2
  <2>2. ASSUME NEW y \in S PROVE x <= y
    <3>1. x \in Nat /\ y \in Nat /\ ~ (<<y, x>> \in R)
      BY <2>1
    <3> QED
      BY <3>1
  <2> QED
    BY <2>2
<1> QED
  BY <1>3 DEF Min

\* A set of numbers that goes on from each number to the next has them all.
LEMMA Induction ==
    ASSUME NEW S, 0 \in S, \A n \in Nat : n \in S => n + 1 \in S
    PROVE  \A n \in Nat : n \in S
<1> DEFINE T == Nat \ S
<1>1. SUFFICES ASSUME T # {} PROVE FALSE
  OBVIOUS
<1>2. Min(T) \in T /\ \A m \in T : Min(T) <= m
  BY <1>1, MinOfNaturals
<1>3. PICK n \in T : \A m \in T : n <= m
  BY <1>2
<1>4. n # 0 /\ n - 1 \in Nat
  BY <1>3
<1>5. n - 1 \in S
  BY <1>3, <1>4
<1> QED
  BY <1>3, <1>4, <1>5

-----------------------------------------------------------------------------
(* The ARP cache                                                           *)

\* The clock's next value, without the remainder.
LEMMA NextTimeWraps ==
    ASSUME arptime \in 0..(TimeMod - 1)
    PROVE  NextTime = IF arptime + 1 = TimeMod THEN 0 ELSE arptime + 1
  BY UipArpAssumption DEF NextTime

\* What the timestamps and the clock say of the real age of an entry, and
\* whose MAC address it holds.
AgeInv == \A s \in Slot :
    sinceStamp[s] = TimeMod
        \/ arptime - arp_table[s].time \in {sinceStamp[s], sinceStamp[s] - TimeMod}
ClaimInv == \A s \in Slot :
    arp_table[s].ipaddr \in Ip => arp_table[s].ethaddr = claim[arp_table[s].ipaddr]

IInv == TypeOK /\ OneEntryPerHost /\ ClaimInv /\ AgeInv

\* The walk that looks for a host finds its entry, if there is one.
LEMMA FoundEntry ==
    ASSUME TypeOK, NEW a, Holds(a) # {}
    PROVE  Min(Holds(a)) \in Slot /\ arp_table[Min(Holds(a))].ipaddr = a
<1>1. Holds(a) \in SUBSET Nat
  BY UipArpAssumption DEF Holds, Slot
<1>2. Min(Holds(a)) \in Holds(a)
  BY <1>1, MinOfNaturals
<1> QED
  BY <1>2 DEF Holds

LEMMA Starts == Init => IInv
<1> SUFFICES ASSUME Init PROVE IInv
  OBVIOUS
<1>1. TypeOK
  BY UipArpAssumption DEF Init, TypeOK
<1>2. OneEntryPerHost /\ ClaimInv
  BY UipArpAssumption DEF Init, OneEntryPerHost, ClaimInv, Free
<1>3. AgeInv
  BY UipArpAssumption DEF Init, AgeInv
<1> QED
  BY <1>1, <1>2, <1>3 DEF IInv

-----------------------------------------------------------------------------

\* The timer frees entries and counts all of them older.
LEMMA TimerKeeps == IInv /\ uip_arp_timer => IInv'
<1> SUFFICES ASSUME IInv, uip_arp_timer PROVE IInv'
  OBVIOUS
<1> USE UipArpAssumption DEF IInv, TypeOK
<1>1. NextTime = IF arptime + 1 = TimeMod THEN 0 ELSE arptime + 1
  BY NextTimeWraps
<1>2. \A s \in Slot : /\ arp_table'[s].ipaddr \in {arp_table[s].ipaddr, Null}
                      /\ arp_table'[s].ethaddr = arp_table[s].ethaddr
                      /\ arp_table'[s].time = arp_table[s].time
  BY DEF uip_arp_timer
<1>3. TypeOK'
  <2>1. arp_table' \in [Slot -> [ipaddr : Ip \cup {Null}, ethaddr : Mac \cup {NoMac},
                                time : 0..(TimeMod - 1)]]
    BY DEF uip_arp_timer
  <2>2. arptime' \in 0..(TimeMod - 1)
    <3>1. arptime \in 0..(TimeMod - 1) /\ arptime' = NextTime
      BY DEF uip_arp_timer
    <3> HIDE DEF IInv, TypeOK
    <3> QED
      BY <1>1, <3>1
  <2>3. sinceStamp' \in [Slot -> 0..TimeMod]
    BY DEF uip_arp_timer
  <2> QED
    BY <2>1, <2>2, <2>3 DEF uip_arp_timer
<1>4. OneEntryPerHost'
  BY <1>2 DEF OneEntryPerHost, Free
<1>5. ClaimInv'
  BY <1>2 DEF ClaimInv, uip_arp_timer
<1>6. AgeInv'
  <2> SUFFICES ASSUME NEW s \in Slot
               PROVE  sinceStamp'[s] = TimeMod
                        \/ arptime' - arp_table'[s].time \in {sinceStamp'[s], sinceStamp'[s] - TimeMod}
    BY DEF AgeInv
  <2>1. sinceStamp'[s] = IF sinceStamp[s] < TimeMod THEN sinceStamp[s] + 1 ELSE sinceStamp[s]
    BY DEF uip_arp_timer
  <2>2. arptime' = IF arptime + 1 = TimeMod THEN 0 ELSE arptime + 1
    BY <1>1 DEF uip_arp_timer
  <2>3. sinceStamp[s] \in 0..TimeMod /\ arp_table[s].time \in 0..(TimeMod - 1)
    OBVIOUS
  <2>4. \/ sinceStamp[s] = TimeMod
        \/ arptime - arp_table[s].time \in {sinceStamp[s], sinceStamp[s] - TimeMod}
    BY DEF AgeInv
  <2>5. arptime \in 0..(TimeMod - 1) /\ arp_table'[s].time = arp_table[s].time
    BY <1>2
  <2> HIDE DEF IInv, TypeOK
  <2> QED
    BY <2>1, <2>2, <2>3, <2>4, <2>5
<1> QED
  BY <1>3, <1>4, <1>5, <1>6

\* An update writes the host's own entry if it has one; no other names the
\* host then.
LEMMA UpdateKeeps ==
    ASSUME NEW a \in Ip \cup {Null}, NEW m \in Mac, arptime' = arptime,
           IInv, uip_arp_update(a, m)
    PROVE  IInv'
<1> USE UipArpAssumption DEF IInv, TypeOK
<1> DEFINE v == Victim(a)
<1>1. arp_table' = [arp_table EXCEPT ![v] = [ipaddr |-> a, ethaddr |-> m, time |-> arptime]]
  BY DEF uip_arp_update, NewMac
<1>2. sinceStamp' = [sinceStamp EXCEPT ![v] = 0]
  BY DEF uip_arp_update
<1>3. claim' = IF a \in Ip THEN [claim EXCEPT ![a] = m] ELSE claim
  BY DEF uip_arp_update
<1>4. ASSUME a # Null, NEW s \in Slot, arp_table[s].ipaddr = a PROVE s = v
  <2>1. Holds(a) # {}
    BY <1>4 DEF Holds
  <2>2. v \in Slot /\ arp_table[v].ipaddr = a
    BY <1>4, <2>1, FoundEntry DEF Victim
  <2> QED
    BY <1>4, <2>2 DEF OneEntryPerHost, Free
<1> HIDE DEF v
<1>5. TypeOK'
  <2>1. arp_table' \in [Slot -> [ipaddr : Ip \cup {Null}, ethaddr : Mac \cup {NoMac},
                                time : 0..(TimeMod - 1)]]
    BY <1>1
  <2>2. sinceStamp' \in [Slot -> 0..TimeMod]
    <3>1. sinceStamp \in [Slot -> 0..TimeMod] /\ 0 \in 0..TimeMod
      OBVIOUS
    <3> HIDE DEF IInv, TypeOK
    <3> QED
      BY <1>2, <3>1
  <2>3. claim' \in [Ip -> Mac \cup {NoMac}]
    BY <1>3
  <2> QED
    BY <2>1, <2>2, <2>3
<1>6. \A s \in Slot : arp_table'[s] = IF s = v
         THEN [ipaddr |-> a, ethaddr |-> m, time |-> arptime] ELSE arp_table[s]
  BY <1>1
<1>7. OneEntryPerHost'
  BY <1>4, <1>6 DEF OneEntryPerHost, Free
<1>8. ClaimInv'
  BY <1>3, <1>4, <1>6 DEF ClaimInv
<1>9. AgeInv'
  BY <1>2, <1>6 DEF AgeInv
<1> QED
  BY <1>5, <1>7, <1>8, <1>9

\* Every step keeps the invariant.
LEMMA Keeps == IInv /\ [Next]_vars => IInv'
<1> SUFFICES ASSUME IInv, [Next]_vars PROVE IInv'
  OBVIOUS
<1>1. CASE uip_arp_timer
  BY <1>1, TimerKeeps
<1>2. ASSUME NEW opcode \in {"request", "reply"}, NEW a \in Ip \cup {Null}, NEW m \in Mac,
             uip_arp_arpin(opcode, a, m)
      PROVE IInv'
  BY <1>2, UpdateKeeps DEF uip_arp_arpin
<1>3. ASSUME UNCHANGED <<arp_table, arptime, claim, sinceStamp>> PROVE IInv'
  BY <1>3 DEF IInv, TypeOK, OneEntryPerHost, Free, ClaimInv, AgeInv
<1>4. CASE ArpIgnored
  BY <1>3, <1>4 DEF ArpIgnored
<1>5. ASSUME NEW dest \in Ip \cup {Broadcast}, uip_arp_out(dest) PROVE IInv'
  BY <1>3, <1>5 DEF uip_arp_out
<1>6. CASE UNCHANGED vars
  BY <1>3, <1>6 DEF vars
<1> QED
  BY <1>1, <1>2, <1>4, <1>5, <1>6 DEF Next

\* The inductive invariant holds in every reachable state.
THEOREM Inductive == Spec => []IInv
  BY Starts, Keeps, PTL DEF Spec

\* Every variable of the cache keeps its type (uip_arp.c:109-130).
THEOREM TypeCorrect == Spec => []TypeOK
<1>1. IInv => TypeOK
  BY DEF IInv
<1> QED
  BY <1>1, Inductive, PTL

\* No host ever has two entries (uip_arp.c:164-182).
THEOREM OneEntry == Spec => []OneEntryPerHost
<1>1. IInv => OneEntryPerHost
  BY DEF IInv
<1> QED
  BY <1>1, Inductive, PTL

-----------------------------------------------------------------------------

\* A frame for a host on our network carries the MAC address it claimed last
\* (uip_arp.c:376-412).
THEOREM LastClaim == Spec => []LastClaimWins
<1>1. Init => LastClaimWins
  BY DEF Init, LastClaimWins, Nothing
<1>2. IInv /\ LastClaimWins /\ [Next]_vars => LastClaimWins'
  <2> SUFFICES ASSUME IInv, LastClaimWins, [Next]_vars PROVE LastClaimWins'
    OBVIOUS
  <2>1. ASSUME NEW dest \in Ip \cup {Broadcast}, uip_arp_out(dest) PROVE LastClaimWins'
    <3> SUFFICES ASSUME sent'.kind = "IP", sent'.dest \in OnNet
                 PROVE  sent'.mac = claim'[sent'.dest]
      BY DEF LastClaimWins
    <3>1. CASE dest = Broadcast
      BY <2>1, <3>1, UipArpAssumption DEF uip_arp_out, Frame
    <3>2. CASE dest # Broadcast /\ Holds(NextHop(dest)) # {}
      <4> DEFINE s == Min(Holds(NextHop(dest)))
      <4>1. sent' = Frame(dest, arp_table[s].ethaddr)
        BY <2>1, <3>2 DEF uip_arp_out
      <4>2. dest \in OnNet /\ NextHop(dest) = dest
        BY <4>1 DEF Frame, NextHop
      <4>3. s \in Slot /\ arp_table[s].ipaddr = dest
        BY <3>2, <4>2, FoundEntry DEF IInv
      <4>4. arp_table[s].ethaddr = claim[dest]
        BY <4>2, <4>3, UipArpAssumption DEF IInv, ClaimInv
      <4> QED
        BY <2>1, <4>1, <4>4 DEF uip_arp_out, Frame
    <3>3. CASE dest # Broadcast /\ Holds(NextHop(dest)) = {}
      BY <2>1, <3>3 DEF uip_arp_out
    <3> QED
      BY <3>1, <3>2, <3>3
  <2>2. CASE uip_arp_timer \/ ArpIgnored
    BY <2>2 DEF uip_arp_timer, ArpIgnored, Nothing, LastClaimWins
  <2>3. ASSUME NEW opcode \in {"request", "reply"}, NEW a \in Ip \cup {Null}, NEW m \in Mac,
               uip_arp_arpin(opcode, a, m)
        PROVE LastClaimWins'
    BY <2>3 DEF uip_arp_arpin, Nothing, LastClaimWins
  <2>4. CASE UNCHANGED vars
    BY <2>4 DEF vars, LastClaimWins
  <2> QED
    BY <2>1, <2>2, <2>3, <2>4 DEF Next
<1> QED
  BY <1>1, <1>2, Inductive, PTL DEF Spec

\* A host is forgotten only when its last claim is MAXAGE timer calls old, or
\* a full table needs its entry (uip_arp.c:141-155, 189-211).
THEOREM FreshEntriesStay == Spec => FreshKept
<1>1. IInv /\ [Next]_vars =>
        [\A s \in Slot : ~Free(s) /\ arp_table'[s].ipaddr # arp_table[s].ipaddr
            => sinceStamp'[s] >= MAXAGE \/ Holds(Null) = {}]_vars
  <2> SUFFICES ASSUME IInv, Next, NEW s \in Slot, ~Free(s),
                      arp_table'[s].ipaddr # arp_table[s].ipaddr
               PROVE  sinceStamp'[s] >= MAXAGE \/ Holds(Null) = {}
    OBVIOUS
  <2> USE UipArpAssumption
  <2>1. CASE uip_arp_timer
    <3>1. Expired(NextTime, s)
      BY <2>1 DEF uip_arp_timer, IInv, TypeOK
    <3>2. NextTime = IF arptime + 1 = TimeMod THEN 0 ELSE arptime + 1
      BY NextTimeWraps DEF IInv, TypeOK
    <3>3. sinceStamp'[s] = IF sinceStamp[s] < TimeMod THEN sinceStamp[s] + 1 ELSE sinceStamp[s]
      BY <2>1 DEF uip_arp_timer
    <3>4. sinceStamp[s] \in 0..TimeMod /\ arp_table[s].time \in 0..(TimeMod - 1)
             /\ arptime \in 0..(TimeMod - 1)
      BY DEF IInv, TypeOK
    <3>5. \/ sinceStamp[s] = TimeMod
          \/ arptime - arp_table[s].time \in {sinceStamp[s], sinceStamp[s] - TimeMod}
      BY DEF IInv, AgeInv
    <3> QED
      BY <3>1, <3>2, <3>3, <3>4, <3>5 DEF Expired
  <2>2. ASSUME NEW opcode \in {"request", "reply"}, NEW a \in Ip \cup {Null}, NEW m \in Mac,
               uip_arp_arpin(opcode, a, m), Holds(Null) # {}
        PROVE FALSE
    <3>1. s = Victim(a)
      BY <2>2 DEF uip_arp_arpin, uip_arp_update, IInv, TypeOK
    <3>2. arp_table'[s].ipaddr = a
      BY <2>2, <3>1 DEF uip_arp_arpin, uip_arp_update, IInv, TypeOK
    <3>3. arp_table[s].ipaddr \in {a, Null}
      BY <2>2, <3>1, FoundEntry DEF Victim, IInv
    <3> QED
      BY <3>2, <3>3 DEF Free
  <2>3. CASE ArpIgnored
    BY <2>3 DEF ArpIgnored
  <2>4. ASSUME NEW dest \in Ip \cup {Broadcast}, uip_arp_out(dest) PROVE FALSE
    BY <2>4 DEF uip_arp_out
  <2> QED
    BY <2>1, <2>2, <2>3, <2>4 DEF Next
<1> QED
  BY <1>1, Inductive, PTL DEF Spec, FreshKept

-----------------------------------------------------------------------------
(* Bytes and words                                                         *)

LEMMA ByteWord ==
    /\ Byte \in Nat /\ Byte > 1 /\ Word \in Nat /\ Word = Byte * Byte /\ Word > Byte
    /\ Echo \in Nat /\ 1 <= Echo /\ Echo < Byte
<1>1. Byte \in Nat /\ Byte > 1 /\ Echo \in Nat /\ 1 <= Echo /\ Echo < Byte
  BY ChecksumAssumption
<1>2. Byte * Byte > Byte /\ Byte * Byte \in Nat
  BY <1>1
<1> QED
  BY <1>1, <1>2 DEF Word

\* A product with a whole number that is not zero is no less than the factor.
LEMMA Multiple ==
    ASSUME NEW b \in Nat \ {0}, NEW k \in Int
    PROVE  /\ k >= 1 => b * k >= b
           /\ k <= -1 => b * k <= -b
  OBVIOUS

\* A number is divided in one way.
LEMMA Division ==
    ASSUME NEW b \in Nat \ {0}, NEW h \in Int, NEW l \in 0..(b - 1)
    PROVE  (h * b + l) % b = l /\ (h * b + l) \div b = h
<1> DEFINE n == h * b + l
           d == n \div b
           m == n % b
<1>1. n \in Int /\ d \in Int /\ m \in 0..(b - 1) /\ n = b * d + m
  OBVIOUS
<1>2. b * (h - d) = m - l
  BY <1>1
<1>3. h - d \in Int /\ ~(h - d >= 1) /\ ~(h - d <= -1)
  <2>1. h - d \in Int
    BY <1>1
  <2>2. m - l < b /\ m - l > -b
    BY <1>1
  <2> HIDE DEF n, d, m
  <2> QED
    BY <1>2, <2>1, <2>2, Multiple
<1>4. h = d
  BY <1>1, <1>3
<1> QED
  BY <1>1, <1>2, <1>4

\* A number below twice the modulus wraps at most once.
LEMMA WrapsOnce ==
    ASSUME NEW b \in Nat \ {0}, NEW n \in 0..(2 * b - 1)
    PROVE  (n >= b => n % b = n - b) /\ (n < b => n % b = n)
<1>1. CASE n >= b
  BY <1>1
<1>2. CASE n < b
  BY <1>2
<1> QED
  BY <1>1, <1>2

\* Two bytes make a word, and a word is made of two bytes.
LEMMA Join ==
    ASSUME NEW h \in Bytes, NEW l \in Bytes
    PROVE  /\ h * Byte + l \in Words /\ (h * Byte + l) % Byte = l /\ (h * Byte + l) \div Byte = h
           /\ Swap(h * Byte + l) = l * Byte + h
<1>1. h \in Int /\ l \in 0..(Byte - 1) /\ Byte \in Nat \ {0}
  BY ByteWord DEF Bytes
<1>2. (h * Byte + l) % Byte = l /\ (h * Byte + l) \div Byte = h
  BY <1>1, Division
<1>3. h * Byte + l \in Words
  <2>1. (Byte - 1 - h) * Byte >= 0 /\ h * Byte >= 0
    BY <1>1, ByteWord DEF Bytes
  <2>2. (Byte - 1 - h) * Byte = Byte * Byte - Byte - h * Byte
    BY <1>1
  <2> QED
    BY <1>1, <2>1, <2>2, ByteWord DEF Words
<1> QED
  BY <1>2, <1>3 DEF Swap

LEMMA Split ==
    ASSUME NEW w \in Words
    PROVE  \E h, l \in Bytes : w = h * Byte + l
<1> DEFINE h == w \div Byte
           l == w % Byte
<1>1. Byte \in Nat \ {0} /\ w \in Nat /\ w < Byte * Byte
  BY ByteWord DEF Words
<1>2. h \in Int /\ l \in 0..(Byte - 1) /\ w = Byte * h + l
  BY <1>1
<1> HIDE DEF h, l
<1>3. h >= 0
  <2>1. h <= -1 => Byte * h <= -Byte
    BY <1>1, <1>2, Multiple
  <2> QED
    BY <1>1, <1>2, <2>1
<1>4. h < Byte
  <2>1. h - Byte >= 0 => Byte * (h - Byte) >= 0
    BY <1>1, <1>2
  <2>2. Byte * (h - Byte) = Byte * h - Byte * Byte
    BY <1>1, <1>2
  <2> QED
    BY <1>1, <1>2, <2>1, <2>2
<1>5. h \in Bytes /\ l \in Bytes
  BY <1>1, <1>2, <1>3, <1>4 DEF Bytes
<1>6. w = h * Byte + l
  BY <1>1, <1>2
<1> QED
  BY <1>5, <1>6

-----------------------------------------------------------------------------

\* The ones' complement addition of chksum: a word again, and the sum but for
\* the carry that is put back in (uip.c:505-549).
THEOREM CarryComesBack ==
    ASSUME NEW s \in Words, NEW t \in Words
    PROVE  /\ AddCarry(s, t) \in Words
           /\ AddCarry(s, t) \in {s + t, s + t - (Word - 1)}
           /\ AddCarry(s, t) = 0 => s = 0 /\ t = 0
<1>1. Word \in Nat \ {0} /\ s \in 0..(Word - 1) /\ t \in 0..(Word - 1)
  BY ByteWord DEF Words
<1>2. /\ s + t >= Word => (s + t) % Word = s + t - Word
      /\ s + t < Word => (s + t) % Word = s + t
  <2>1. s + t \in 0..(2 * Word - 1)
    BY <1>1
  <2>2. \A n \in 0..(2 * Word - 1) : (n >= Word => n % Word = n - Word) /\ (n < Word => n % Word = n)
    BY <1>1, WrapsOnce, Zenon
  <2>3. PICK n \in 0..(2 * Word - 1) : n = s + t
    BY <2>1
  <2>4. (n >= Word => n % Word = n - Word) /\ (n < Word => n % Word = n)
    BY <2>2
  <2> QED
    BY <1>1, <2>3, <2>4
<1> DEFINE r == (s + t) % Word
<1>3. AddCarry(s, t) = IF r < t THEN r + 1 ELSE r
  BY DEF AddCarry
<1>4. /\ s + t >= Word => r = s + t - Word
      /\ s + t < Word => r = s + t
  BY <1>2
<1> HIDE DEF r
<1> QED
  BY <1>1, <1>3, <1>4 DEF Words

\* The checksum of a ping reply is the ping's plus what the type fell by, with
\* the carry put back in, although it is computed on swapped bytes
\* (uip.c:1012-1018).
THEOREM EchoReplyAdjusts ==
    ASSUME NEW c \in Words
    PROVE  /\ EchoReplySum(c) \in Words
           /\ EchoReplySum(c) \in {c + Echo * Byte, c + Echo * Byte - (Word - 1)}
<1>1. PICK h \in Bytes, l \in Bytes : c = h * Byte + l
  BY Split
<1>2. h \in 0..(Byte - 1) /\ l \in 0..(Byte - 1) /\ Byte \in Nat \ {0}
  BY ByteWord DEF Bytes
<1>3. Swap(c) = l * Byte + h
  BY <1>1, Join
<1>4. Swap(Echo * Byte) = Echo
  <2>1. Echo \in Bytes /\ 0 \in Bytes
    BY ByteWord DEF Bytes
  <2>2. Swap(Echo * Byte + 0) = 0 * Byte + Echo
    BY <2>1, Join
  <2> QED
    BY <2>2, ByteWord
<1>5. Swap(Complement(Echo * Byte)) = (Byte - 1) * Byte + (Byte - 1 - Echo)
  <2>1. Byte - 1 - Echo \in Bytes /\ Byte - 1 \in Bytes
    BY ByteWord DEF Bytes
  <2>2. Complement(Echo * Byte) = (Byte - 1 - Echo) * Byte + (Byte - 1)
    BY ByteWord DEF Complement
  <2> QED
    BY <2>1, <2>2, Join
<1> DEFINE r == l * Byte + h
           over == r >= (Byte - 1) * Byte + (Byte - 1 - Echo)
<1>6. EchoReplySum(c) = Swap(IF over THEN (r + Echo + 1) % Word ELSE (r + Echo) % Word)
  BY <1>3, <1>4, <1>5 DEF EchoReplySum
<1>7. r \in Words /\ r \in Nat /\ r < Word
  BY Join, ByteWord DEF Words
<1>8. over <=> l = Byte - 1 /\ h + Echo + 1 >= Byte
  <2>1. l < Byte - 1 => (Byte - 1 - l) * Byte >= Byte
    BY <1>2
  <2>2. (Byte - 1 - l) * Byte = (Byte - 1) * Byte - l * Byte
    BY <1>2
  <2> QED
    BY <1>2, <2>1, <2>2, ByteWord
<1> HIDE DEF over
<1>9. CASE over
  <2>1. r = Byte * Byte - Byte + h
    BY <1>2, <1>8, <1>9
  <2>2. (r + Echo + 1) % Word = h + Echo + 1 - Byte
    <3>1. r + Echo + 1 \in 0..(2 * Word - 1) /\ r + Echo + 1 >= Word
      BY <1>2, <1>8, <1>9, <2>1, ByteWord
    <3>2. Word \in Nat \ {0}
      BY ByteWord
    <3>4. \A n \in 0..(2 * Word - 1) : (n >= Word => n % Word = n - Word) /\ (n < Word => n % Word = n)
      BY <3>2, WrapsOnce, Zenon
    <3>3. r + Echo + 1 >= Word => (r + Echo + 1) % Word = r + Echo + 1 - Word
      <4> HIDE DEF r
      <4>1. PICK n \in 0..(2 * Word - 1) : n = r + Echo + 1
        BY <3>1
      <4>2. (n >= Word => n % Word = n - Word) /\ (n < Word => n % Word = n)
        BY <3>4
      <4> QED
        BY <1>7, <3>2, <4>1, <4>2, ByteWord
    <3> QED
      BY <2>1, <3>1, <3>3, ByteWord, <1>2
  <2>3. h + Echo + 1 - Byte \in Bytes /\ 0 \in Bytes
    BY <1>2, <1>8, <1>9, ByteWord DEF Bytes
  <2>4. Swap(0 * Byte + (h + Echo + 1 - Byte)) = (h + Echo + 1 - Byte) * Byte + 0
        /\ (h + Echo + 1 - Byte) * Byte + 0 \in Words
    BY <2>3, Join
  <2>5. EchoReplySum(c) = (h + Echo + 1 - Byte) * Byte
    BY <1>2, <1>6, <1>9, <2>2, <2>3, <2>4, ByteWord
  <2>6. (h + Echo + 1 - Byte) * Byte = h * Byte + Echo * Byte + Byte - Byte * Byte
    BY <1>2, ByteWord
  <2> QED
    BY <1>1, <1>2, <1>8, <1>9, <2>4, <2>5, <2>6, ByteWord
<1>10. CASE ~over /\ h + Echo < Byte
  <2>1. h + Echo \in Bytes
    BY <1>2, <1>10, ByteWord DEF Bytes
  <2>2. r + Echo = l * Byte + (h + Echo)
    BY <1>2, ByteWord
  <2>3. (r + Echo) % Word = r + Echo /\ Swap(r + Echo) = (h + Echo) * Byte + l
        /\ (h + Echo) * Byte + l \in Words
    <3>1. r + Echo \in Words
      BY <2>1, <2>2, Join
    <3>2. (r + Echo) % Word = r + Echo
      <4> HIDE DEF r
      <4> QED
        BY <3>1, ByteWord DEF Words
    <3> QED
      BY <2>1, <2>2, <3>2, Join
  <2>4. (h + Echo) * Byte = h * Byte + Echo * Byte
    BY <1>2, ByteWord
  <2> QED
    BY <1>1, <1>6, <1>10, <2>3, <2>4, <1>2, ByteWord
<1>11. CASE ~over /\ h + Echo >= Byte
  <2>1. l + 1 \in Bytes /\ h + Echo - Byte \in Bytes
    BY <1>2, <1>8, <1>11, ByteWord DEF Bytes
  <2>2. r + Echo = (l + 1) * Byte + (h + Echo - Byte)
    BY <1>2, ByteWord
  <2>3. (r + Echo) % Word = r + Echo /\ Swap(r + Echo) = (h + Echo - Byte) * Byte + (l + 1)
        /\ (h + Echo - Byte) * Byte + (l + 1) \in Words
    <3>1. r + Echo \in Words
      BY <2>1, <2>2, Join
    <3>2. (r + Echo) % Word = r + Echo
      <4> HIDE DEF r
      <4> QED
        BY <3>1, ByteWord DEF Words
    <3> QED
      BY <2>1, <2>2, <3>2, Join
  <2>4. (h + Echo - Byte) * Byte = h * Byte + Echo * Byte - Byte * Byte
    BY <1>2, ByteWord
  <2> QED
    BY <1>1, <1>6, <1>11, <2>3, <2>4, <1>2, ByteWord
<1> QED
  BY <1>2, <1>9, <1>10, <1>11, ByteWord

-----------------------------------------------------------------------------
(* Sums of words.  FoldLeft takes the last element of what is left of the  *)
(* sequence; these lemmas turn it into a run along the sequence.           *)

LEMMA MaxOfInterval ==
    ASSUME NEW n \in Nat, NEW s \in SUBSET (1..n), s # {}
    PROVE  Max(s) \in s /\ (n \in s => Max(s) = n)
<1> DEFINE T == {n - x : x \in s}
<1>1. T \in SUBSET Nat /\ T # {}
  <2>1. \A x \in s : n - x \in Nat
    OBVIOUS
  <2> QED
    BY <2>1
<1>2. Min(T) \in T /\ \A y \in T : Min(T) <= y
  BY <1>1, MinOfNaturals
<1>3. PICK x \in s : \A y \in s : n - x <= n - y
  <2>1. PICK x \in s : Min(T) = n - x
    BY <1>2
  <2>2. \A y \in s : n - y \in T
    OBVIOUS
  <2> QED
    BY <1>2, <2>1, <2>2
<1>4. \A y \in s : x >= y
  BY <1>3
<1>5. PICK m \in s : m = Max(s) /\ \A y \in s : m >= y
  BY <1>4 DEF Max
<1>6. m \in Nat /\ m <= n /\ (n \in s => m >= n)
  BY <1>5
<1> QED
  BY <1>5, <1>6

\* f is the fold of N steps from the base, for every subset of the steps; step
\* i takes v to o[i][v].
Folds(f, N, base, o) ==
    /\ f \in [SUBSET (1..N) -> Int]
    /\ \A s \in SUBSET (1..N) :
           f[s] = IF s = {} THEN base ELSE o[Max(s)][f[s \ {Max(s)}]]
\* h has what the steps in their order come to, k runs through it.
Unfolds(h, N, base, o) ==
    /\ h[{}] = base
    /\ \A n \in 1..N : h[1..(n - 1)] \in Int => h[1..n] = o[n][h[1..(n - 1)]]
Running(k, N, base, o, last) ==
    /\ k \in [0..N -> Int] /\ k[0] = base /\ k[N] = last
    /\ \A n \in 1..N : k[n] = o[n][k[n - 1]]

\* A fold over a sequence exists.
LEMMA Iterated ==
    ASSUME NEW N \in Nat, NEW base \in Int, NEW o \in [1..N -> [Int -> Int]]
    PROVE  \E f : Folds(f, N, base, o)
<1> DEFINE Is(f, m) == Folds(f, m, base, o)
           S == {m \in Nat : m <= N => \E f : Is(f, m)}
<1>1. 0 \in S
  <2>1. Is([s \in SUBSET (1..0) |-> base], 0)
    BY DEF Folds
  <2> QED
    BY <2>1
<1>2. ASSUME NEW m \in Nat, m \in S PROVE m + 1 \in S
  <2>1. SUFFICES ASSUME m + 1 <= N PROVE \E f : Is(f, m + 1)
    <3> HIDE DEF Is
    <3> QED
      OBVIOUS
  <2>2. PICK f : Is(f, m)
    <3> HIDE DEF Is
    <3> QED
      BY <1>2, <2>1
  <2> DEFINE n == m + 1
             g == [s \in SUBSET (1..n) |-> IF n \in s THEN o[n][f[s \ {n}]] ELSE f[s]]
  <2>3. ASSUME NEW s \in SUBSET (1..n)
        PROVE  /\ n \in s => s \ {n} \in SUBSET (1..m) /\ g[s] = o[n][f[s \ {n}]]
               /\ n \notin s => s \in SUBSET (1..m) /\ g[s] = f[s]
               /\ g[s] \in Int
    <3>1. n \in s => s \ {n} \in SUBSET (1..m)
      BY <2>1
    <3>2. n \notin s => s \in SUBSET (1..m)
      BY <2>1
    <3>3. n \in 1..N
      BY <2>1
    <3> QED
      BY <2>2, <3>1, <3>2, <3>3 DEF Folds
  <2>4. ASSUME NEW s \in SUBSET (1..n)
        PROVE  g[s] = IF s = {} THEN base ELSE o[Max(s)][g[s \ {Max(s)}]]
    <3>1. CASE n \in s
      <4>1. Max(s) = n /\ s # {}
        <5>1. n \in Nat /\ s # {}
          BY <3>1
        <5> HIDE DEF n
        <5> QED
          BY <3>1, <5>1, MaxOfInterval
      <4>2. s \ {n} \in SUBSET (1..n) /\ n \notin s \ {n}
        OBVIOUS
      <4>3. g[s \ {n}] = f[s \ {n}]
        BY <2>3, <4>2
      <4> HIDE DEF g, n
      <4> QED
        BY <2>3, <3>1, <4>1, <4>3
    <3>2. CASE n \notin s
      <4>1. /\ s \ {Max(s)} \in SUBSET (1..n) /\ n \notin s \ {Max(s)}
        BY <3>2
      <4>2. g[s] = f[s] /\ g[s \ {Max(s)}] = f[s \ {Max(s)}] /\ s \in SUBSET (1..m)
        BY <2>3, <3>2, <4>1
      <4> HIDE DEF g, n
      <4> QED
        BY <2>2, <4>2 DEF Folds
    <3> QED
      BY <3>1, <3>2
  <2>5. g \in [SUBSET (1..n) -> Int]
    <3>1. g = [s \in SUBSET (1..n) |-> g[s]]
      OBVIOUS
    <3> HIDE DEF g, n
    <3> QED
      BY <2>3, <3>1
  <2>6. Is(g, n)
    <3> HIDE DEF g, n
    <3> QED
      BY <2>4, <2>5 DEF Folds
  <2> HIDE DEF g, Is
  <2> QED
    BY <2>6
<1>3. N \in S
  <2> HIDE DEF S
  <2> QED
    BY <1>1, <1>2, Induction
<1>4. \E f : Is(f, N)
  <2> HIDE DEF Is
  <2> QED
    BY <1>3
<1> QED
  BY <1>4

\* The same for a function that is only known to satisfy the equation: along
\* the sequence it runs from the base to the fold.
LEMMA Runs ==
    ASSUME NEW N \in Nat, NEW base \in Int, NEW o \in [1..N -> [Int -> Int]], NEW h,
           Unfolds(h, N, base, o)
    PROVE  \E k : Running(k, N, base, o, h[1..N])
<1> DEFINE S == {n \in Nat : n <= N => h[1..n] \in Int}
<1>1. 0 \in S
  <2>1. 1..0 = {}
    OBVIOUS
  <2> QED
    BY <2>1 DEF Unfolds
<1>2. ASSUME NEW n \in Nat, n \in S PROVE n + 1 \in S
  <2>1. SUFFICES ASSUME n + 1 <= N PROVE h[1..(n + 1)] \in Int
    OBVIOUS
  <2>2. n + 1 \in 1..N /\ (n + 1) - 1 = n /\ h[1..n] \in Int
    BY <1>2, <2>1
  <2>3. h[1..(n + 1)] = o[n + 1][h[1..n]]
    BY <2>2 DEF Unfolds
  <2> QED
    BY <2>2, <2>3
<1>3. \A n \in Nat : n \in S
  <2> HIDE DEF S
  <2> QED
    BY <1>1, <1>2, Induction
<1> DEFINE k == [n \in 0..N |-> h[1..n]]
<1>4. k \in [0..N -> Int]
  BY <1>3
<1>5. k[0] = base /\ k[N] = h[1..N]
  <2>1. 1..0 = {}
    OBVIOUS
  <2> QED
    BY <2>1 DEF Unfolds
<1>6. ASSUME NEW n \in 1..N PROVE k[n] = o[n][k[n - 1]]
  <2>1. n \in 0..N /\ n - 1 \in 0..N /\ n - 1 \in Nat
    OBVIOUS
  <2>2. k[n] = h[1..n] /\ k[n - 1] = h[1..(n - 1)] /\ n - 1 \in S
    BY <1>3, <2>1
  <2>3. h[1..(n - 1)] \in Int
    BY <2>1, <2>2
  <2> QED
    BY <2>2, <2>3 DEF Unfolds
<1>7. Running(k, N, base, o, h[1..N])
  <2> HIDE DEF k
  <2> QED
    BY <1>4, <1>5, <1>6 DEF Running
<1> QED
  BY <1>7

\* The interval without its end.
LEMMA Interval ==
    ASSUME NEW N \in Nat, NEW n \in 1..N
    PROVE  /\ 1..n \in SUBSET (1..N) /\ 1..n # {} /\ Max(1..n) = n
           /\ (1..n) \ {n} = 1..(n - 1) /\ {} \in SUBSET (1..N)
<1>1. 1..n \in SUBSET (1..n) /\ 1..n # {} /\ n \in 1..n /\ n \in Nat
  OBVIOUS
<1>2. Max(1..n) = n
  BY <1>1, MaxOfInterval, Zenon
<1> QED
  BY <1>2

\* The checksum of a sequence is the result of adding its words one by one.
LEMMA SumWordsRuns ==
    ASSUME NEW sum \in Int, NEW w \in Seq(Int)
    PROVE  \E k \in [0..Len(w) -> Int] :
              /\ k[0] = sum /\ k[Len(w)] = SumWords(sum, w)
              /\ \A n \in 1..Len(w) : k[n] = AddCarry(k[n - 1], w[n])
<1> DEFINE N == Len(w)
           o == [i \in 1..N |-> [v \in Int |-> AddCarry(v, w[i])]]
           Is(f) == f = [s \in SUBSET (1..N) |->
                            IF s = {} THEN sum ELSE AddCarry(f[s \ {Max(s)}], w[Max(s)])]
           h == CHOOSE f : Is(f)
<1>1. N \in Nat /\ DOMAIN w = 1..N /\ \A i \in 1..N : w[i] \in Int
  OBVIOUS
<1>2. \A i \in 1..N : \A v \in Int : AddCarry(v, w[i]) \in Int
  BY <1>1, ByteWord DEF AddCarry
<1>3. o \in [1..N -> [Int -> Int]] /\ \A i \in 1..N : \A v \in Int : o[i][v] = AddCarry(v, w[i])
  BY <1>2
<1> HIDE DEF N, o
<1>4. PICK f : Folds(f, N, sum, o)
  BY <1>1, <1>2, <1>3, Iterated, Zenon
<1>5. ASSUME NEW s \in SUBSET (1..N)
      PROVE  f[s] = IF s = {} THEN sum ELSE AddCarry(f[s \ {Max(s)}], w[Max(s)])
  <2>1. s # {} => Max(s) \in 1..N
    BY <1>1, MaxOfInterval
  <2>2. f[s \ {Max(s)}] \in Int
    BY <1>4 DEF Folds
  <2> QED
    BY <1>3, <1>4, <2>1, <2>2 DEF Folds
<1>6. Is(f)
  <2>1. f = [s \in SUBSET (1..N) |-> f[s]]
    BY <1>4 DEF Folds
  <2> QED
    BY <1>5, <2>1
<1>7. Is(h)
  <2> HIDE DEF Is
  <2> QED
    BY <1>6
<1>8. SumWords(sum, w) = h[1..N]
  BY <1>1 DEF SumWords, FoldLeft, MapThenFoldSet, N
<1> HIDE DEF h
<1>9. h[{}] = sum
  BY <1>7
<1>10. ASSUME NEW n \in 1..N, h[1..(n - 1)] \in Int PROVE h[1..n] = o[n][h[1..(n - 1)]]
  <2>1. /\ 1..n \in SUBSET (1..N) /\ 1..n # {} /\ Max(1..n) = n
        /\ (1..n) \ {n} = 1..(n - 1)
    BY <1>1, Interval, Zenon
  <2>2. h[1..n] = AddCarry(h[1..(n - 1)], w[n])
    BY <1>7, <2>1
  <2> QED
    BY <1>3, <1>10, <2>2
<1>11. PICK k : Running(k, N, sum, o, h[1..N])
  <2>1. Unfolds(h, N, sum, o)
    BY <1>9, <1>10 DEF Unfolds
  <2> QED
    BY <1>1, <1>2, <1>3, <2>1, Runs, Zenon
<1>12. ASSUME NEW n \in 1..N PROVE k[n] = AddCarry(k[n - 1], w[n])
  <2>1. n - 1 \in 0..N
    BY <1>1
  <2> QED
    BY <1>3, <1>11, <2>1 DEF Running
<1> QED
  BY <1>8, <1>11, <1>12 DEF N, Running

\* So is the plain sum.
LEMMA TotalRuns ==
    ASSUME NEW w \in Seq(Int)
    PROVE  \E k \in [0..Len(w) -> Int] :
              /\ k[0] = 0 /\ k[Len(w)] = Total(w)
              /\ \A n \in 1..Len(w) : k[n] = k[n - 1] + w[n]
<1> DEFINE N == Len(w)
           o == [i \in 1..N |-> [v \in Int |-> v + w[i]]]
           Is(f) == f = [s \in SUBSET (1..N) |->
                            IF s = {} THEN 0 ELSE f[s \ {Max(s)}] + w[Max(s)]]
           h == CHOOSE f : Is(f)
<1>1. N \in Nat /\ DOMAIN w = 1..N /\ \A i \in 1..N : w[i] \in Int
  OBVIOUS
<1>3. o \in [1..N -> [Int -> Int]] /\ \A i \in 1..N : \A v \in Int : o[i][v] = v + w[i]
  BY <1>1
<1>2. 0 \in Int
  OBVIOUS
<1> HIDE DEF N, o
<1>4. PICK f : Folds(f, N, 0, o)
  BY <1>1, <1>2, <1>3, Iterated, Zenon
<1>5. ASSUME NEW s \in SUBSET (1..N)
      PROVE  f[s] = IF s = {} THEN 0 ELSE f[s \ {Max(s)}] + w[Max(s)]
  <2>1. s # {} => Max(s) \in 1..N
    BY <1>1, MaxOfInterval
  <2>2. f[s \ {Max(s)}] \in Int
    BY <1>4 DEF Folds
  <2> QED
    BY <1>3, <1>4, <2>1, <2>2 DEF Folds
<1>6. Is(f)
  <2>1. f = [s \in SUBSET (1..N) |-> f[s]]
    BY <1>4 DEF Folds
  <2> QED
    BY <1>5, <2>1
<1>7. Is(h)
  <2> HIDE DEF Is
  <2> QED
    BY <1>6
<1>8. Total(w) = h[1..N]
  BY <1>1 DEF Total, FoldLeft, MapThenFoldSet, N
<1> HIDE DEF h
<1>9. h[{}] = 0
  BY <1>7
<1>10. ASSUME NEW n \in 1..N, h[1..(n - 1)] \in Int PROVE h[1..n] = o[n][h[1..(n - 1)]]
  <2>1. /\ 1..n \in SUBSET (1..N) /\ 1..n # {} /\ Max(1..n) = n
        /\ (1..n) \ {n} = 1..(n - 1)
    BY <1>1, Interval, Zenon
  <2>2. h[1..n] = h[1..(n - 1)] + w[n]
    BY <1>7, <2>1
  <2> QED
    BY <1>3, <1>10, <2>2
<1>11. PICK k : Running(k, N, 0, o, h[1..N])
  <2>1. Unfolds(h, N, 0, o)
    BY <1>9, <1>10 DEF Unfolds
  <2> QED
    BY <1>1, <1>2, <1>3, <2>1, Runs, Zenon
<1>12. ASSUME NEW n \in 1..N PROVE k[n] = k[n - 1] + w[n]
  <2>1. n - 1 \in 0..N
    BY <1>1
  <2> QED
    BY <1>3, <1>11, <2>1 DEF Running
<1> QED
  BY <1>8, <1>11, <1>12 DEF N, Running

-----------------------------------------------------------------------------
(* Equal but for multiples of Word - 1, which is all a receiver looks at.  *)

Same(a, b) == \E q \in Int : a - b = q * (Word - 1)

LEMMA SameSelf ==
    ASSUME NEW a \in Int
    PROVE  Same(a, a)
<1>1. a - a = 0 * (Word - 1)
  BY ByteWord
<1> QED
  BY <1>1 DEF Same

LEMMA SameBack ==
    ASSUME NEW a \in Int, NEW b \in Int, Same(a, b)
    PROVE  Same(b, a)
<1>1. PICK q \in Int : a - b = q * (Word - 1)
  BY DEF Same
<1>2. b - a = (-q) * (Word - 1) /\ -q \in Int
  BY <1>1, ByteWord
<1> QED
  BY <1>2 DEF Same

LEMMA SameAdds ==
    ASSUME NEW a \in Int, NEW b \in Int, NEW c \in Int, NEW d \in Int,
           Same(a, b), Same(c, d)
    PROVE  Same(a + c, b + d)
<1>1. PICK q \in Int : a - b = q * (Word - 1)
  BY DEF Same
<1>2. PICK r \in Int : c - d = r * (Word - 1)
  BY DEF Same
<1>3. (a + c) - (b + d) = (q + r) * (Word - 1) /\ q + r \in Int
  BY <1>1, <1>2, ByteWord
<1> QED
  BY <1>3 DEF Same

LEMMA SameTransitive ==
    ASSUME NEW a \in Int, NEW b \in Int, NEW c \in Int, Same(a, b), Same(b, c)
    PROVE  Same(a, c)
<1>1. PICK q \in Int : a - b = q * (Word - 1)
  BY DEF Same
<1>2. PICK r \in Int : b - c = r * (Word - 1)
  BY DEF Same
<1>3. a - c = (q + r) * (Word - 1) /\ q + r \in Int
  BY <1>1, <1>2, ByteWord
<1> QED
  BY <1>3 DEF Same

\* A carry that is put back in changes nothing.
LEMMA SameCarry ==
    ASSUME NEW a \in Int, NEW b \in Int, a \in {b, b - (Word - 1)}
    PROVE  Same(a, b)
<1>1. CASE a = b
  BY <1>1, SameSelf
<1>2. CASE a = b - (Word - 1)
  <2>1. a - b = (-1) * (Word - 1)
    BY <1>2, ByteWord
  <2> QED
    BY <2>1 DEF Same
<1> QED
  BY <1>1, <1>2

\* Numbers closer than Word - 1 are told apart.
LEMMA SameNear ==
    ASSUME NEW a \in Int, NEW b \in Int, Same(a, b),
           a - b < Word - 1, b - a < Word - 1
    PROVE  a = b
<1>1. PICK q \in Int : a - b = q * (Word - 1)
  BY DEF Same
<1>2. Word - 1 \in Nat \ {0}
  BY ByteWord
<1>3. /\ q >= 1 => (Word - 1) * q >= Word - 1
      /\ q <= -1 => (Word - 1) * q <= -(Word - 1)
  BY <1>2, Multiple
<1>4. (Word - 1) * q = a - b
  BY <1>1, <1>2
<1>5. q = 0
  BY <1>2, <1>3, <1>4
<1> QED
  BY <1>2, <1>4, <1>5

\* What the remainder says.
LEMMA SameRemainder ==
    ASSUME NEW n \in Int
    PROVE  /\ n % (Word - 1) = 0 <=> Same(n, 0)
           /\ n % (Word - 1) \in 0..(Word - 2) /\ Same(n % (Word - 1), n)
<1> DEFINE m == Word - 1
<1>1. m \in Nat \ {0}
  BY ByteWord
<1>2. n % m \in 0..(m - 1) /\ n \div m \in Int /\ n = m * (n \div m) + (n % m)
  <2> HIDE DEF m
  <2> QED
    BY <1>1
<1>3. Same(n % m, n)
  <2>1. (n % m) - n = (-(n \div m)) * m /\ -(n \div m) \in Int
    <3> DEFINE x == n \div m
               y == n % m
    <3> HIDE DEF m, x, y
    <3>1. x \in Int /\ y \in Int /\ n = m * x + y
      BY <1>1, <1>2 DEF x, y
    <3>2. y - n = (-x) * m /\ -x \in Int
      BY <3>1, <1>1
    <3> QED
      BY <3>2 DEF x, y
  <2> QED
    BY <2>1 DEF Same
<1>4. n % m = 0 => Same(n, 0)
  <2>1. 0 \in Int
    OBVIOUS
  <2> QED
    BY <1>3, <2>1, SameBack
<1>5. Same(n, 0) => n % m = 0
  <2>1. ASSUME Same(n, 0) PROVE n % m = 0
    <3> DEFINE y == n % m
    <3>1. y \in Int /\ 0 <= y /\ y < m /\ Same(y, n)
      BY <1>1, <1>2, <1>3
    <3> HIDE DEF y
    <3>2. Same(y, 0)
      BY <2>1, <3>1, SameTransitive
    <3>3. y = 0
      BY <1>1, <3>1, <3>2, SameNear
    <3> QED
      BY <3>3 DEF y
  <2> QED
    BY <2>1
<1> QED
  <2>1. m - 1 = Word - 2 /\ n % m \in 0..(m - 1)
    BY <1>2, ByteWord
  <2> QED
    BY <2>1, <1>3, <1>4, <1>5

\* A sum as the code computes it verifies exactly when the total does, but for
\* the total zero.
LEMMA NeverZeroVerifies ==
    ASSUME NEW s \in Words, NEW n \in Int, Same(s, n)
    PROVE  /\ NeverZero(s) = Word - 1 <=> Same(n, 0)
           /\ NeverZero(s) \in 1..(Word - 1) /\ Same(NeverZero(s), n)
<1>1. s \in Int /\ 0 <= s /\ s <= Word - 1 /\ Word - 1 \in Int /\ Word - 1 > 0
  BY ByteWord DEF Words
<1>2. Same(0, Word - 1) /\ Same(Word - 1, 0)
  <2>1. 0 - (Word - 1) = (-1) * (Word - 1)
    BY <1>1
  <2>2. Same(0, Word - 1)
    BY <2>1 DEF Same
  <2> QED
    BY <1>1, <2>2, SameBack
<1>3. Same(NeverZero(s), n) /\ NeverZero(s) \in 1..(Word - 1)
  <2>1. CASE s = 0
    <3>1. Same(Word - 1, n)
      BY <1>1, <1>2, <2>1, SameTransitive
    <3> QED
      BY <1>1, <2>1, <3>1 DEF NeverZero
  <2>2. CASE s # 0
    BY <1>1, <2>2 DEF NeverZero
  <2> QED
    BY <2>1, <2>2
<1>4. ASSUME NeverZero(s) = Word - 1 PROVE Same(n, 0)
  <2>1. Same(n, Word - 1)
    BY <1>1, <1>3, <1>4, SameBack
  <2> QED
    BY <1>1, <1>2, <2>1, SameTransitive
<1>5. ASSUME Same(n, 0) PROVE NeverZero(s) = Word - 1
  <2>1. Same(s, 0)
    BY <1>1, <1>5, SameTransitive
  <2>2. Same(s, Word - 1)
    BY <1>1, <1>2, <2>1, SameTransitive
  <2>3. s # 0 => s = Word - 1
    BY <1>1, <2>2, SameNear
  <2> QED
    BY <2>3 DEF NeverZero
<1> QED
  BY <1>3, <1>4, <1>5

-----------------------------------------------------------------------------

\* What the code sums up is the total of the words, but for multiples of
\* Word - 1 (uip.c:505-549).
THEOREM SumIsTotal ==
    ASSUME NEW s \in Words, NEW w \in Seq(Words)
    PROVE  SumWords(s, w) \in Words /\ Total(w) \in Nat /\ Same(SumWords(s, w), s + Total(w))
<1> DEFINE N == Len(w)
<1>1. N \in Nat /\ s \in Int /\ w \in Seq(Int) /\ \A i \in 1..N : w[i] \in Words
  <2>1. \A x \in Words : x \in Int
    BY ByteWord DEF Words
  <2> QED
    BY <2>1
<1>2. PICK k \in [0..N -> Int] :
           /\ k[0] = s /\ k[N] = SumWords(s, w)
           /\ \A n \in 1..N : k[n] = AddCarry(k[n - 1], w[n])
  BY <1>1, SumWordsRuns, Zenon
<1>3. PICK t \in [0..N -> Int] :
           /\ t[0] = 0 /\ t[N] = Total(w)
           /\ \A n \in 1..N : t[n] = t[n - 1] + w[n]
  BY <1>1, TotalRuns, Zenon
<1> DEFINE S == {n \in Nat : n <= N => k[n] \in Words /\ t[n] \in Nat /\ Same(k[n], s + t[n])}
<1> HIDE DEF N
<1>4. 0 \in S
  <2>1. Same(s, s)
    BY <1>1, SameSelf
  <2> QED
    BY <1>1, <1>2, <1>3, <2>1
<1>5. ASSUME NEW n \in Nat, n \in S PROVE n + 1 \in S
  <2>1. SUFFICES ASSUME n + 1 <= N
                 PROVE  k[n + 1] \in Words /\ t[n + 1] \in Nat /\ Same(k[n + 1], s + t[n + 1])
    OBVIOUS
  <2>2. n + 1 \in 1..N /\ (n + 1) - 1 = n /\ n <= N
    BY <1>1, <2>1
  <2>3. PICK m \in 1..N : m = n + 1 /\ m - 1 = n
    BY <2>2
  <2>4. k[m] = AddCarry(k[n], w[m]) /\ t[m] = t[n] + w[m] /\ w[m] \in Words
    BY <1>1, <1>2, <1>3, <2>3
  <2>5. k[n] \in Words /\ t[n] \in Nat /\ Same(k[n], s + t[n])
    BY <1>5, <2>2
  <2> DEFINE kn == k[n]
             tn == t[n]
             wm == w[m]
  <2> HIDE DEF kn, tn, wm
  <2>6. kn \in Words /\ wm \in Words /\ kn \in Int /\ wm \in Int /\ wm >= 0 /\ tn \in Nat /\ Same(kn, s + tn)
    BY <2>4, <2>5, ByteWord DEF Words, kn, wm, tn
  <2>7. /\ AddCarry(kn, wm) \in Words /\ AddCarry(kn, wm) \in Int /\ kn + wm \in Int
        /\ AddCarry(kn, wm) \in {kn + wm, kn + wm - (Word - 1)}
    <3>1. AddCarry(kn, wm) \in Words /\ AddCarry(kn, wm) \in {kn + wm, kn + wm - (Word - 1)}
      BY <2>6, CarryComesBack, Zenon
    <3> QED
      BY <2>6, <3>1, ByteWord DEF Words
  <2>8. Same(AddCarry(kn, wm), kn + wm)
    <3>1. PICK x \in Int, y \in Int : x = AddCarry(kn, wm) /\ y = kn + wm
      BY <2>7
    <3>2. x \in {y, y - (Word - 1)}
      BY <2>6, <2>7, <3>1, ByteWord
    <3>3. Same(x, y)
      BY <3>2, SameCarry
    <3> QED
      BY <3>1, <3>3
  <2>9. Same(kn + wm, (s + tn) + wm)
    BY <1>1, <2>6, SameAdds, SameSelf
  <2>10. Same(AddCarry(kn, wm), s + (tn + wm))
    <3>1. s + tn \in Int /\ kn + wm \in Int /\ (s + tn) + wm \in Int /\ (s + tn) + wm = s + (tn + wm)
      BY <1>1, <2>6
    <3> QED
      BY <2>7, <2>8, <2>9, <3>1, SameTransitive
  <2> QED
    BY <2>3, <2>4, <2>6, <2>7, <2>10 DEF kn, tn, wm
<1>6. N \in S
  <2> HIDE DEF S
  <2> QED
    BY <1>1, <1>4, <1>5, Induction
<1> QED
  BY <1>2, <1>3, <1>6

\* A total is no less than any of its words.
LEMMA TotalCovers ==
    ASSUME NEW w \in Seq(Words), NEW i \in 1..Len(w)
    PROVE  w[i] <= Total(w)
<1> DEFINE N == Len(w)
<1>1. N \in Nat /\ w \in Seq(Int) /\ \A j \in 1..N : w[j] \in Nat
  <2>1. \A x \in Words : x \in Int /\ x \in Nat
    BY ByteWord DEF Words
  <2> QED
    BY <2>1
<1>2. PICK t \in [0..N -> Int] :
           /\ t[0] = 0 /\ t[N] = Total(w)
           /\ \A n \in 1..N : t[n] = t[n - 1] + w[n]
  BY <1>1, TotalRuns, Zenon
<1> DEFINE S == {n \in Nat : n <= N => t[n] \in Nat /\ (n >= i => w[i] <= t[n])}
<1>3. i \in 1..N
  OBVIOUS
<1> HIDE DEF N
<1>4. 0 \in S
  BY <1>1, <1>2, <1>3
<1>5. ASSUME NEW n \in Nat, n \in S PROVE n + 1 \in S
  <2>1. SUFFICES ASSUME n + 1 <= N PROVE t[n + 1] \in Nat /\ (n + 1 >= i => w[i] <= t[n + 1])
    OBVIOUS
  <2>2. PICK m \in 1..N : m = n + 1 /\ m - 1 = n
    BY <1>1, <2>1
  <2>3. t[m] = t[n] + w[m] /\ w[m] \in Nat
    BY <1>1, <1>2, <2>2
  <2>4. t[n] \in Nat /\ (n >= i => w[i] <= t[n])
    BY <1>1, <1>5, <2>2
  <2>5. m >= i => n >= i \/ m = i
    BY <1>1, <1>3, <2>2
  <2>6. t[m] \in Nat /\ (n >= i => w[i] <= t[m]) /\ (m = i => w[i] <= t[m])
    <3>1. w[i] \in Nat
      BY <1>1, <1>3
    <3>2. n >= i => w[i] <= t[m]
      BY <1>3, <2>3, <2>4, <3>1
    <3>3. m = i => w[i] <= t[m]
      BY <2>3, <2>4
    <3> QED
      BY <2>3, <2>4, <3>2, <3>3
  <2> QED
    BY <2>2, <2>5, <2>6
<1>6. N \in S
  <2> HIDE DEF S
  <2> QED
    BY <1>1, <1>4, <1>5, Induction
<1> QED
  BY <1>1, <1>2, <1>3, <1>6

\* A difference may be added before or after a third number.
LEMMA SwappedTerms ==
  ASSUME NEW p \in Int, NEW q \in Int, NEW x \in Int, NEW y \in Int
  PROVE  p + (x - y) + q = p + q + (x - y)
OBVIOUS

\* Totals of sequences that differ in one place differ by as much.
LEMMA TotalChange ==
    ASSUME NEW w \in Seq(Int), NEW v \in Seq(Int), Len(v) = Len(w), NEW i \in 1..Len(w),
           \A j \in 1..Len(w) : j # i => v[j] = w[j]
    PROVE  Total(v) = Total(w) + (v[i] - w[i]) /\ Total(w) \in Int
<1> DEFINE N == Len(w)
<1>1. N \in Nat /\ \A j \in 1..N : w[j] \in Int /\ v[j] \in Int
  OBVIOUS
<1>2. PICK t \in [0..N -> Int] :
           /\ t[0] = 0 /\ t[N] = Total(w)
           /\ \A n \in 1..N : t[n] = t[n - 1] + w[n]
  BY TotalRuns, Zenon
<1>3. PICK u \in [0..N -> Int] :
           /\ u[0] = 0 /\ u[N] = Total(v)
           /\ \A n \in 1..N : u[n] = u[n - 1] + v[n]
  <2>1. \E u \in [0..Len(v) -> Int] :
           /\ u[0] = 0 /\ u[Len(v)] = Total(v)
           /\ \A n \in 1..Len(v) : u[n] = u[n - 1] + v[n]
    BY TotalRuns, Zenon
  <2> QED
    BY <2>1
<1> DEFINE S == {n \in Nat : n <= N => /\ n < i => u[n] = t[n]
                                       /\ n >= i => u[n] = t[n] + (v[i] - w[i])}
<1>4. i \in 1..N /\ \A j \in 1..N : j # i => v[j] = w[j]
  OBVIOUS
<1> HIDE DEF N
<1>5. 0 \in S
  BY <1>1, <1>2, <1>3, <1>4
<1>6. ASSUME NEW n \in Nat, n \in S PROVE n + 1 \in S
  <2>1. SUFFICES ASSUME n + 1 <= N
                 PROVE  /\ n + 1 < i => u[n + 1] = t[n + 1]
                        /\ n + 1 >= i => u[n + 1] = t[n + 1] + (v[i] - w[i])
    OBVIOUS
  <2>2. PICK m \in 1..N : m = n + 1 /\ m - 1 = n
    BY <1>1, <2>1
  <2>3. /\ t[m] = t[n] + w[m] /\ u[m] = u[n] + v[m] /\ w[m] \in Int /\ v[m] \in Int
        /\ t[n] \in Int /\ u[n] \in Int /\ w[i] \in Int /\ v[i] \in Int
    <3>1. n \in 0..N
      BY <1>1, <2>1
    <3> QED
      BY <1>1, <1>2, <1>3, <1>4, <2>2, <3>1
  <2>4. (n < i => u[n] = t[n]) /\ (n >= i => u[n] = t[n] + (v[i] - w[i]))
    BY <1>1, <1>6, <2>2
  <2>5. m # i => v[m] = w[m]
    BY <1>4
  <2>6. CASE m < i
    BY <1>1, <1>4, <2>2, <2>3, <2>4, <2>5, <2>6
  <2>7. CASE m = i
    <3>1. u[m] = t[m] + (v[m] - w[m])
      BY <1>4, <2>2, <2>3, <2>4, <2>7
    <3> QED
      BY <2>2, <2>7, <3>1
  <2>8. CASE m > i
    <3>1. n >= i /\ v[m] = w[m] /\ u[n] = t[n] + (v[i] - w[i])
      <4>1. n >= i
        BY <1>4, <2>2, <2>8
      <4>2. m \in 1..N /\ m # i
        BY <1>4, <2>2, <2>8
      <4> QED
        BY <2>4, <2>5, <4>1, <4>2
    <3>2. u[m] = t[m] + (v[i] - w[i])
      <4>1. u[m] = t[n] + (v[i] - w[i]) + w[m]
        BY <2>3, <3>1, Zenon
      <4>2. t[n] + (v[i] - w[i]) + w[m] = t[n] + w[m] + (v[i] - w[i])
        <5>1. t[n] \in Int /\ w[m] \in Int /\ w[i] \in Int /\ v[i] \in Int
          BY <2>3
        <5> QED
          BY <5>1, SwappedTerms
      <4> QED
        BY <2>3, <4>1, <4>2, Zenon
    <3> QED
      BY <2>2, <2>8, <3>2
  <2> QED
    BY <1>1, <1>4, <2>6, <2>7, <2>8
<1>7. N \in S
  <2> HIDE DEF S
  <2> QED
    BY <1>1, <1>5, <1>6, Induction
<1> QED
  BY <1>1, <1>2, <1>3, <1>4, <1>7

LEMMA TotalOfTwo ==
    ASSUME NEW w \in Seq(Int), Len(w) = 2
    PROVE  Total(w) = w[1] + w[2]
<1>1. PICK t \in [0..Len(w) -> Int] :
           /\ t[0] = 0 /\ t[Len(w)] = Total(w)
           /\ \A n \in 1..Len(w) : t[n] = t[n - 1] + w[n]
  BY TotalRuns, Zenon
<1>2. t[1] = t[0] + w[1] /\ t[2] = t[1] + w[2]
  BY <1>1
<1> QED
  BY <1>1, <1>2

LEMMA TotalOfSix ==
    ASSUME NEW w \in Seq(Int), Len(w) = 6
    PROVE  Total(w) = w[1] + w[2] + w[3] + w[4] + w[5] + w[6]
<1>1. PICK t \in [0..Len(w) -> Int] :
           /\ t[0] = 0 /\ t[Len(w)] = Total(w)
           /\ \A n \in 1..Len(w) : t[n] = t[n - 1] + w[n]
  BY TotalRuns, Zenon
<1>2. /\ t[1] = t[0] + w[1] /\ t[2] = t[1] + w[2] /\ t[3] = t[2] + w[3]
      /\ t[4] = t[3] + w[4] /\ t[5] = t[4] + w[5] /\ t[6] = t[5] + w[6]
  BY <1>1
<1>3. /\ w[1] \in Int /\ w[2] \in Int /\ w[3] \in Int
      /\ w[4] \in Int /\ w[5] \in Int /\ w[6] \in Int
  <2>1. \A i \in 1..Len(w) : w[i] \in Int
    BY ElementOfSeq, Zenon
  <2> QED
    BY <2>1
<1> QED
  BY <1>1, <1>2, <1>3

-----------------------------------------------------------------------------
(* Bytes taken two by two.                                                 *)

LEMMA Halves ==
    ASSUME NEW n \in Nat
    PROVE  /\ (n + 1) \div 2 \in Nat
           /\ \A i \in 1..((n + 1) \div 2) : 2 * i - 1 \in 1..n /\ (2 * i <= n => 2 * i \in 1..n)
           /\ \A j \in 1..n : \E i \in 1..((n + 1) \div 2) : j \in {2 * i - 1, 2 * i}
<1>1. (n + 1) \div 2 \in Nat
  OBVIOUS
<1>2. ASSUME NEW i \in 1..((n + 1) \div 2) PROVE 2 * i - 1 \in 1..n /\ (2 * i <= n => 2 * i \in 1..n)
  OBVIOUS
<1>3. ASSUME NEW j \in 1..n PROVE \E i \in 1..((n + 1) \div 2) : j \in {2 * i - 1, 2 * i}
  <2>1. (j + 1) \div 2 \in 1..((n + 1) \div 2) /\ j \in {2 * ((j + 1) \div 2) - 1, 2 * ((j + 1) \div 2)}
    OBVIOUS
  <2> QED
    BY <2>1
<1> QED
  BY <1>1, <1>2, <1>3

LEMMA PairsAreWords ==
    ASSUME NEW b \in Seq(Bytes)
    PROVE  /\ Pairs(b) \in Seq(Words) /\ Len(Pairs(b)) = (Len(b) + 1) \div 2
           /\ \A i \in 1..Len(Pairs(b)) :
                 Pairs(b)[i] = b[2 * i - 1] * Byte + (IF 2 * i <= Len(b) THEN b[2 * i] ELSE 0)
           /\ Total(Pairs(b)) \in Nat /\ \A i \in 1..Len(Pairs(b)) : Pairs(b)[i] <= Total(Pairs(b))
<1> DEFINE n == Len(b)
           h == (n + 1) \div 2
           p(i) == b[2 * i - 1] * Byte + (IF 2 * i <= n THEN b[2 * i] ELSE 0)
<1>1. n \in Nat /\ h \in Nat /\ \A i \in 1..n : b[i] \in Bytes
  BY Halves
<1>2. ASSUME NEW i \in 1..h PROVE p(i) \in Words
  <2>1. 2 * i - 1 \in 1..n /\ (2 * i <= n => 2 * i \in 1..n)
    BY <1>1, Halves
  <2>2. b[2 * i - 1] \in Bytes /\ (IF 2 * i <= n THEN b[2 * i] ELSE 0) \in Bytes
    <3>1. 0 \in Bytes
      BY ByteWord DEF Bytes
    <3> HIDE DEF n, h
    <3> QED
      BY <1>1, <2>1, <3>1
  <2> QED
    BY <2>2, Join
<1>3. Pairs(b) = [i \in 1..h |-> p(i)]
  BY DEF Pairs
<1>4. Pairs(b) \in Seq(Words) /\ Len(Pairs(b)) = h /\ \A i \in 1..h : Pairs(b)[i] = p(i)
  <2> HIDE DEF p, h, n
  <2> QED
    BY <1>1, <1>2, <1>3
<1>5. \A s \in Words : Total(Pairs(b)) \in Nat
  BY <1>4, SumIsTotal
<1>6. 0 \in Words
  BY ByteWord DEF Words
<1> QED
  BY <1>4, <1>5, <1>6, TotalCovers

LEMMA WordsAreNumbers ==
    /\ \A v \in Words : v \in Int /\ v \in Nat /\ v <= Word - 1
    /\ \A w \in Seq(Words) : w \in Seq(Int)
    /\ \A b \in Bytes : b \in Int /\ b \in Nat /\ b <= Byte - 1
<1>1. \A v \in Words : v \in Int /\ v \in Nat /\ v <= Word - 1
  BY ByteWord DEF Words
<1>2. \A b \in Bytes : b \in Int /\ b \in Nat /\ b <= Byte - 1
  BY ByteWord DEF Bytes
<1>3. ASSUME NEW w \in Seq(Words) PROVE w \in Seq(Int)
  BY <1>1
<1> QED
  BY <1>1, <1>2, <1>3

\* Two numbers that differ in one factor differ by its difference, as often as the other factor.
LEMMA Scaled ==
  ASSUME NEW x \in Int, NEW y \in Int, NEW c \in Int, NEW k \in Int
  PROVE  y * k + c - (x * k + c) = (y - x) * k
OBVIOUS

\* A byte that changes alone changes the total by its difference, or by the
\* difference in a high byte.
LEMMA PairsChange ==
    ASSUME NEW a \in Seq(Bytes), NEW b \in Seq(Bytes), Len(a) = Len(b), NEW j \in 1..Len(a),
           \A i \in 1..Len(a) : i # j => b[i] = a[i]
    PROVE  /\ Total(Pairs(b)) - Total(Pairs(a)) \in {b[j] - a[j], (b[j] - a[j]) * Byte}
           /\ j = 1 => Total(Pairs(b)) - Total(Pairs(a)) = (b[j] - a[j]) * Byte
<1> DEFINE n == Len(a)
           h == (n + 1) \div 2
           u == Pairs(a)
           v == Pairs(b)
<1>1. n \in Nat /\ h \in Nat /\ \A i \in 1..n : a[i] \in Int /\ b[i] \in Int
  BY Halves, WordsAreNumbers
<1>2. /\ u \in Seq(Int) /\ Len(u) = h /\ v \in Seq(Int) /\ Len(v) = h
      /\ u \in Seq(Words) /\ v \in Seq(Words) /\ Total(u) \in Nat /\ Total(v) \in Nat
  BY PairsAreWords, WordsAreNumbers
<1>3. \A i \in 1..h : /\ u[i] = a[2 * i - 1] * Byte + (IF 2 * i <= n THEN a[2 * i] ELSE 0)
                      /\ v[i] = b[2 * i - 1] * Byte + (IF 2 * i <= n THEN b[2 * i] ELSE 0)
  BY PairsAreWords
<1>4. PICK m \in 1..h : j \in {2 * m - 1, 2 * m}
  <2>1. j \in 1..n
    OBVIOUS
  <2> HIDE DEF n
  <2> QED
    BY <1>1, <2>1, Halves
<1>5. \A i \in 1..h : 2 * i - 1 \in 1..n /\ (2 * i <= n => 2 * i \in 1..n)
  BY Halves
<1>6. j \in 1..n /\ \A i \in 1..n : i # j => b[i] = a[i]
  OBVIOUS
<1> HIDE DEF n, h, u, v
<1>7. ASSUME NEW i \in 1..h, i # m PROVE v[i] = u[i]
  <2>1. 2 * i - 1 # j /\ 2 * i # j
    BY <1>1, <1>4, <1>7
  <2>2. b[2 * i - 1] = a[2 * i - 1] /\ (2 * i <= n => b[2 * i] = a[2 * i])
    BY <1>5, <1>6, <2>1
  <2> QED
    BY <1>3, <2>2
<1>8. Total(v) = Total(u) + (v[m] - u[m])
  <2>1. m \in 1..Len(u) /\ Len(v) = Len(u) /\ \A i \in 1..Len(u) : i # m => v[i] = u[i]
    BY <1>2, <1>7
  <2> QED
    BY <1>2, <2>1, TotalChange, Zenon
<1> DEFINE lo(x) == IF 2 * m <= n THEN x[2 * m] ELSE 0
<1>9. u[m] = a[2 * m - 1] * Byte + lo(a) /\ v[m] = b[2 * m - 1] * Byte + lo(b)
  BY <1>3
<1>10. 2 * m - 1 \in 1..n /\ (2 * m <= n => 2 * m \in 1..n)
  BY <1>5
<1>11. /\ a[2 * m - 1] \in Int /\ b[2 * m - 1] \in Int /\ lo(a) \in Int /\ lo(b) \in Int
       /\ u[m] \in Int /\ v[m] \in Int
  <2>1. u[m] \in Int /\ v[m] \in Int
    BY <1>2, ElementOfSeq
  <2> QED
    BY <1>1, <1>10, <2>1
<1>12. CASE j = 2 * m - 1
  <2>1. lo(a) = lo(b)
    <3>1. 2 * m # j
      BY <1>1, <1>12
    <3> QED
      BY <1>6, <1>10, <3>1
  <2>2. v[m] - u[m] = (b[j] - a[j]) * Byte
    <3> HIDE DEF lo
    <3>1. /\ u[m] = a[j] * Byte + lo(a) /\ v[m] = b[j] * Byte + lo(a)
          /\ a[j] \in Int /\ b[j] \in Int /\ lo(a) \in Int
      BY <1>9, <1>11, <1>12, <2>1
    <3>2. b[j] * Byte + lo(a) - (a[j] * Byte + lo(a)) = (b[j] - a[j]) * Byte
      BY <3>1, ByteWord, Scaled
    <3>3. v[m] - u[m] = b[j] * Byte + lo(a) - (a[j] * Byte + lo(a))
      BY <1>11, <3>1, ByteWord
    <3> QED
      BY <3>2, <3>3
  <2>3. Total(v) - Total(u) = (b[j] - a[j]) * Byte
    BY <1>2, <1>8, <1>11, <2>2
  <2> QED
    BY <2>3 DEF u, v
<1>13. CASE j = 2 * m
  <2>1. b[2 * m - 1] = a[2 * m - 1]
    <3>1. 2 * m - 1 # j
      BY <1>1, <1>13
    <3> QED
      BY <1>6, <1>10, <3>1
  <2>2. lo(a) = a[j] /\ lo(b) = b[j]
    BY <1>6, <1>13
  <2>3. v[m] \in Int /\ u[m] \in Int /\ v[m] - u[m] = b[j] - a[j] /\ j # 1
    <3> HIDE DEF lo
    <3>1. /\ u[m] = a[2 * m - 1] * Byte + lo(a) /\ v[m] = a[2 * m - 1] * Byte + lo(b)
          /\ a[2 * m - 1] * Byte \in Int
      BY <1>9, <1>11, <2>1, ByteWord
    <3> DEFINE high == a[2 * m - 1] * Byte
    <3>2. u[m] = high + lo(a) /\ v[m] = high + lo(b) /\ high \in Int
      BY <3>1
    <3> HIDE DEF high
    <3>3. v[m] - u[m] = lo(b) - lo(a)
      BY <1>11, <3>2
    <3>4. m \in Int /\ j # 1
      BY <1>1, <1>13
    <3> QED
      BY <1>11, <2>2, <3>3, <3>4
  <2> HIDE DEF lo
  <2> QED
    BY <1>2, <1>8, <2>3 DEF u, v
<1> QED
  BY <1>4, <1>12, <1>13

\* The second word alone, where the checksum is.
LEMMA PairsReplace ==
    ASSUME NEW a \in Seq(Bytes), NEW b \in Seq(Bytes), Len(a) = Len(b), Len(a) >= 4,
           \A i \in 1..Len(a) : i # 3 /\ i # 4 => b[i] = a[i]
    PROVE  Total(Pairs(b)) = Total(Pairs(a)) + ((b[3] * Byte + b[4]) - (a[3] * Byte + a[4]))
<1> DEFINE n == Len(a)
           h == (n + 1) \div 2
           u == Pairs(a)
           v == Pairs(b)
<1>1. n \in Nat /\ h \in Nat /\ n >= 4 /\ 2 \in 1..h
  BY Halves
<1>2. /\ u \in Seq(Int) /\ Len(u) = h /\ v \in Seq(Int) /\ Len(v) = h
      /\ u \in Seq(Words) /\ v \in Seq(Words)
  BY PairsAreWords, WordsAreNumbers
<1>3. \A i \in 1..h : /\ u[i] = a[2 * i - 1] * Byte + (IF 2 * i <= n THEN a[2 * i] ELSE 0)
                      /\ v[i] = b[2 * i - 1] * Byte + (IF 2 * i <= n THEN b[2 * i] ELSE 0)
  BY PairsAreWords
<1>4. \A i \in 1..h : 2 * i - 1 \in 1..n /\ (2 * i <= n => 2 * i \in 1..n)
  BY Halves
<1>5. \A i \in 1..n : i # 3 /\ i # 4 => b[i] = a[i]
  OBVIOUS
<1> HIDE DEF n, h, u, v
<1>6. ASSUME NEW i \in 1..h, i # 2 PROVE v[i] = u[i]
  <2>1. 2 * i - 1 # 3 /\ 2 * i # 3 /\ 2 * i - 1 # 4 /\ 2 * i # 4
    BY <1>1, <1>6
  <2>2. b[2 * i - 1] = a[2 * i - 1] /\ (2 * i <= n => b[2 * i] = a[2 * i])
    BY <1>4, <1>5, <2>1
  <2> QED
    BY <1>3, <2>2
<1>7. Total(v) = Total(u) + (v[2] - u[2])
  <2>1. PICK m \in 1..h : m = 2
    BY <1>1
  <2>2. \A i \in 1..h : i # m => v[i] = u[i]
    BY <1>6, <2>1
  <2>3. Total(v) = Total(u) + (v[m] - u[m])
    <3>1. m \in 1..Len(u) /\ Len(v) = Len(u) /\ \A i \in 1..Len(u) : i # m => v[i] = u[i]
      BY <1>2, <2>2
    <3> QED
      BY <1>2, <3>1, TotalChange, Zenon
  <2> QED
    BY <2>1, <2>3
<1>8. u[2] = a[3] * Byte + a[4] /\ v[2] = b[3] * Byte + b[4]
  BY <1>1, <1>3
<1> QED
  BY <1>7, <1>8 DEF u, v

\* A byte that makes no difference to a sum is the same byte.
LEMMA ByteChange ==
    ASSUME NEW x \in Bytes, NEW y \in Bytes, NEW e \in {x - y, (x - y) * Byte}, Same(e, 0)
    PROVE  x = y
<1>1. x \in Int /\ y \in Int /\ x - y <= Byte - 1 /\ y - x <= Byte - 1 /\ Byte \in Nat /\ Byte > 1
  BY ByteWord DEF Bytes
<1>2. (Byte - 1) * Byte < Word - 1 /\ Byte - 1 < Word - 1
  <2>1. (Byte - 1) * Byte = Byte * Byte - Byte /\ (Byte - 1) * Byte >= Byte - 1
    BY ByteWord
  <2> QED
    BY <2>1, ByteWord
<1> DEFINE z == x - y
<1>3. z \in Int /\ z <= Byte - 1 /\ -z <= Byte - 1
  BY <1>1
<1>4. CASE e = z
  <2> HIDE DEF z
  <2>1. e - 0 < Word - 1 /\ 0 - e < Word - 1 /\ e \in Int
    BY <1>1, <1>2, <1>3, <1>4, ByteWord
  <2>2. e = 0
    BY <2>1, SameNear
  <2> QED
    BY <1>1, <1>4, <2>2 DEF z
<1>5. CASE e = z * Byte
  <2> HIDE DEF z
  <2>1. z * Byte <= (Byte - 1) * Byte /\ -(z * Byte) <= (Byte - 1) * Byte /\ z * Byte \in Int
    <3>1. (Byte - 1 - z) * Byte >= 0 /\ (Byte - 1 - z) * Byte = (Byte - 1) * Byte - z * Byte
      BY <1>1, <1>3
    <3>2. (Byte - 1 + z) * Byte >= 0 /\ (Byte - 1 + z) * Byte = (Byte - 1) * Byte + z * Byte
      BY <1>1, <1>3
    <3>3. z * Byte \in Int /\ (Byte - 1) * Byte \in Int
      BY <1>1, <1>3
    <3> QED
      BY <3>1, <3>2, <3>3
  <2>2. e - 0 < Word - 1 /\ 0 - e < Word - 1 /\ e \in Int
    <3> DEFINE f == z * Byte
               g == (Byte - 1) * Byte
    <3>1. f <= g /\ -f <= g /\ f \in Int /\ g \in Int /\ g < Word - 1 /\ e = f
      BY <1>1, <1>2, <1>5, <2>1
    <3> HIDE DEF f, g
    <3> QED
      BY <3>1, ByteWord
  <2>3. e = 0
    BY <2>2, SameNear
  <2>4. z = 0
    <3>1. z >= 1 => Byte * z >= Byte
      BY <1>1, <1>3, Multiple
    <3>2. z <= -1 => Byte * z <= -Byte
      BY <1>1, <1>3, Multiple
    <3>3. Byte * z = 0
      BY <1>1, <1>3, <1>5, <2>3
    <3> QED
      BY <1>1, <1>3, <3>1, <3>2, <3>3
  <2> QED
    BY <1>1, <2>4 DEF z
<1> QED
  BY <1>4, <1>5

\* Nor does a word with another byte go unnoticed.
LEMMA WordChange ==
    ASSUME NEW v \in Words, NEW w \in OtherWords(v)
    PROVE  w \in Words /\ (Same(w, v) => w = v)
<1>1. PICK h \in Bytes, l \in Bytes : v = h * Byte + l
  BY Split
<1>2. v \div Byte = h /\ v % Byte = l
  BY <1>1, Join
<1>3. PICK b \in Bytes : w = b * Byte + l \/ w = h * Byte + b
  BY <1>2 DEF OtherWords
<1>4. w \in Words
  BY <1>3, Join
<1>5. /\ h \in Int /\ l \in Int /\ b \in Int /\ v \in Int /\ w \in Int /\ Byte \in Int
      /\ h * Byte \in Int /\ b * Byte \in Int
  BY <1>4, WordsAreNumbers, ByteWord
<1>6. w - v = (b - h) * Byte \/ w - v = b - l
  BY <1>1, <1>3, <1>5
<1>7. ASSUME Same(w, v) PROVE w = v
  <2>1. Same(w - v, 0)
    <3>1. Same(-v, -v) /\ -v \in Int
      BY <1>5, SameSelf
    <3>2. Same(w + (-v), v + (-v))
      BY <1>5, <1>7, <3>1, SameAdds
    <3> QED
      BY <1>5, <3>2
  <2>2. CASE w - v = (b - h) * Byte
    <3>1. b = h
      BY <2>1, <2>2, ByteChange
    <3> QED
      BY <1>5, <2>2, <3>1
  <2>3. CASE w - v = b - l
    <3>1. b = l
      BY <2>1, <2>3, ByteChange
    <3> QED
      BY <1>5, <2>3, <3>1
  <2> QED
    BY <1>6, <2>2, <2>3
<1> QED
  BY <1>4, <1>7

-----------------------------------------------------------------------------
(* Datagrams.                                                              *)

Datagram == [whole : BOOLEAN, len : Words, id : Words, proto : Words, ipsum : Words,
             src : Words, dst : Words, body : Seq(Bytes)]
\* Nothing is said of the checksums.
Fits(d) == d \in Datagram /\ 4 <= d.len /\ d.len <= Len(d.body)
UpperTotal(d) == Total(Pairs(Payload(d))) + d.len + d.proto + Total(PseudoWords(d))

LEMMA SubSeqSame ==
    ASSUME NEW a \in Seq(Bytes), NEW b \in Seq(Bytes), NEW m \in Nat \ {0}, NEW n \in Nat,
           n <= Len(a), n <= Len(b), \A i \in m..n : a[i] = b[i]
    PROVE  SubSeq(a, m, n) = SubSeq(b, m, n)
<1> DEFINE s == SubSeq(a, m, n)
           t == SubSeq(b, m, n)
           l == IF m <= n THEN n - m + 1 ELSE 0
<1>1. \A i \in m..n : a[i] \in Bytes /\ b[i] \in Bytes
  OBVIOUS
<1>2. s \in Seq(Bytes) /\ Len(s) = l /\ \A i \in 1..(n - m + 1) : s[i] = a[m + i - 1]
  BY <1>1, SubSeqProperties
<1>3. t \in Seq(Bytes) /\ Len(t) = l /\ \A i \in 1..(n - m + 1) : t[i] = b[m + i - 1]
  BY <1>1, SubSeqProperties
<1> HIDE DEF s, t
<1>4. ASSUME NEW i \in 1..l PROVE s[i] = t[i]
  <2>1. i \in 1..(n - m + 1) /\ m + i - 1 \in m..n
    BY <1>4
  <2> QED
    BY <1>2, <1>3, <2>1
<1>5. s = t
  <2> HIDE DEF l
  <2> QED
    BY <1>2, <1>3, <1>4
<1> QED
  BY <1>5 DEF s, t

LEMMA PayloadIs ==
    ASSUME NEW d, Fits(d)
    PROVE  /\ Payload(d) \in Seq(Bytes) /\ Len(Payload(d)) = d.len
           /\ \A i \in 1..d.len : Payload(d)[i] = d.body[i] /\ d.body[i] \in Bytes
           /\ Total(Pairs(Payload(d))) \in Nat
<1>1. d.body \in Seq(Bytes) /\ d.len \in Nat /\ d.len <= Len(d.body) /\ 1 <= d.len
  <2>1. d.len \in Words /\ d.body \in Seq(Bytes) /\ 4 <= d.len /\ d.len <= Len(d.body)
    BY DEF Fits, Datagram
  <2> QED
    BY <2>1, WordsAreNumbers
<1>2. \A i \in 1..d.len : d.body[i] \in Bytes
  BY <1>1
<1>3. 1 \in Int /\ d.len \in Int
  BY <1>1
<1>4. /\ Payload(d) \in Seq(Bytes) /\ Len(Payload(d)) = d.len
      /\ \A i \in 1..d.len : Payload(d)[i] = d.body[i]
  BY <1>1, <1>2, <1>3, SubSeqProperties DEF Payload
<1> QED
  BY <1>2, <1>4, PairsAreWords

LEMMA VerifiesSame ==
    ASSUME NEW n \in Nat
    PROVE  Verifies(n) <=> n # 0 /\ Same(n, 0)
BY SameRemainder DEF Verifies

LEMMA HeaderTotal ==
    ASSUME NEW d \in Datagram
    PROVE  /\ Total(HeaderWords(d)) = d.len + d.id + d.proto + d.ipsum + d.src + d.dst
           /\ d.len \in Nat /\ d.id \in Nat /\ d.proto \in Nat /\ d.ipsum \in Nat
           /\ d.src \in Nat /\ d.dst \in Nat
           /\ Total(HeaderWords(d)) \in Nat
           /\ uip_ipchksum(d) = Word - 1 <=> Same(Total(HeaderWords(d)), 0)
           /\ uip_ipchksum(d) \in 1..(Word - 1) /\ Same(uip_ipchksum(d), Total(HeaderWords(d)))
<1>1. /\ d.len \in Words /\ d.id \in Words /\ d.proto \in Words /\ d.ipsum \in Words
      /\ d.src \in Words /\ d.dst \in Words
  BY DEF Datagram
<1>2. /\ d.len \in Nat /\ d.id \in Nat /\ d.proto \in Nat /\ d.ipsum \in Nat
      /\ d.src \in Nat /\ d.dst \in Nat
  BY <1>1, WordsAreNumbers
<1>3. Total(HeaderWords(d)) = d.len + d.id + d.proto + d.ipsum + d.src + d.dst
  <2> DEFINE w == HeaderWords(d)
  <2>1. /\ w \in Seq(Int) /\ Len(w) = 6 /\ w[1] = d.len /\ w[2] = d.id /\ w[3] = d.proto
        /\ w[4] = d.ipsum /\ w[5] = d.src /\ w[6] = d.dst
    BY <1>2 DEF HeaderWords
  <2> HIDE DEF w
  <2>2. Total(w) = w[1] + w[2] + w[3] + w[4] + w[5] + w[6]
    BY <2>1, TotalOfSix
  <2>3. Total(w) = d.len + d.id + d.proto + d.ipsum + d.src + d.dst
    BY <2>1, <2>2
  <2> QED
    BY <2>3 DEF w
<1>4. HeaderWords(d) \in Seq(Words) /\ 0 \in Words
  BY <1>1, ByteWord DEF HeaderWords, Words
<1> DEFINE s == SumWords(0, HeaderWords(d))
           n == Total(HeaderWords(d))
<1>5. s \in Words /\ n \in Nat /\ Same(s, 0 + n)
  BY <1>4, SumIsTotal
<1>6. 0 + n = n
  BY <1>5
<1> HIDE DEF s, n
<1>7. /\ NeverZero(s) = Word - 1 <=> Same(n, 0)
      /\ NeverZero(s) \in 1..(Word - 1) /\ Same(NeverZero(s), n)
  BY <1>5, <1>6, NeverZeroVerifies
<1> QED
  BY <1>2, <1>3, <1>5, <1>7 DEF s, n, uip_ipchksum

LEMMA UpperSum ==
    ASSUME NEW d, Fits(d), d.len + d.proto < Word
    PROVE  /\ UpperTotal(d) = Total(Pairs(Payload(d))) + d.len + d.proto + d.src + d.dst
           /\ UpperTotal(d) \in Nat /\ UpperTotal(d) # 0
           /\ upper_layer_chksum(d) = Word - 1 <=> Same(UpperTotal(d), 0)
           /\ upper_layer_chksum(d) \in 1..(Word - 1) /\ Same(upper_layer_chksum(d), UpperTotal(d))
<1>1. d.src \in Words /\ d.dst \in Words
  BY DEF Fits, Datagram
<1>2. /\ d.len \in Nat /\ d.proto \in Nat /\ d.src \in Nat /\ d.dst \in Nat /\ 4 <= d.len
      /\ d.len + d.proto \in Words
  <2>1. d.len \in Nat /\ d.proto \in Nat /\ d.src \in Nat /\ d.dst \in Nat /\ 4 <= d.len
    BY HeaderTotal DEF Fits
  <2> QED
    BY <2>1, ByteWord DEF Words
<1> DEFINE w == PseudoWords(d)
           p == Payload(d)
           s == SumWords(d.len + d.proto, w)
           t == SumWords(s, Pairs(p))
           m == Total(w)
           n == Total(Pairs(p))
<1>3. w \in Seq(Words) /\ m = d.src + d.dst
  <2>1. /\ w \in Seq(Words) /\ w \in Seq(Int) /\ Len(w) = 2 /\ w[1] = d.src /\ w[2] = d.dst
    BY <1>1, <1>2 DEF PseudoWords
  <2> HIDE DEF w
  <2>2. Total(w) = w[1] + w[2]
    BY <2>1, TotalOfTwo
  <2> QED
    BY <2>1, <2>2
<1>4. p \in Seq(Bytes) /\ Pairs(p) \in Seq(Words) /\ n \in Nat
  BY PayloadIs, PairsAreWords
<1>5. s \in Words /\ m \in Nat /\ Same(s, (d.len + d.proto) + m)
  <2> HIDE DEF w
  <2> QED
    BY <1>2, <1>3, SumIsTotal
<1>6. t \in Words /\ Same(t, s + n)
  <2> HIDE DEF w, p, s
  <2> QED
    BY <1>4, <1>5, SumIsTotal
<1>7. UpperTotal(d) = n + d.len + d.proto + m
  BY DEF UpperTotal
<1>8. upper_layer_chksum(d) = NeverZero(t)
  BY DEF upper_layer_chksum, chksum
<1> DEFINE v == UpperTotal(d)
<1> HIDE DEF w, p, s, t, m, n
<1>9. v \in Nat /\ v = ((d.len + d.proto) + m) + n /\ v # 0
      /\ v = n + d.len + d.proto + d.src + d.dst
  <2> DEFINE l == d.len
             q == d.proto
             a == d.src
             b == d.dst
  <2>1. l \in Nat /\ q \in Nat /\ a \in Nat /\ b \in Nat /\ 4 <= l /\ n \in Nat /\ m = a + b
        /\ v = n + l + q + m
    BY <1>2, <1>3, <1>4, <1>7
  <2> HIDE DEF l, q, a, b, v
  <2>2. v \in Nat /\ v = ((l + q) + m) + n /\ v # 0 /\ v = n + l + q + a + b
    BY <2>1
  <2> QED
    BY <2>2 DEF l, q, a, b
<1> HIDE DEF v
<1>10. Same(t, v)
  <2>1. s \in Int /\ t \in Int /\ n \in Int /\ m \in Int /\ d.len + d.proto \in Int
    BY <1>2, <1>4, <1>5, <1>6, WordsAreNumbers
  <2>2. Same(s + n, ((d.len + d.proto) + m) + n)
    BY <1>5, <2>1, SameSelf, SameAdds
  <2>3. s + n \in Int /\ ((d.len + d.proto) + m) + n \in Int
    BY <2>1
  <2> QED
    BY <1>6, <1>9, <2>1, <2>2, <2>3, SameTransitive
<1>11. /\ NeverZero(t) = Word - 1 <=> Same(v, 0)
       /\ NeverZero(t) \in 1..(Word - 1) /\ Same(NeverZero(t), v)
  BY <1>6, <1>9, <1>10, NeverZeroVerifies
<1> QED
  BY <1>8, <1>9, <1>11 DEF v, n, p

\* The checksum in the datagram, and all else as it was.
LEMMA WithSumIs ==
    ASSUME NEW d, Fits(d), NEW c \in Words
    PROVE  /\ Fits(WithSum(d, c)) /\ Sum(WithSum(d, c)) = c
           /\ WithSum(d, c).whole = d.whole
           /\ HeaderWords(WithSum(d, c)) = HeaderWords(d)
           /\ WithSum(d, c).len = d.len /\ WithSum(d, c).proto = d.proto
           /\ WithSum(d, c).src = d.src /\ WithSum(d, c).dst = d.dst
           /\ Len(WithSum(d, c).body) = Len(d.body)
           /\ \A i \in 1..Len(d.body) : i # 3 /\ i # 4 => WithSum(d, c).body[i] = d.body[i]
           /\ Total(Pairs(Payload(WithSum(d, c)))) = Total(Pairs(Payload(d))) - Sum(d) + c
           /\ Sum(d) \in Words
<1> DEFINE e == WithSum(d, c)
           hi == c \div Byte
           lo == c % Byte
<1>1. hi \in Bytes /\ lo \in Bytes /\ hi * Byte + lo = c
  <2>1. PICK h \in Bytes, l \in Bytes : c = h * Byte + l
    BY Split
  <2> QED
    BY <2>1, Join
<1>2. /\ d \in Datagram /\ d.body \in Seq(Bytes) /\ 4 <= Len(d.body) /\ d.len \in Nat
      /\ 4 <= d.len /\ d.len <= Len(d.body) /\ d.len \in Words
  <2>1. d \in Datagram /\ d.body \in Seq(Bytes) /\ 4 <= d.len /\ d.len <= Len(d.body) /\ d.len \in Words
    BY DEF Fits, Datagram
  <2>2. d.len \in Nat
    BY <2>1, WordsAreNumbers
  <2> QED
    BY <2>1, <2>2
<1> DEFINE b == [[d.body EXCEPT ![3] = hi] EXCEPT ![4] = lo]
<1> HIDE DEF hi, lo
<1>3. e = [d EXCEPT !.body = b]
  BY <1>2 DEF WithSum, Datagram, hi, lo
<1>4. /\ b \in Seq(Bytes) /\ Len(b) = Len(d.body) /\ b[3] = hi /\ b[4] = lo
      /\ \A i \in 1..Len(d.body) : i # 3 /\ i # 4 => b[i] = d.body[i]
  BY <1>1, <1>2
<1> HIDE DEF e, b
<1>5. e \in Datagram /\ e.body = b /\ e.whole = d.whole /\ HeaderWords(e) = HeaderWords(d)
      /\ e.len = d.len /\ e.proto = d.proto /\ e.src = d.src /\ e.dst = d.dst
  BY <1>2, <1>3, <1>4 DEF Datagram, HeaderWords
<1>6. Fits(e) /\ Sum(e) = c
  BY <1>1, <1>2, <1>4, <1>5 DEF Fits, Sum
<1>7. Total(Pairs(Payload(e))) = Total(Pairs(Payload(d))) - Sum(d) + c /\ Sum(d) \in Words
  <2> DEFINE p == Payload(d)
             q == Payload(e)
  <2>1. /\ p \in Seq(Bytes) /\ Len(p) = d.len /\ \A i \in 1..d.len : p[i] = d.body[i] /\ d.body[i] \in Bytes
        /\ Total(Pairs(p)) \in Nat
    BY PayloadIs
  <2>2. q \in Seq(Bytes) /\ Len(q) = d.len /\ \A i \in 1..d.len : q[i] = b[i]
    BY <1>5, <1>6, PayloadIs
  <2> HIDE DEF p, q
  <2>3. 3 \in 1..d.len /\ 4 \in 1..d.len
    BY <1>2
  <2>4. p[3] * Byte + p[4] = Sum(d) /\ q[3] * Byte + q[4] = c
    BY <1>1, <1>4, <2>1, <2>2, <2>3 DEF Sum
  <2>5. \A i \in 1..Len(p) : i # 3 /\ i # 4 => q[i] = p[i]
    BY <1>2, <1>4, <2>1, <2>2
  <2>6. Total(Pairs(q)) = Total(Pairs(p)) + ((q[3] * Byte + q[4]) - (p[3] * Byte + p[4]))
    BY <1>2, <2>1, <2>2, <2>5, PairsReplace
  <2>7. Sum(d) \in Words
    BY <2>1, <2>3, Join DEF Sum
  <2>8. Sum(d) \in Int /\ c \in Int
    BY <2>7, WordsAreNumbers
  <2> QED
    BY <2>1, <2>4, <2>6, <2>7, <2>8 DEF p, q
<1> QED
  BY <1>4, <1>5, <1>6, <1>7 DEF e

\* Of the damage of one byte, a header sum that verifies lets through only what
\* is done to the body (uip.c:955-963).
THEOREM HeaderIntact ==
    ASSUME NEW o, Fits(o), HeaderGood(o), NEW d \in Damaged(o), uip_ipchksum(d) = Word - 1
    PROVE  \E j \in 1..Len(o.body) : \E b \in Bytes : d = [o EXCEPT !.body[j] = b]
<1>1. o \in Datagram /\ o.body \in Seq(Bytes) /\ 4 <= Len(o.body) /\ 1 \in 1..Len(o.body)
      /\ o.body[1] \in Bytes
  <2>1. o \in Datagram /\ 4 <= o.len /\ o.len <= Len(o.body) /\ o.len \in Nat /\ o.body \in Seq(Bytes)
    BY HeaderTotal DEF Fits, Datagram
  <2> QED
    BY <2>1
<1>2. /\ o.len \in Words /\ o.proto \in Words /\ o.ipsum \in Words /\ o.src \in Words /\ o.dst \in Words
      /\ o.len \in Nat /\ o.id \in Nat /\ o.proto \in Nat /\ o.ipsum \in Nat
      /\ o.src \in Nat /\ o.dst \in Nat
  BY <1>1, HeaderTotal DEF Datagram
<1> DEFINE n == Total(HeaderWords(o))
<1>3. n \in Nat /\ n = o.len + o.id + o.proto + o.ipsum + o.src + o.dst /\ Same(n, 0)
  <2>1. n \in Nat /\ n = o.len + o.id + o.proto + o.ipsum + o.src + o.dst
    BY <1>1, <1>2, HeaderTotal
  <2> QED
    BY <2>1, VerifiesSame DEF HeaderGood
<1> HIDE DEF n
<1>4. ASSUME NEW v \in Words, NEW w \in OtherWords(v), d \in Datagram,
             Total(HeaderWords(d)) = n + (w - v)
      PROVE  w = v
  <2>1. w \in Words /\ w \in Int /\ v \in Int
    BY <1>4, WordChange, WordsAreNumbers
  <2>2. Same(n + (w - v), 0)
    BY <1>4, HeaderTotal
  <2>3. Same(0, n)
    BY <1>3, SameBack
  <2>4. Same(n + (w - v), n)
    BY <1>3, <2>1, <2>2, <2>3, SameTransitive
  <2>5. Same((n + (w - v)) + (v - n), n + (v - n))
    <3>1. v - n \in Int /\ n + (w - v) \in Int /\ n \in Int
      BY <1>3, <2>1
    <3> QED
      BY <2>4, <3>1, SameSelf, SameAdds
  <2>6. (n + (w - v)) + (v - n) = w /\ n + (v - n) = v
    BY <1>3, <2>1
  <2> QED
    BY <1>4, <2>5, <2>6, WordChange
<1>5. ASSUME d = o PROVE \E j \in 1..Len(o.body) : \E b \in Bytes : d = [o EXCEPT !.body[j] = b]
  <2>1. o.body = [o.body EXCEPT ![1] = o.body[1]]
    BY <1>1
  <2>2. [o EXCEPT !.body[1] = o.body[1]] = o
    BY <1>1, <2>1 DEF Datagram
  <2> QED
    BY <1>1, <1>5, <2>2
<1>6. CASE \E w \in OtherWords(o.len) : d = [o EXCEPT !.len = w]
  <2>1. PICK w \in OtherWords(o.len) : d = [o EXCEPT !.len = w]
    BY <1>6
  <2>2. w \in Words /\ w \in Nat
    BY <1>2, WordChange, WordsAreNumbers
  <2>3. d \in Datagram /\ d.len = w /\ d.id = o.id /\ d.proto = o.proto /\ d.ipsum = o.ipsum
        /\ d.src = o.src /\ d.dst = o.dst
    BY <1>1, <2>1, <2>2 DEF Datagram
  <2>4. Total(HeaderWords(d)) = n + (w - o.len)
    BY <1>2, <1>3, <2>2, <2>3, HeaderTotal
  <2>5. w = o.len
    BY <1>2, <1>4, <2>3, <2>4
  <2> QED
    BY <1>1, <1>5, <2>1, <2>5 DEF Datagram
<1>7. CASE \E w \in OtherWords(o.proto) : d = [o EXCEPT !.proto = w]
  <2>1. PICK w \in OtherWords(o.proto) : d = [o EXCEPT !.proto = w]
    BY <1>7
  <2>2. w \in Words /\ w \in Nat
    BY <1>2, WordChange, WordsAreNumbers
  <2>3. d \in Datagram /\ d.len = o.len /\ d.id = o.id /\ d.proto = w /\ d.ipsum = o.ipsum
        /\ d.src = o.src /\ d.dst = o.dst
    BY <1>1, <2>1, <2>2 DEF Datagram
  <2>4. Total(HeaderWords(d)) = n + (w - o.proto)
    BY <1>2, <1>3, <2>2, <2>3, HeaderTotal
  <2>5. w = o.proto
    BY <1>2, <1>4, <2>3, <2>4
  <2> QED
    BY <1>1, <1>5, <2>1, <2>5 DEF Datagram
<1>8. CASE \E w \in OtherWords(o.ipsum) : d = [o EXCEPT !.ipsum = w]
  <2>1. PICK w \in OtherWords(o.ipsum) : d = [o EXCEPT !.ipsum = w]
    BY <1>8
  <2>2. w \in Words /\ w \in Nat
    BY <1>2, WordChange, WordsAreNumbers
  <2>3. d \in Datagram /\ d.len = o.len /\ d.id = o.id /\ d.proto = o.proto /\ d.ipsum = w
        /\ d.src = o.src /\ d.dst = o.dst
    BY <1>1, <2>1, <2>2 DEF Datagram
  <2>4. Total(HeaderWords(d)) = n + (w - o.ipsum)
    BY <1>2, <1>3, <2>2, <2>3, HeaderTotal
  <2>5. w = o.ipsum
    BY <1>2, <1>4, <2>3, <2>4
  <2> QED
    BY <1>1, <1>5, <2>1, <2>5 DEF Datagram
<1>9. CASE \E w \in OtherWords(o.src) : d = [o EXCEPT !.src = w]
  <2>1. PICK w \in OtherWords(o.src) : d = [o EXCEPT !.src = w]
    BY <1>9
  <2>2. w \in Words /\ w \in Nat
    BY <1>2, WordChange, WordsAreNumbers
  <2>3. d \in Datagram /\ d.len = o.len /\ d.id = o.id /\ d.proto = o.proto /\ d.ipsum = o.ipsum
        /\ d.src = w /\ d.dst = o.dst
    BY <1>1, <2>1, <2>2 DEF Datagram
  <2>4. Total(HeaderWords(d)) = n + (w - o.src)
    BY <1>2, <1>3, <2>2, <2>3, HeaderTotal
  <2>5. w = o.src
    BY <1>2, <1>4, <2>3, <2>4
  <2> QED
    BY <1>1, <1>5, <2>1, <2>5 DEF Datagram
<1>10. CASE \E w \in OtherWords(o.dst) : d = [o EXCEPT !.dst = w]
  <2>1. PICK w \in OtherWords(o.dst) : d = [o EXCEPT !.dst = w]
    BY <1>10
  <2>2. w \in Words /\ w \in Nat
    BY <1>2, WordChange, WordsAreNumbers
  <2>3. d \in Datagram /\ d.len = o.len /\ d.id = o.id /\ d.proto = o.proto /\ d.ipsum = o.ipsum
        /\ d.src = o.src /\ d.dst = w
    BY <1>1, <2>1, <2>2 DEF Datagram
  <2>4. Total(HeaderWords(d)) = n + (w - o.dst)
    BY <1>2, <1>3, <2>2, <2>3, HeaderTotal
  <2>5. w = o.dst
    BY <1>2, <1>4, <2>3, <2>4
  <2> QED
    BY <1>1, <1>5, <2>1, <2>5 DEF Datagram
<1> QED
  <2> DEFINE A1 == {[o EXCEPT !.len = w] : w \in OtherWords(o.len)}
             A2 == {[o EXCEPT !.proto = w] : w \in OtherWords(o.proto)}
             A3 == {[o EXCEPT !.ipsum = w] : w \in OtherWords(o.ipsum)}
             A4 == {[o EXCEPT !.src = w] : w \in OtherWords(o.src)}
             A5 == {[o EXCEPT !.dst = w] : w \in OtherWords(o.dst)}
             A6 == {[o EXCEPT !.body[j] = b] : j \in 1..Len(o.body), b \in Bytes}
  <2>1. d \in UNION {A1, A2, A3, A4, A5, A6}
    BY DEF Damaged
  <2>2. d \in A1 \/ d \in A2 \/ d \in A3 \/ d \in A4 \/ d \in A5 \/ d \in A6
    <3> HIDE DEF A1, A2, A3, A4, A5, A6
    <3> QED
      BY <2>1
  <2>3. CASE d \in A6
    BY <2>3
  <2> QED
    BY <1>6, <1>7, <1>8, <1>9, <1>10, <2>2, <2>3

\* A datagram with a changed byte is one too, with the same header.
LEMMA ChangedByte ==
    ASSUME NEW o, Fits(o), NEW j \in 1..Len(o.body), NEW b \in Bytes,
           NEW d, d = [o EXCEPT !.body[j] = b]
    PROVE  /\ Fits(d) /\ HeaderWords(d) = HeaderWords(o) /\ d.whole = o.whole
           /\ d.len = o.len /\ d.proto = o.proto /\ d.src = o.src /\ d.dst = o.dst
           /\ Len(d.body) = Len(o.body) /\ d.body[j] = b
           /\ \A i \in 1..Len(o.body) : i # j => d.body[i] = o.body[i]
<1> DEFINE s == [o.body EXCEPT ![j] = b]
<1>1. o \in Datagram /\ o.body \in Seq(Bytes)
  BY DEF Fits, Datagram
<1>2. s \in Seq(Bytes) /\ Len(s) = Len(o.body) /\ s[j] = b /\ \A i \in 1..Len(o.body) : i # j => s[i] = o.body[i]
  BY <1>1
<1>3. d = [o EXCEPT !.body = s]
  BY <1>1 DEF Datagram
<1> HIDE DEF s
<1>4. /\ d \in Datagram /\ d.body = s /\ d.whole = o.whole /\ HeaderWords(d) = HeaderWords(o)
      /\ d.len = o.len /\ d.proto = o.proto /\ d.src = o.src /\ d.dst = o.dst
  BY <1>1, <1>2, <1>3 DEF Datagram, HeaderWords
<1>5. Fits(d)
  BY <1>2, <1>4 DEF Fits
<1> QED
  BY <1>2, <1>4, <1>5

\* A changed byte that leaves the sum of the payload the same is no change, or
\* lies beyond the payload.
LEMMA PayloadIntact ==
    ASSUME NEW o, Fits(o), NEW d, Fits(d), d.len = o.len, Len(d.body) = Len(o.body),
           NEW j \in 1..Len(o.body),
           \A i \in 1..Len(o.body) : i # j => d.body[i] = o.body[i],
           Same(Total(Pairs(Payload(d))), Total(Pairs(Payload(o))))
    PROVE  \A i \in 1..o.len : d.body[i] = o.body[i]
<1> DEFINE p == Payload(o)
           q == Payload(d)
           n == o.len
<1>1. n \in Nat /\ n <= Len(o.body)
  BY HeaderTotal DEF Fits
<1>2. /\ p \in Seq(Bytes) /\ Len(p) = n /\ Total(Pairs(p)) \in Nat
      /\ \A i \in 1..n : p[i] = o.body[i] /\ p[i] \in Bytes
  BY PayloadIs
<1>3. /\ q \in Seq(Bytes) /\ Len(q) = n /\ Total(Pairs(q)) \in Nat
      /\ \A i \in 1..n : q[i] = d.body[i] /\ q[i] \in Bytes
  BY PayloadIs
<1>4. Same(Total(Pairs(q)), Total(Pairs(p)))
  OBVIOUS
<1>5. o.body \in Seq(Bytes)
  BY DEF Fits, Datagram
<1>6. \A i \in 1..n : i \in 1..Len(o.body) /\ (i # j => q[i] = p[i])
  <2> HIDE DEF n, p, q
  <2>1. Len(o.body) \in Nat
    BY <1>5
  <2> QED
    BY <1>1, <1>2, <1>3, <2>1
<1> HIDE DEF p, q, n
<1>7. CASE j \in 1..n
  <2> DEFINE e == Total(Pairs(q)) - Total(Pairs(p))
  <2>1. e \in {q[j] - p[j], (q[j] - p[j]) * Byte}
    <3>1. j \in 1..Len(p) /\ \A i \in 1..Len(p) : i # j => q[i] = p[i]
      BY <1>2, <1>6, <1>7
    <3> QED
      BY <1>2, <1>3, <3>1, PairsChange
  <2>2. Same(e, 0)
    <3> DEFINE a == Total(Pairs(q))
               b == Total(Pairs(p))
    <3>1. a \in Int /\ b \in Int /\ -b \in Int /\ Same(a, b)
      BY <1>2, <1>3, <1>4
    <3> HIDE DEF a, b
    <3>2. Same(a + (-b), b + (-b))
      BY <3>1, SameSelf, SameAdds
    <3>3. a + (-b) = a - b /\ b + (-b) = 0
      BY <3>1
    <3>4. Same(a - b, 0)
      BY <3>2, <3>3
    <3> QED
      BY <3>4 DEF a, b
  <2> HIDE DEF e
  <2>3. q[j] = p[j]
    BY <1>2, <1>3, <1>7, <2>1, <2>2, ByteChange
  <2> QED
    BY <1>2, <1>3, <1>6, <2>3 DEF n
<1>8. CASE j \notin 1..n
  BY <1>2, <1>3, <1>6, <1>8 DEF n
<1> QED
  BY <1>7, <1>8

\* The data is the same where the bytes are.
LEMMA DataSame ==
    ASSUME NEW o, Fits(o), NEW d, Fits(d), d.len = o.len, \A i \in 5..o.len : d.body[i] = o.body[i]
    PROVE  DataOf(d) = DataOf(o)
<1>1. /\ o.body \in Seq(Bytes) /\ d.body \in Seq(Bytes) /\ o.len \in Nat /\ d.len \in Nat
      /\ o.len <= Len(o.body) /\ o.len <= Len(d.body)
  BY HeaderTotal DEF Fits, Datagram
<1>2. SubSeq(d.body, 5, o.len) = SubSeq(o.body, 5, o.len)
  BY <1>1, SubSeqSame
<1> QED
  BY <1>2 DEF DataOf

\* A checksum makes what it was computed of verify, also when it is the one
\* that is written instead of zero.
LEMMA ComplementVerifies ==
    ASSUME NEW n \in Int, NEW c \in 1..(Word - 1), Same(c, n)
    PROVE  /\ Complement(c) \in Words /\ Same(n + Complement(c), 0)
           /\ NeverZero(Complement(c)) \in 1..(Word - 1) /\ Same(n + NeverZero(Complement(c)), 0)
<1> DEFINE m == Word - 1
           k == Complement(c)
<1>1. /\ m \in Int /\ m > 0 /\ c \in Int /\ 1 <= c /\ c <= m
      /\ k = m - c /\ k \in Int /\ 0 <= k /\ k < m
  BY ByteWord DEF Complement
<1>2. k \in Words
  BY <1>1 DEF Words
<1>3. Same(m, 0) /\ Same(m, m) /\ Same(k, k) /\ Same(n, n) /\ Same(n, c)
  <2>1. m - 0 = 1 * (Word - 1)
    BY <1>1
  <2>2. Same(m, 0)
    BY <2>1 DEF Same
  <2> HIDE DEF m, k
  <2> QED
    BY <1>1, <2>2, SameSelf, SameBack
<1> HIDE DEF m, k
<1>4. Same(n + k, 0)
  <2>1. Same(n + k, c + k) /\ c + k = m /\ n + k \in Int
    BY <1>1, <1>3, SameAdds
  <2>2. Same(n + k, m)
    BY <2>1
  <2> QED
    BY <1>1, <1>3, <2>1, <2>2, SameTransitive
<1>5. NeverZero(k) \in 1..m /\ Same(n + NeverZero(k), 0)
  <2>1. CASE k = 0
    <3>1. NeverZero(k) = m
      BY <2>1 DEF NeverZero, m
    <3>2. Same(n, 0)
      BY <1>4, <2>1
    <3>3. Same(n + m, 0 + 0)
      BY <1>1, <1>3, <3>2, SameAdds
    <3> QED
      BY <1>1, <3>1, <3>3
  <2>2. CASE k # 0
    <3>1. NeverZero(k) = k
      BY <2>2 DEF NeverZero
    <3> QED
      BY <1>1, <1>4, <2>2, <3>1
  <2> QED
    BY <2>1, <2>2
<1> QED
  BY <1>2, <1>4, <1>5 DEF m, k

LEMMA HeaderSumVerifies ==
    ASSUME NEW e \in Datagram, 4 <= e.len, e.ipsum = 0
    PROVE  LET r == [e EXCEPT !.ipsum = Complement(uip_ipchksum(e))]
           IN  r \in Datagram /\ HeaderGood(r)
<1> DEFINE k == Complement(uip_ipchksum(e))
           r == [e EXCEPT !.ipsum = k]
           n == Total(HeaderWords(e))
<1>1. /\ n = e.len + e.id + e.proto + e.ipsum + e.src + e.dst
      /\ e.len \in Nat /\ e.id \in Nat /\ e.proto \in Nat /\ e.src \in Nat /\ e.dst \in Nat
      /\ uip_ipchksum(e) \in 1..(Word - 1) /\ Same(uip_ipchksum(e), n)
  BY HeaderTotal
<1>2. n \in Nat /\ n >= 4
  BY <1>1
<1> HIDE DEF n
<1>3. k \in Words /\ Same(n + k, 0)
  BY <1>1, <1>2, ComplementVerifies
<1> HIDE DEF k
<1>4. k \in Nat
  BY <1>3, WordsAreNumbers
<1>5. /\ r \in Datagram /\ r.len = e.len /\ r.id = e.id /\ r.proto = e.proto /\ r.ipsum = k
      /\ r.src = e.src /\ r.dst = e.dst
  BY <1>3 DEF Datagram
<1> HIDE DEF r
<1>6. Total(HeaderWords(r)) = r.len + r.id + r.proto + r.ipsum + r.src + r.dst
  BY <1>5, HeaderTotal
<1>7. Total(HeaderWords(r)) = n + k
  BY <1>1, <1>4, <1>5, <1>6
<1>8. n + k \in Nat /\ n + k # 0
  BY <1>2, <1>4
<1>9. HeaderGood(r)
  BY <1>3, <1>7, <1>8, VerifiesSame DEF HeaderGood
<1> QED
  BY <1>5, <1>9 DEF k, r

\* The reply to a ping is the ping with another type, the other way round.
LEMMA EchoReplyIs ==
    ASSUME NEW d, Fits(d), d.body[1] = Echo, d.dst = HostAddr
    PROVE  /\ Fits(EchoReply(d)) /\ EchoReply(d).len = d.len /\ EchoReply(d).proto = d.proto
           /\ Len(EchoReply(d).body) = d.len
           /\ \A i \in 5..d.len : EchoReply(d).body[i] = d.body[i]
           /\ Total(HeaderWords(EchoReply(d))) = Total(HeaderWords(d))
           /\ Same(Total(Pairs(Payload(EchoReply(d)))), Total(Pairs(Payload(d))))
<1> DEFINE n == d.len
           t == SubSeq(d.body, 2, n)
           b == <<0>> \o t
           e == [d EXCEPT !.body = b, !.dst = d.src, !.src = HostAddr]
           c == EchoReplySum(Sum(d))
           r == EchoReply(d)
<1>1. /\ d \in Datagram /\ n \in Nat /\ n \in Int /\ 4 <= n
      /\ \A i \in 1..n : Payload(d)[i] = d.body[i] /\ d.body[i] \in Bytes
      /\ Payload(d) \in Seq(Bytes) /\ Len(Payload(d)) = n /\ Total(Pairs(Payload(d))) \in Nat
  BY HeaderTotal, PayloadIs DEF Fits
<1>2. t \in Seq(Bytes) /\ Len(t) = n - 1 /\ \A i \in 1..(n - 1) : t[i] = d.body[i + 1]
  <2>1. \A i \in 2..n : d.body[i] \in Bytes
    BY <1>1
  <2> HIDE DEF n
  <2>2. /\ t \in Seq(Bytes) /\ Len(t) = (IF 2 <= n THEN n - 2 + 1 ELSE 0)
        /\ \A i \in 1..(n - 2 + 1) : t[i] = d.body[2 + i - 1]
    BY <1>1, <2>1, SubSeqProperties
  <2> HIDE DEF t
  <2>3. n - 2 + 1 = n - 1 /\ 2 <= n
    BY <1>1
  <2>4. ASSUME NEW i \in 1..(n - 1) PROVE t[i] = d.body[i + 1]
    <3>1. 2 + i - 1 = i + 1
      OBVIOUS
    <3> QED
      BY <2>2, <2>3, <3>1
  <2> QED
    BY <2>2, <2>3, <2>4
<1> HIDE DEF n, t
<1>3. b \in Seq(Bytes) /\ Len(b) = n /\ b[1] = 0 /\ \A i \in 2..n : b[i] = d.body[i]
  <2>1. <<0>> \in Seq(Bytes) /\ Len(<<0>>) = 1 /\ <<0>>[1] = 0
    BY ByteWord DEF Bytes
  <2>2. b \in Seq(Bytes) /\ Len(b) = 1 + (n - 1)
        /\ \A i \in 1..(1 + (n - 1)) : b[i] = IF i <= 1 THEN <<0>>[i] ELSE t[i - 1]
    BY <1>2, <2>1, ConcatProperties
  <2> HIDE DEF b
  <2>3. ASSUME NEW i \in 2..n PROVE b[i] = d.body[i]
    <3>1. b[i] = t[i - 1] /\ i - 1 \in 1..(n - 1) /\ (i - 1) + 1 = i
      BY <1>1, <2>2
    <3> QED
      BY <1>2, <3>1
  <2> QED
    BY <1>1, <2>1, <2>2, <2>3
<1> HIDE DEF b
<1>4. HostAddr \in Words /\ d.src \in Words
  BY <1>1, InputAssumption DEF Datagram
<1>5. /\ e \in Datagram /\ e.body = b /\ e.len = n /\ e.proto = d.proto /\ e.id = d.id
      /\ e.ipsum = d.ipsum /\ e.src = HostAddr /\ e.dst = d.src
  BY <1>1, <1>3, <1>4 DEF Datagram, n
<1>6. r = WithSum(e, c)
  BY DEF EchoReply, n, b, t
<1> HIDE DEF e, r
<1>7. Fits(e) /\ Sum(e) = Sum(d)
  <2>1. b[3] = d.body[3] /\ b[4] = d.body[4]
    BY <1>1, <1>3
  <2> QED
    BY <1>1, <1>3, <1>5, <2>1 DEF Fits, Sum
<1>8. Sum(d) \in Words /\ Sum(d) \in Int
  <2>1. 0 \in Words
    BY ByteWord DEF Words
  <2>2. Sum(e) \in Words
    BY <1>7, <2>1, WithSumIs
  <2> QED
    BY <1>7, <2>2, WordsAreNumbers
<1>9. c \in Words /\ c \in Int /\ c \in {Sum(d) + Echo * Byte, Sum(d) + Echo * Byte - (Word - 1)}
  BY <1>8, EchoReplyAdjusts, WordsAreNumbers
<1> HIDE DEF c
<1>10. /\ Fits(r) /\ r.len = n /\ r.proto = d.proto /\ HeaderWords(r) = HeaderWords(e)
       /\ Len(r.body) = n /\ \A i \in 1..n : i # 3 /\ i # 4 => r.body[i] = b[i]
       /\ Total(Pairs(Payload(r))) = Total(Pairs(Payload(e))) - Sum(d) + c
  BY <1>3, <1>5, <1>6, <1>7, <1>9, WithSumIs
<1>11. \A i \in 5..n : r.body[i] = d.body[i]
  <2>1. \A i \in 5..n : i \in 1..n /\ i \in 2..n /\ i # 3 /\ i # 4
    BY <1>1
  <2> QED
    BY <1>3, <1>10, <2>1
<1>12. Total(HeaderWords(e)) = Total(HeaderWords(d))
  <2>1. /\ Total(HeaderWords(e)) = e.len + e.id + e.proto + e.ipsum + e.src + e.dst
        /\ e.len \in Nat /\ e.id \in Nat /\ e.proto \in Nat /\ e.ipsum \in Nat /\ e.src \in Nat /\ e.dst \in Nat
    BY <1>5, HeaderTotal
  <2>2. Total(HeaderWords(d)) = d.len + d.id + d.proto + d.ipsum + d.src + d.dst
    BY <1>1, HeaderTotal
  <2> QED
    BY <1>5, <2>1, <2>2 DEF n
<1>13. Total(Pairs(Payload(e))) - Total(Pairs(Payload(d))) = (0 - Echo) * Byte
       /\ Total(Pairs(Payload(e))) \in Nat
  <2> DEFINE p == Payload(d)
             q == Payload(e)
  <2>1. /\ q \in Seq(Bytes) /\ Len(q) = n /\ Total(Pairs(q)) \in Nat /\ \A i \in 1..n : q[i] = b[i]
    BY <1>5, <1>7, PayloadIs
  <2>2. p \in Seq(Bytes) /\ Len(p) = n /\ \A i \in 1..n : p[i] = d.body[i]
    BY <1>1
  <2>3. 1 \in 1..n /\ \A i \in 1..n : i # 1 => i \in 2..n
    BY <1>1
  <2> HIDE DEF p, q
  <2>4. q[1] = 0 /\ p[1] = Echo
    BY <1>3, <2>1, <2>2, <2>3
  <2>5. \A i \in 1..Len(p) : i # 1 => q[i] = p[i]
    BY <1>3, <2>1, <2>2, <2>3
  <2>6. PICK j \in 1..Len(p) : j = 1
    BY <2>2, <2>3
  <2>7. \A i \in 1..Len(p) : i # j => q[i] = p[i]
    BY <2>5, <2>6
  <2>8. Total(Pairs(q)) - Total(Pairs(p)) = (q[j] - p[j]) * Byte
    BY <2>1, <2>2, <2>6, <2>7, PairsChange
  <2> QED
    BY <2>1, <2>4, <2>6, <2>8 DEF p, q
<1>14. Same(Total(Pairs(Payload(r))), Total(Pairs(Payload(d))))
  <2> DEFINE x == Total(Pairs(Payload(d)))
             y == Total(Pairs(Payload(e)))
             z == Total(Pairs(Payload(r)))
             f == Echo * Byte
             g == Sum(d)
  <2>1. (0 - Echo) * Byte = -f /\ f \in Int
    BY ByteWord
  <2>2. x \in Int /\ y \in Int /\ g \in Int /\ c \in Int /\ y - x = -f /\ z = y - g + c
        /\ c \in {g + f, g + f - (Word - 1)}
    BY <1>1, <1>8, <1>9, <1>10, <1>13, <2>1
  <2> HIDE DEF x, y, z, f, g
  <2>3. z \in {x, x - (Word - 1)} /\ z \in Int
    BY <2>1, <2>2, ByteWord
  <2>4. Same(z, x)
    BY <2>2, <2>3, SameCarry
  <2> QED
    BY <2>4 DEF x, z
<1> QED
  BY <1>10, <1>11, <1>12, <1>14 DEF r, n

LEMMA TwoBytes ==
    ASSUME NEW a \in Bytes, NEW b \in Bytes
    PROVE  <<a, b>> \in Seq(Bytes) /\ Len(<<a, b>>) = 2 /\ <<a, b>>[1] = a /\ <<a, b>>[2] = b
OBVIOUS

\* Two bytes, an empty checksum, and data.
LEMMA PlainBody ==
    ASSUME NEW h \in {<<Echo, 0>>, <<0, 0>>, Port}, NEW x \in Seq(Bytes)
    PROVE  LET b == h \o <<0, 0>> \o x
           IN  b \in Seq(Bytes) /\ Len(b) = 4 + Len(x) /\ b[3] = 0 /\ b[4] = 0
<1> DEFINE z == <<0, 0>>
           a == h \o z
<1>1. 0 \in Bytes /\ Echo \in Bytes
  BY ByteWord DEF Bytes
<1>2. z \in Seq(Bytes) /\ Len(z) = 2 /\ z[1] = 0 /\ z[2] = 0
  BY <1>1, TwoBytes
<1>3. h \in Seq(Bytes) /\ Len(h) = 2
  <2>1. Port \in [1..2 -> Bytes]
    BY InputAssumption
  <2>2. Port \in Seq(Bytes) /\ Len(Port) = 2
    <3> DEFINE n == 2
    <3>1. n \in Nat /\ Port = [i \in 1..n |-> Port[i]] /\ \A i \in 1..n : Port[i] \in Bytes
      BY <2>1
    <3> HIDE DEF n
    <3>2. Port \in Seq(Bytes) /\ Len(Port) = n
      BY <3>1
    <3> QED
      BY <3>2 DEF n
  <2>3. <<Echo, 0>> \in Seq(Bytes) /\ Len(<<Echo, 0>>) = 2
    BY <1>1, TwoBytes
  <2> QED
    BY <1>2, <2>2, <2>3
<1> HIDE DEF z
<1>4. /\ a \in Seq(Bytes) /\ Len(a) = Len(h) + Len(z)
      /\ \A i \in 1..(Len(h) + Len(z)) : a[i] = IF i <= Len(h) THEN h[i] ELSE z[i - Len(h)]
  BY <1>2, <1>3, ConcatProperties
<1> HIDE DEF a
<1>5. a \in Seq(Bytes) /\ Len(a) = 4 /\ a[3] = 0 /\ a[4] = 0
  BY <1>2, <1>3, <1>4
<1> DEFINE b == a \o x
<1>6. /\ b \in Seq(Bytes) /\ Len(b) = Len(a) + Len(x)
      /\ \A i \in 1..(Len(a) + Len(x)) : b[i] = IF i <= Len(a) THEN a[i] ELSE x[i - Len(a)]
  BY <1>5, ConcatProperties
<1> HIDE DEF b
<1>7. Len(x) \in Nat
  OBVIOUS
<1>8. b[3] = 0 /\ b[4] = 0
  <2>1. 3 \in 1..(Len(a) + Len(x)) /\ 4 \in 1..(Len(a) + Len(x))
    BY <1>5, <1>7
  <2> QED
    BY <1>5, <1>6, <2>1
<1> QED
  BY <1>5, <1>6, <1>8 DEF a, b, z

\* An answer of the application verifies, and says so with a checksum that is
\* not zero.
LEMMA UdpAnswerIs ==
    ASSUME NEW d \in Datagram, NEW x \in Datas, NEW id \in Words
    PROVE  LET r == WithHeader(UdpAnswer(d, x), id)
           IN  r \in Datagram /\ HeaderGood(r) /\ Udp(r) /\ Sum(r) # 0 /\ BodyGood(r)
<1> DEFINE b == Port \o <<0, 0>> \o x
           e == [d EXCEPT !.len = 4 + Len(x), !.proto = UDP, !.src = HostAddr, !.dst = d.src,
                          !.body = b]
           c == NeverZero(Complement(upper_layer_chksum(e)))
           f == WithSum(e, c)
           g == [f EXCEPT !.id = id, !.ipsum = 0]
           r == WithHeader(UdpAnswer(d, x), id)
<1>1. /\ x \in Seq(Bytes) /\ Len(x) \in Nat /\ UDP \in Nat /\ 4 + Len(x) + UDP < Word
      /\ UDP \in Words /\ HostAddr \in Words /\ d.src \in Words /\ 0 \in Words
      /\ Word \in Nat
  BY InputAssumption, ByteWord DEF Datagram, Words
<1>2. 4 + Len(x) \in Words /\ 4 + Len(x) \in Nat
  BY <1>1 DEF Words
<1>3. b \in Seq(Bytes) /\ Len(b) = 4 + Len(x) /\ b[3] = 0 /\ b[4] = 0
  BY <1>1, PlainBody
<1> HIDE DEF b
<1>4. /\ e \in Datagram /\ e.len = 4 + Len(x) /\ e.proto = UDP /\ e.body = b
  BY <1>1, <1>2, <1>3 DEF Datagram
<1>5. r = [g EXCEPT !.ipsum = Complement(uip_ipchksum(g))]
  BY DEF WithHeader, UdpAnswer, b
<1> HIDE DEF e
<1>6. Fits(e) /\ e.len + e.proto < Word
  BY <1>1, <1>2, <1>3, <1>4 DEF Fits
<1>7. /\ UpperTotal(e) \in Nat
      /\ UpperTotal(e) = Total(Pairs(Payload(e))) + e.len + e.proto + e.src + e.dst
      /\ upper_layer_chksum(e) \in 1..(Word - 1) /\ Same(upper_layer_chksum(e), UpperTotal(e))
  BY <1>6, UpperSum
<1>8. c \in 1..(Word - 1) /\ Same(UpperTotal(e) + c, 0)
  BY <1>7, ComplementVerifies
<1> HIDE DEF c
<1>9. c \in Words /\ c \in Nat /\ c # 0
  BY <1>1, <1>8 DEF Words
<1> HIDE DEF f
<1>10. /\ Fits(f) /\ Sum(f) = c /\ f.len = e.len /\ f.proto = e.proto /\ f.src = e.src /\ f.dst = e.dst
       /\ Total(Pairs(Payload(f))) = Total(Pairs(Payload(e))) - Sum(e) + c
  BY <1>6, <1>9, WithSumIs DEF f
<1>11. Sum(e) = 0
  BY <1>3, <1>4, ByteWord DEF Sum
<1>12. g \in Datagram /\ g.ipsum = 0 /\ g.len = f.len /\ g.proto = f.proto /\ g.src = f.src
       /\ g.dst = f.dst /\ g.body = f.body /\ 4 <= g.len
  BY <1>1, <1>10 DEF Fits, Datagram
<1> HIDE DEF g, r
<1>13. r \in Datagram /\ HeaderGood(r)
  BY <1>5, <1>12, HeaderSumVerifies
<1>14. /\ r.len = f.len /\ r.proto = f.proto /\ r.src = f.src /\ r.dst = f.dst /\ r.body = f.body
  BY <1>5, <1>12 DEF Datagram
<1>15. Udp(r) /\ Sum(r) # 0
  BY <1>4, <1>9, <1>10, <1>14 DEF Udp, Sum
<1>16. Fits(r) /\ r.len + r.proto < Word
  BY <1>6, <1>10, <1>13, <1>14 DEF Fits
<1>17. /\ UpperTotal(r) = Total(Pairs(Payload(r))) + r.len + r.proto + r.src + r.dst
       /\ UpperTotal(r) \in Nat /\ UpperTotal(r) # 0
  BY <1>16, UpperSum
<1>18. Payload(r) = Payload(f)
  BY <1>14 DEF Payload
<1>19. UpperTotal(r) = UpperTotal(e) + c
  <2>1. Total(Pairs(Payload(e))) \in Nat /\ e.len \in Nat /\ e.proto \in Nat /\ e.src \in Nat /\ e.dst \in Nat
    BY <1>4, <1>6, PayloadIs, HeaderTotal
  <2> DEFINE t == Total(Pairs(Payload(e)))
             u == Total(Pairs(Payload(r)))
  <2>2. u = t - 0 + c /\ t \in Nat
    BY <1>10, <1>11, <1>18, <2>1
  <2> HIDE DEF t, u
  <2>3. UpperTotal(e) = t + e.len + e.proto + e.src + e.dst
        /\ UpperTotal(r) = u + e.len + e.proto + e.src + e.dst
    BY <1>7, <1>10, <1>14, <1>17 DEF t, u
  <2> QED
    BY <1>9, <2>1, <2>2, <2>3
<1>20. BodyGood(r)
  <2>1. Verifies(UpperTotal(r))
    BY <1>8, <1>17, <1>19, VerifiesSame
  <2> QED
    BY <1>15, <2>1 DEF BodyGood, UpperTotal
<1> QED
  BY <1>13, <1>15, <1>20 DEF r

-----------------------------------------------------------------------------
(* The path of a datagram.                                                 *)

\* What a sender sends.
SentWell(d) == Fits(d) /\ d.proto \in {ICMP, UDP} /\ (Udp(d) => d.len + d.proto < Word) /\ Good(d)
\* What the stack answers to.
Answered(d) ==
    /\ HeaderAccepted(d)
    /\ \/ IsPing(d) /\ buf = EchoReply(d)
       \/ ForApplication(d) /\ handed = DataOf(d) /\ Udp(buf)
InputInv ==
    /\ turn \in {"idle", "wire", "stack", "answered", "silent", "dropped"} /\ ipid \in Words
    /\ turn # "idle" => SentWell(original)
    /\ turn = "wire" => buf = original
    /\ turn \in {"stack", "silent", "dropped"} => buf \in Damaged(original)
    /\ turn = "dropped" => ~(HeaderAccepted(buf) /\ (IsPing(buf) \/ ForApplication(buf)))
    /\ turn = "silent" => HeaderAccepted(buf) /\ ForApplication(buf) /\ handed = DataOf(buf)
    /\ turn = "answered" => \E d \in Damaged(original) : Answered(d)

LEMMA SentIsWell == InputInv /\ Send => SentWell(original')
<1> SUFFICES ASSUME InputInv, Send PROVE SentWell(original')
  OBVIOUS
<1>1. PICK x \in Datas, s \in Senders, t \in Senders \cup {HostAddr}, w \in BOOLEAN,
           p \in {ICMP, UDP}, h \in {<<Echo, 0>>, <<0, 0>>, Port}, pad \in {<<>>, <<0>>} :
          LET plain == [whole |-> w, len |-> 4 + Len(x), id |-> 0, proto |-> p, ipsum |-> 0,
                        src |-> s, dst |-> t, body |-> h \o <<0, 0>> \o x \o pad]
              d == [plain EXCEPT !.ipsum = CHOOSE i \in Words : HeaderGood([plain EXCEPT !.ipsum = i])]
          IN \E c \in Words : Good(WithSum(d, c)) /\ original' = WithSum(d, c)
  BY DEF Send
<1> DEFINE b == h \o <<0, 0>> \o x \o pad
           plain == [whole |-> w, len |-> 4 + Len(x), id |-> 0, proto |-> p, ipsum |-> 0,
                     src |-> s, dst |-> t, body |-> b]
           k == CHOOSE i \in Words : HeaderGood([plain EXCEPT !.ipsum = i])
           d == [plain EXCEPT !.ipsum = k]
<1>2. PICK c \in Words : Good(WithSum(d, c)) /\ original' = WithSum(d, c)
  BY <1>1
<1>3. /\ x \in Seq(Bytes) /\ Len(x) \in Nat /\ UDP \in Nat /\ 4 + Len(x) + UDP < Word
      /\ p \in Words /\ s \in Words /\ t \in Words /\ 0 \in Words /\ Word \in Nat
  BY InputAssumption, ByteWord DEF Words
<1>4. 4 + Len(x) \in Words /\ 4 + Len(x) \in Nat
  BY <1>3 DEF Words
<1>5. b \in Seq(Bytes) /\ Len(b) >= 4 + Len(x)
  <2> DEFINE a == h \o <<0, 0>> \o x
  <2>1. a \in Seq(Bytes) /\ Len(a) = 4 + Len(x)
    BY <1>3, PlainBody
  <2>2. pad \in Seq(Bytes) /\ Len(pad) \in Nat
    <3>1. 0 \in Bytes
      BY ByteWord DEF Bytes
    <3>2. <<>> \in Seq(Bytes) /\ <<0>> \in Seq(Bytes)
      BY <3>1
    <3>3. pad \in Seq(Bytes)
      BY <3>2
    <3> QED
      BY <3>3
  <2> HIDE DEF a
  <2>3. a \o pad \in Seq(Bytes) /\ Len(a \o pad) = Len(a) + Len(pad)
    BY <2>1, <2>2, ConcatProperties
  <2>4. a \o pad \in Seq(Bytes) /\ Len(a \o pad) >= 4 + Len(x)
    BY <1>3, <2>1, <2>2, <2>3
  <2> QED
    BY <2>4 DEF a
<1> HIDE DEF b
<1>6. plain \in Datagram /\ 4 <= plain.len /\ plain.ipsum = 0 /\ plain.len = 4 + Len(x)
      /\ plain.proto = p /\ plain.body = b
  BY <1>3, <1>4, <1>5 DEF Datagram
<1> HIDE DEF plain
<1>7. k \in Words
  <2> DEFINE i == Complement(uip_ipchksum(plain))
  <2>1. HeaderGood([plain EXCEPT !.ipsum = i]) /\ [plain EXCEPT !.ipsum = i] \in Datagram
    BY <1>6, HeaderSumVerifies
  <2>2. i \in Words
    <3> DEFINE n == Total(HeaderWords(plain))
    <3>1. uip_ipchksum(plain) \in 1..(Word - 1) /\ Same(uip_ipchksum(plain), n)
      BY <1>6, HeaderTotal
    <3>2. n \in Int
      BY <1>6, HeaderTotal
    <3> HIDE DEF n
    <3> QED
      BY <3>1, <3>2, ComplementVerifies
  <2> HIDE DEF i
  <2> QED
    BY <2>1, <2>2
<1> HIDE DEF k
<1>8. d \in Datagram /\ d.len = 4 + Len(x) /\ d.proto = p /\ d.body = b
  BY <1>6, <1>7 DEF Datagram
<1> HIDE DEF d
<1>9. Fits(d)
  BY <1>4, <1>5, <1>8 DEF Fits
<1>10. Fits(original') /\ original'.len = 4 + Len(x) /\ original'.proto = p
  BY <1>2, <1>8, <1>9, WithSumIs
<1>11. Good(original')
  BY <1>2
<1> QED
  BY <1>3, <1>10, <1>11 DEF SentWell, Udp

LEMMA InputStarts == InputInit => InputInv
<1>1. 0 \in Words
  BY ByteWord DEF Words
<1> QED
  BY <1>1 DEF InputInit, InputInv

\* What the header checks let through came from its sender but for a byte of
\* its body.
LEMMA AcceptedIntact ==
    ASSUME NEW o, SentWell(o), NEW d \in Damaged(o), HeaderAccepted(d)
    PROVE  /\ Fits(d) /\ HeaderWords(d) = HeaderWords(o) /\ d.len = o.len /\ d.proto = o.proto
           /\ d.src = o.src /\ d.dst = o.dst /\ d.dst = HostAddr /\ Len(d.body) = Len(o.body)
           /\ \E j \in 1..Len(o.body) : \A i \in 1..Len(o.body) : i # j => d.body[i] = o.body[i]
<1>1. Fits(o) /\ HeaderGood(o) /\ uip_ipchksum(d) = Word - 1 /\ d.dst = HostAddr
  BY DEF SentWell, Good, HeaderAccepted
<1>2. PICK j \in 1..Len(o.body) : \E b \in Bytes : d = [o EXCEPT !.body[j] = b]
  BY <1>1, HeaderIntact
<1>3. PICK b \in Bytes : d = [o EXCEPT !.body[j] = b]
  BY <1>2
<1>4. /\ Fits(d) /\ HeaderWords(d) = HeaderWords(o)
      /\ d.len = o.len /\ d.proto = o.proto /\ d.src = o.src /\ d.dst = o.dst
      /\ Len(d.body) = Len(o.body)
      /\ \A i \in 1..Len(o.body) : i # j => d.body[i] = o.body[i]
  BY <1>1, <1>3, ChangedByte
<1> QED
  BY <1>1, <1>4

LEMMA InputKeeps == InputInv /\ [InputNext]_inputVars => InputInv'
<1> SUFFICES ASSUME InputInv, [InputNext]_inputVars PROVE InputInv'
  OBVIOUS
<1>1. NextId \in Words
  <2>1. ipid \in Nat /\ Word \in Nat \ {0}
    BY ByteWord DEF InputInv, Words
  <2>2. (ipid + 1) % Word \in 0..(Word - 1)
    BY <2>1
  <2> QED
    BY <2>2 DEF NextId, Words
<1>2. CASE Send
  <2>1. SentWell(original') /\ turn' = "wire" /\ buf' = original' /\ ipid' = ipid
    BY <1>2, SentIsWell DEF Send
  <2> QED
    BY <2>1 DEF InputInv
<1>3. CASE Arrive
  BY <1>3 DEF InputInv, Arrive
<1>4. CASE Ping
  <2>1. PICK d \in Damaged(original) : d = buf
    BY <1>4 DEF InputInv, Ping
  <2>2. Answered(d)' /\ original' = original /\ turn' = "answered" /\ ipid' = ipid
    BY <1>4, <2>1 DEF Ping, Answered
  <2> QED
    BY <1>4, <2>1, <2>2 DEF InputInv, Ping
<1>5. CASE UdpFound
  <2>1. PICK d \in Damaged(original) : d = buf
    BY <1>5 DEF InputInv, UdpFound
  <2>2. HeaderAccepted(d) /\ ForApplication(d) /\ handed' = DataOf(d) /\ original' = original
        /\ SentWell(original)
    BY <1>5, <2>1 DEF UdpFound, InputInv
  <2>3. CASE turn' = "silent" /\ UNCHANGED <<buf, ipid>>
    BY <1>5, <2>1, <2>2, <2>3 DEF InputInv, UdpFound
  <2>4. CASE \E x \in Datas : buf' = WithHeader(UdpAnswer(buf, x), NextId)
                 /\ ipid' = NextId /\ turn' = "answered"
    <3>1. PICK x \in Datas : buf' = WithHeader(UdpAnswer(d, x), NextId)
      BY <2>1, <2>4
    <3>2. d \in Datagram
      BY <2>2, AcceptedIntact DEF Fits
    <3>3. Udp(buf')
      BY <1>1, <3>1, <3>2, UdpAnswerIs
    <3>4. Answered(d)'
      BY <2>2, <3>3 DEF Answered
    <3> QED
      BY <1>1, <2>2, <2>4, <3>4 DEF InputInv
  <2> QED
    BY <1>5, <2>3, <2>4 DEF UdpFound
<1>6. CASE Drop
  BY <1>6 DEF InputInv, Drop
<1>7. CASE Done
  BY <1>7 DEF InputInv, Done
<1>8. CASE UNCHANGED inputVars
  BY <1>8 DEF InputInv, inputVars, Answered
<1> QED
  BY <1>2, <1>3, <1>4, <1>5, <1>6, <1>7, <1>8 DEF InputNext

\* Of a datagram under way it is known what was sent, that at most a byte of it
\* changed, and what was done with it.
THEOREM InputInductive == InputSpec => []InputInv
BY InputStarts, InputKeeps, PTL DEF InputSpec

-----------------------------------------------------------------------------

\* What a receiver may ask of a UDP sum and what the code tests are the same.
LEMMA UdpBodySame ==
    ASSUME NEW d, Fits(d), d.len + d.proto < Word, Udp(d)
    PROVE  BodyGood(d) <=> upper_layer_chksum(d) = Word - 1
<1>1. /\ UpperTotal(d) \in Nat /\ UpperTotal(d) # 0
      /\ upper_layer_chksum(d) = Word - 1 <=> Same(UpperTotal(d), 0)
  BY UpperSum
<1>2. BodyGood(d) <=> Verifies(UpperTotal(d))
  BY DEF BodyGood, UpperTotal
<1> QED
  BY <1>1, <1>2, VerifiesSame

\* A correct datagram for this host is never dropped for its checksums: what a
\* receiver may ask of them, and not more, is what uip_process tests
\* (uip.c:955-963, 1107-1112).
THEOREM GoodIsAccepted == InputSpec => []GoodAccepted
<1>1. ASSUME InputInv PROVE GoodAccepted
  <2>1. SUFFICES ASSUME turn = "dropped", buf = original, original.whole, original.dst = HostAddr
                 PROVE  IF Udp(original) THEN Head2(original) # Port ELSE original.body[1] # Echo
    BY DEF GoodAccepted
  <2>2. SentWell(original) /\ ~(HeaderAccepted(original) /\ (IsPing(original) \/ ForApplication(original)))
    BY <1>1, <2>1 DEF InputInv
  <2>3. Fits(original) /\ HeaderGood(original) /\ (NoSum(original) \/ BodyGood(original))
        /\ original.proto \in {ICMP, UDP} /\ (Udp(original) => original.len + original.proto < Word)
    BY <2>2 DEF SentWell, Good
  <2>4. HeaderAccepted(original)
    <3>1. uip_ipchksum(original) = Word - 1 <=> Same(Total(HeaderWords(original)), 0)
      BY <2>3, HeaderTotal DEF Fits
    <3>2. Total(HeaderWords(original)) \in Nat
      BY <2>3, HeaderTotal DEF Fits
    <3>3. Same(Total(HeaderWords(original)), 0)
      BY <2>3, <3>2, VerifiesSame DEF HeaderGood
    <3> QED
      BY <2>1, <2>3, <3>1, <3>3 DEF HeaderAccepted, Fits
  <2>5. ASSUME Udp(original) PROVE UdpSumAccepted(original)
    BY <2>3, <2>5, UdpBodySame DEF UdpSumAccepted, NoSum
  <2> QED
    BY <2>2, <2>3, <2>4, <2>5 DEF IsPing, ForApplication, Udp
<1> QED
  BY <1>1, InputInductive, PTL

\* One changed byte is in the sum that fails then, or in the sum itself, or in
\* padding.
LEMMA ApplicationIntact ==
    ASSUME NEW o, SentWell(o), NEW d \in Damaged(o), HeaderAccepted(d), ForApplication(d), ~NoSum(o)
    PROVE  DataOf(d) = DataOf(o)
<1>1. /\ Fits(o) /\ Udp(o) /\ Sum(o) # 0 /\ BodyGood(o) /\ o.len + o.proto < Word
      /\ Fits(d) /\ Udp(d) /\ d.len = o.len /\ d.proto = o.proto /\ d.src = o.src /\ d.dst = o.dst
      /\ Len(d.body) = Len(o.body) /\ UdpSumAccepted(d)
  BY AcceptedIntact DEF SentWell, Good, NoSum, ForApplication, Udp
<1>2. PICK j \in 1..Len(o.body) : \A i \in 1..Len(o.body) : i # j => d.body[i] = o.body[i]
  BY AcceptedIntact
<1>3. o.len \in Nat /\ 4 <= o.len /\ o.len <= Len(o.body) /\ Len(o.body) \in Nat
  BY <1>1, HeaderTotal DEF Fits, Datagram
<1>4. CASE Sum(d) = 0
  <2>1. j \in {3, 4}
    <3>1. ASSUME j \notin {3, 4} PROVE FALSE
      <4>1. d.body[3] = o.body[3] /\ d.body[4] = o.body[4]
        BY <1>2, <1>3, <3>1
      <4>2. Sum(d) = Sum(o)
        BY <4>1 DEF Sum
      <4> QED
        BY <1>1, <1>4, <4>2
    <3> QED
      BY <3>1
  <2>2. \A i \in 5..o.len : d.body[i] = o.body[i]
    BY <1>2, <1>3, <2>1
  <2> QED
    BY <1>1, <2>2, DataSame
<1>5. CASE upper_layer_chksum(d) = Word - 1
  <2> DEFINE x == Total(Pairs(Payload(d)))
             y == Total(Pairs(Payload(o)))
             l == o.len
             q == o.proto
             a == o.src
             b == o.dst
             r == l + q + a + b
  <2>1. l \in Nat /\ q \in Nat /\ a \in Nat /\ b \in Nat
    BY <1>1, HeaderTotal DEF Fits
  <2>2. x \in Nat /\ y \in Nat
    BY <1>1, PayloadIs
  <2>3. UpperTotal(o) = y + l + q + a + b /\ Same(UpperTotal(o), 0)
    <3>1. upper_layer_chksum(o) = Word - 1
      BY <1>1, UdpBodySame
    <3> QED
      BY <1>1, <3>1, UpperSum
  <2>4. UpperTotal(d) = x + l + q + a + b /\ Same(UpperTotal(d), 0)
    BY <1>1, <1>5, UpperSum
  <2> HIDE DEF x, y, l, q, a, b
  <2>5. UpperTotal(o) = y + r /\ UpperTotal(d) = x + r /\ r \in Nat
    BY <2>1, <2>2, <2>3, <2>4
  <2> HIDE DEF r
  <2>6. Same(x, y)
    <3>1. Same(x + r, 0) /\ Same(y + r, 0) /\ x + r \in Int /\ y + r \in Int /\ -r \in Int
      BY <2>2, <2>3, <2>4, <2>5
    <3>2. Same(x + r, y + r)
      BY <3>1, SameBack, SameTransitive
    <3>3. Same((x + r) + (-r), (y + r) + (-r))
      BY <3>1, <3>2, SameSelf, SameAdds
    <3>4. (x + r) + (-r) = x /\ (y + r) + (-r) = y
      BY <2>2, <2>5
    <3> QED
      BY <3>3, <3>4
  <2>7. Same(Total(Pairs(Payload(d))), Total(Pairs(Payload(o))))
    BY <2>6 DEF x, y
  <2>8. \A i \in 1..o.len : d.body[i] = o.body[i]
    BY <1>1, <1>2, <2>7, PayloadIntact
  <2>9. \A i \in 5..o.len : i \in 1..o.len
    BY <1>3
  <2> QED
    BY <1>1, <2>8, <2>9, DataSame
<1> QED
  BY <1>1, <1>4, <1>5 DEF UdpSumAccepted

\* The application is handed what was sent, unless the sender left out the
\* checksum: no byte changed on the way gets past both sums, not even one that
\* makes the checksum the zero that says there is none (uip.c:955-963,
\* 1107-1112).
THEOREM HandedAsSent == InputSpec => []HandedIntact
<1>1. ASSUME InputInv PROVE HandedIntact
  <2>1. SUFFICES ASSUME turn \in {"answered", "silent"}, Udp(original), ~NoSum(original)
                 PROVE  handed = DataOf(original)
    BY DEF HandedIntact
  <2>2. SentWell(original)
    BY <1>1, <2>1 DEF InputInv
  <2>3. PICK d \in Damaged(original) :
           HeaderAccepted(d) /\ (IsPing(d) \/ (ForApplication(d) /\ handed = DataOf(d)))
    BY <1>1, <2>1 DEF InputInv, Answered
  <2>4. ForApplication(d) /\ handed = DataOf(d)
    <3>1. d.proto = UDP
      BY <2>1, <2>2, <2>3, AcceptedIntact DEF Udp
    <3> QED
      BY <2>3, <3>1, InputAssumption DEF IsPing
  <2> QED
    BY <2>1, <2>2, <2>3, <2>4, ApplicationIntact
<1> QED
  BY <1>1, InputInductive, PTL

\* The checksum of a ping is not looked at, and still a reply that verifies at
\* the one who sent the ping brings back its data: the reply's sum is the
\* ping's, damage included (uip.c:995-1018).
THEOREM EchoVerified == InputSpec => []EchoEndToEnd
<1>1. ASSUME InputInv PROVE EchoEndToEnd
  <2>1. SUFFICES ASSUME turn = "answered", ~Udp(buf), BodyGood(buf)
                 PROVE  DataOf(buf) = DataOf(original)
    BY DEF EchoEndToEnd
  <2> DEFINE o == original
  <2>2. SentWell(o)
    BY <1>1, <2>1 DEF InputInv
  <2>3. PICK d \in Damaged(o) : HeaderAccepted(d) /\ IsPing(d) /\ buf = EchoReply(d)
    BY <1>1, <2>1 DEF InputInv, Answered
  <2>4. /\ Fits(d) /\ d.len = o.len /\ d.proto = o.proto /\ d.dst = HostAddr
        /\ Len(d.body) = Len(o.body) /\ d.proto = ICMP /\ d.body[1] = Echo
        /\ Fits(o) /\ (NoSum(o) \/ BodyGood(o))
    BY <2>2, <2>3, AcceptedIntact DEF IsPing, SentWell, Good
  <2>5. PICK j \in 1..Len(o.body) : \A i \in 1..Len(o.body) : i # j => d.body[i] = o.body[i]
    BY <2>2, <2>3, AcceptedIntact
  <2>6. ~Udp(o) /\ BodyGood(o)
    BY <2>4, InputAssumption DEF Udp, NoSum
  <2>7. /\ Fits(buf) /\ buf.len = d.len /\ \A i \in 5..d.len : buf.body[i] = d.body[i]
        /\ Same(Total(Pairs(Payload(buf))), Total(Pairs(Payload(d))))
    BY <2>3, <2>4, EchoReplyIs
  <2> HIDE DEF o
  <2>8. Same(Total(Pairs(Payload(d))), Total(Pairs(Payload(o))))
    <3> DEFINE x == Total(Pairs(Payload(buf)))
               y == Total(Pairs(Payload(d)))
               z == Total(Pairs(Payload(o)))
    <3>1. x \in Nat /\ y \in Nat /\ z \in Nat
      BY <2>4, <2>7, PayloadIs
    <3>2. Verifies(x) /\ Verifies(z)
      BY <2>1, <2>6 DEF BodyGood
    <3>3. Same(x, y)
      BY <2>7
    <3> HIDE DEF x, y, z
    <3>4. Same(x, 0) /\ Same(z, 0)
      BY <3>1, <3>2, VerifiesSame
    <3>5. Same(0, z) /\ Same(y, x)
      BY <3>1, <3>3, <3>4, SameBack
    <3>6. Same(x, z)
      BY <3>1, <3>4, <3>5, SameTransitive
    <3>7. Same(y, z)
      BY <3>1, <3>5, <3>6, SameTransitive
    <3> QED
      BY <3>7 DEF y, z
  <2>9. \A i \in 1..o.len : d.body[i] = o.body[i]
    BY <2>4, <2>5, <2>8, PayloadIntact
  <2>10. \A i \in 5..o.len : i \in 1..o.len
    BY <2>4, HeaderTotal DEF Fits
  <2>11. \A i \in 5..o.len : buf.body[i] = o.body[i]
    BY <2>4, <2>7, <2>9, <2>10
  <2> QED
    BY <2>4, <2>7, <2>11, DataSame DEF o
<1> QED
  BY <1>1, InputInductive, PTL

\* A correct ping has a correct reply, or one of zeros.
LEMMA ReplyVerifies ==
    ASSUME NEW d, Fits(d), d.dst = HostAddr, IsPing(d), Good(d)
    PROVE  LET r == EchoReply(d)
           IN  /\ HeaderGood(r) /\ ~NoSum(r)
               /\ BodyGood(r) \/ (~Udp(r) /\ \A i \in DOMAIN r.body : r.body[i] = 0)
<1> DEFINE r == EchoReply(d)
           p == Payload(r)
<1>1. /\ Fits(r) /\ r.len = d.len /\ r.proto = d.proto /\ Len(r.body) = d.len
      /\ Total(HeaderWords(r)) = Total(HeaderWords(d))
      /\ Same(Total(Pairs(p)), Total(Pairs(Payload(d))))
  BY EchoReplyIs DEF IsPing
<1>2. ~Udp(r) /\ ~Udp(d) /\ HeaderGood(d) /\ BodyGood(d)
  BY <1>1, InputAssumption DEF IsPing, Udp, Good, NoSum
<1> HIDE DEF r
<1>3. HeaderGood(r) /\ ~NoSum(r)
  BY <1>1, <1>2 DEF HeaderGood, NoSum
<1>4. /\ p \in Seq(Bytes) /\ Len(p) = r.len /\ \A i \in 1..r.len : p[i] = r.body[i]
      /\ Total(Pairs(p)) \in Nat
  BY <1>1, PayloadIs
<1>5. Same(Total(Pairs(p)), 0)
  <2> DEFINE x == Total(Pairs(p))
             y == Total(Pairs(Payload(d)))
  <2>1. x \in Nat /\ y \in Nat /\ Same(x, y)
    BY <1>1, <1>4, PayloadIs
  <2>2. Verifies(y)
    BY <1>2 DEF BodyGood
  <2> HIDE DEF x, y
  <2>3. Same(x, 0)
    BY <2>1, <2>2, VerifiesSame, SameTransitive
  <2> QED
    BY <2>3 DEF x
<1>6. CASE Total(Pairs(p)) # 0
  <2>1. Verifies(Total(Pairs(p)))
    BY <1>4, <1>5, <1>6, VerifiesSame
  <2> QED
    BY <1>2, <1>3, <2>1 DEF BodyGood, r
<1>7. CASE Total(Pairs(p)) = 0
  <2>1. ASSUME NEW j \in 1..r.len PROVE r.body[j] = 0
    <3> DEFINE n == Len(p)
               u == Pairs(p)
    <3>1. n \in Nat /\ j \in 1..n /\ \A i \in 1..n : p[i] \in Nat
      BY <1>4, WordsAreNumbers
    <3>2. PICK m \in 1..((n + 1) \div 2) : j \in {2 * m - 1, 2 * m}
      <4> HIDE DEF n
      <4> QED
        BY <3>1, Halves
    <3>3. /\ Len(u) = (n + 1) \div 2 /\ u[m] <= Total(u)
          /\ u[m] = p[2 * m - 1] * Byte + (IF 2 * m <= n THEN p[2 * m] ELSE 0)
          /\ 2 * m - 1 \in 1..n /\ (2 * m <= n => 2 * m \in 1..n)
      <4>1. Len(u) = (n + 1) \div 2 /\ u[m] <= Total(u)
            /\ u[m] = p[2 * m - 1] * Byte + (IF 2 * m <= n THEN p[2 * m] ELSE 0)
        BY <1>4, <3>2, PairsAreWords
      <4>2. 2 * m - 1 \in 1..n /\ (2 * m <= n => 2 * m \in 1..n)
        <5> HIDE DEF n
        <5> QED
          BY <3>1, <3>2, Halves
      <4> QED
        BY <4>1, <4>2
    <3> DEFINE hi == p[2 * m - 1]
               lo == IF 2 * m <= n THEN p[2 * m] ELSE 0
    <3>4. hi \in Nat /\ lo \in Nat /\ hi * Byte + lo <= 0
      <4> HIDE DEF n, u
      <4> QED
        BY <1>7, <3>1, <3>3 DEF u
    <3>5. hi = 0 /\ lo = 0
      <4> HIDE DEF hi, lo
      <4>1. hi * Byte >= 0 /\ (hi # 0 => Byte * hi >= Byte) /\ hi * Byte = Byte * hi
        BY <3>4, ByteWord
      <4>2. hi * Byte \in Nat
        BY <3>4, ByteWord
      <4> QED
        BY <3>4, <4>1, <4>2, ByteWord
    <3>6. p[j] = 0
      <4> HIDE DEF n
      <4> QED
        BY <3>1, <3>2, <3>5
    <3> QED
      BY <1>4, <3>6
  <2>2. DOMAIN r.body = 1..r.len
    <3>1. r.body \in Seq(Bytes)
      BY <1>1 DEF Fits, Datagram
    <3> QED
      BY <1>1, <3>1
  <2> QED
    BY <1>2, <1>3, <2>1, <2>2 DEF r
<1> QED
  BY <1>6, <1>7

\* The answer to a correct datagram verifies at its receiver: the adjusted sum
\* of a reply, and the computed ones of an answer of the application, which is
\* never without a sum; a reply of zeros only is the exception (uip.c:1012-1018,
\* 1177-1182, 1864-1880).
THEOREM AnswersVerify == InputSpec => AnswerVerifies
<1> DEFINE Verified(r) ==
             /\ HeaderGood(r) /\ ~NoSum(r)
             /\ BodyGood(r) \/ (~Udp(r) /\ \A i \in DOMAIN r.body : r.body[i] = 0)
<1>1. ASSUME InputInv, [InputNext]_inputVars, turn = "stack", turn' = "answered", Good(buf)
      PROVE  Verified(buf')
  <2>1. SentWell(original) /\ buf \in Damaged(original)
    BY <1>1 DEF InputInv
  <2>2. CASE Ping
    <3>1. HeaderAccepted(buf) /\ IsPing(buf) /\ buf' = EchoReply(buf)
      BY <2>2 DEF Ping
    <3>2. Fits(buf) /\ buf.dst = HostAddr
      BY <2>1, <3>1, AcceptedIntact
    <3> QED
      BY <1>1, <3>1, <3>2, ReplyVerifies
  <2>3. CASE UdpFound
    <3>1. PICK x \in Datas : buf' = WithHeader(UdpAnswer(buf, x), NextId)
      BY <1>1, <2>3 DEF UdpFound
    <3>2. buf \in Datagram
      BY <2>1, <2>3, AcceptedIntact DEF UdpFound, Fits
    <3>3. NextId \in Words
      <4>1. ipid \in Nat /\ Word \in Nat \ {0}
        BY <1>1, ByteWord DEF InputInv, Words
      <4>2. (ipid + 1) % Word \in 0..(Word - 1)
        BY <4>1
      <4> QED
        BY <4>2 DEF NextId, Words
    <3>4. HeaderGood(buf') /\ Sum(buf') # 0 /\ BodyGood(buf')
      BY <3>1, <3>2, <3>3, UdpAnswerIs
    <3> QED
      BY <3>4 DEF NoSum
  <2> QED
    BY <1>1, <2>2, <2>3 DEF InputNext, Send, Arrive, Drop, Done, inputVars
<1>2. InputInv /\ [InputNext]_inputVars
         => [turn = "stack" /\ turn' = "answered" /\ Good(buf)
               => /\ HeaderGood(buf') /\ ~NoSum(buf')
                  /\ BodyGood(buf') \/ (~Udp(buf') /\ \A i \in DOMAIN buf'.body : buf'.body[i] = 0)]_inputVars
  BY <1>1
<1> QED
  BY <1>2, InputInductive, PTL DEF InputSpec, AnswerVerifies

=============================================================================
