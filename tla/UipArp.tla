------------------------------- MODULE UipArp -------------------------------
(***************************************************************************)
(* The ARP cache of the board (firmware/uip/uip_arp.c): which MAC address  *)
(* a datagram for an IP address is sent to.                                *)
(*                                                                         *)
(* arptime is a byte that uip_arp_timer counts up every ten seconds and    *)
(* each entry keeps its value from when it was last claimed; the ages the  *)
(* code computes from the two are signed and can be negative.  An IP       *)
(* address is null, or a host address neither half of which is null.       *)
(***************************************************************************)
EXTENDS FiniteSetsExt

CONSTANTS
    ARPTAB_SIZE,   \* UIP_ARPTAB_SIZE
    MAXAGE,        \* UIP_ARP_MAXAGE, in calls of uip_arp_timer
    TimeMod,       \* range of the u8_t arptime
    Ip,            \* addresses of hosts
    OnNet,         \* those that uip_netmask finds on our network
    Null,          \* 0.0.0.0: a free entry, a probe, and the router nobody sets
    Broadcast,     \* 255.255.255.255
    Mac, NoMac     \* MAC addresses, the one of a table never written

ASSUME UipArpAssumption ==
    /\ ARPTAB_SIZE \in Nat \ {0}
    /\ TimeMod \in Nat \ {0} /\ MAXAGE \in 1..(TimeMod - 1)
    /\ OnNet \subseteq Ip
    /\ Null \notin Ip /\ Broadcast \notin Ip /\ Null # Broadcast
    /\ NoMac \notin Mac /\ Broadcast \notin Mac

VARIABLES
    arp_table,     \* entries [ipaddr, ethaddr, time]
    arptime,
    sent           \* the frame the last call left in uip_buf

VARIABLES
    claim,         \* the MAC address each host claimed last
    sinceStamp     \* calls of the timer since each entry was written, up to TimeMod

vars == <<arp_table, arptime, sent, claim, sinceStamp>>

Slot == 0..(ARPTAB_SIZE - 1)
Nothing == [kind |-> "none"]

Init ==
    /\ arp_table = [s \in Slot |-> [ipaddr |-> Null, ethaddr |-> NoMac, time |-> 0]]
    /\ arptime = 0
    /\ sent = Nothing
    /\ claim = [a \in Ip |-> NoMac]
    /\ sinceStamp = [s \in Slot |-> 0]

Free(s) == arp_table[s].ipaddr = Null
Holds(a) == {s \in Slot : arp_table[s].ipaddr = a}

\* What the code takes for the age of an entry.
Age(s) == arptime - arp_table[s].time

-----------------------------------------------------------------------------
(* uip_arp_timer                                                           *)

NextTime == (arptime + 1) % TimeMod

\* Mutant: an entry as old as the clock is old enough.
Expired_Uninitialised(now, s) == now >= MAXAGE
Expired(now, s) == now - arp_table[s].time >= MAXAGE

uip_arp_timer ==
    /\ arptime' = NextTime
    /\ arp_table' = [s \in Slot |->
            IF ~Free(s) /\ Expired(NextTime, s)
            THEN [arp_table[s] EXCEPT !.ipaddr = Null] ELSE arp_table[s]]
    /\ sinceStamp' = [s \in Slot |-> IF sinceStamp[s] < TimeMod THEN sinceStamp[s] + 1
                                     ELSE sinceStamp[s]]
    /\ sent' = Nothing
    /\ UNCHANGED claim

-----------------------------------------------------------------------------
(* uip_arp_update                                                          *)

\* The first entry of the greatest positive age, else the first entry.
Oldest ==
    IF \A s \in Slot : Age(s) <= 0 THEN 0
    ELSE Min({s \in Slot : \A t \in Slot : Age(t) <= Age(s)})

\* Mutant: the walk for an entry to update is left out.
Victim_NoMatch(a) == IF Holds(Null) # {} THEN Min(Holds(Null)) ELSE Oldest
\* The entry to write: the one of this address, a free one, the oldest.  The
\* null address matches no entry in use.
Victim(a) ==
    IF a # Null /\ Holds(a) # {} THEN Min(Holds(a))
    ELSE IF Holds(Null) # {} THEN Min(Holds(Null))
    ELSE Oldest

\* Mutant: an entry found is only stamped.
NewMac_Kept(a, m) == IF a # Null /\ Holds(a) # {} THEN arp_table[Min(Holds(a))].ethaddr ELSE m
NewMac(a, m) == m

uip_arp_update(a, m) ==
    /\ arp_table' = [arp_table EXCEPT ![Victim(a)] =
            [ipaddr |-> a, ethaddr |-> NewMac(a, m), time |-> arptime]]
    /\ sinceStamp' = [sinceStamp EXCEPT ![Victim(a)] = 0]
    /\ claim' = IF a \in Ip THEN [claim EXCEPT ![a] = m] ELSE claim

-----------------------------------------------------------------------------
(* uip_arp_arpin and uip_arp_out                                           *)

\* A request or a reply that host a at m sends us; a probe names no host.
uip_arp_arpin(opcode, a, m) ==
    /\ uip_arp_update(a, m)
    /\ sent' = IF opcode = "request" THEN [kind |-> "reply", mac |-> m] ELSE Nothing
    /\ UNCHANGED arptime

\* Too short, of another kind, or not for us.
ArpIgnored ==
    /\ sent' = Nothing
    /\ UNCHANGED <<arp_table, arptime, claim, sinceStamp>>

NextHop(dest) == IF dest \in OnNet THEN dest ELSE Null

Frame(dest, m) == [kind |-> "IP", dest |-> dest, mac |-> m]

\* The IP datagram in uip_buf, or instead of it the question who dest is.
uip_arp_out(dest) ==
    /\ sent' = IF dest = Broadcast THEN Frame(dest, Broadcast)
               ELSE IF Holds(NextHop(dest)) # {}
               THEN Frame(dest, arp_table[Min(Holds(NextHop(dest)))].ethaddr)
               ELSE [kind |-> "request", dest |-> NextHop(dest)]
    /\ UNCHANGED <<arp_table, arptime, claim, sinceStamp>>

Next ==
    \/ uip_arp_timer
    \/ \E opcode \in {"request", "reply"}, a \in Ip \cup {Null}, m \in Mac :
            uip_arp_arpin(opcode, a, m)
    \/ ArpIgnored
    \/ \E dest \in Ip \cup {Broadcast} : uip_arp_out(dest)

Spec == Init /\ [][Next]_vars

-----------------------------------------------------------------------------

\* Every variable keeps its type.
TypeOK ==
    /\ arp_table \in [Slot -> [ipaddr : Ip \cup {Null}, ethaddr : Mac \cup {NoMac},
                               time : 0..(TimeMod - 1)]]
    /\ arptime \in 0..(TimeMod - 1)
    /\ claim \in [Ip -> Mac \cup {NoMac}]
    /\ sinceStamp \in [Slot -> 0..TimeMod]

\* No host has two entries, so the walks that stop at the first match miss
\* nothing (uip_arp.c:164-182, 380-385).
OneEntryPerHost ==
    \A s, t \in Slot : ~Free(s) /\ arp_table[s].ipaddr = arp_table[t].ipaddr => s = t

\* A datagram for a host on our network goes to the MAC address that host
\* claimed last, through every expiry, eviction, probe and re-use of its entry
\* (uip_arp.c:157-218, 376-408).
LastClaimWins ==
    sent.kind = "IP" /\ sent.dest \in OnNet => sent.mac = claim[sent.dest]

\* The cache forgets a host only MAXAGE timer calls after its last claim, or
\* to make room in a full table (uip_arp.c:141-155, 189-211).
FreshKept ==
    [][\A s \in Slot : ~Free(s) /\ arp_table'[s].ipaddr # arp_table[s].ipaddr
        => sinceStamp'[s] >= MAXAGE \/ Holds(Null) = {}]_vars

\* No entry outlives the maximum age: "An UIP_ARP_MAXAGE of 120 corresponds to
\* 20 minutes" (uip/uipopt.h:366).
EntriesExpire == \A s \in Slot : ~Free(s) => sinceStamp[s] <= MAXAGE

\* A full table gives up the oldest entry: "we try to find the oldest entry
\* and throw it away" (uip_arp.c:197).
OldestEvicted ==
    [][\A s, t \in Slot : Holds(Null) = {} /\ arptime' = arptime
            /\ arp_table'[s].ipaddr # arp_table[s].ipaddr
        => sinceStamp[t] <= sinceStamp[s]]_vars

\* What goes out goes to a host in the table: "If no ARP cache entry is found",
\* the packet "is replaced by an ARP request" (uip_arp.c:338-340).
SentToKnown ==
    sent.kind = "IP" /\ sent.dest # Broadcast
        => \E s \in Slot : ~Free(s) /\ arp_table[s].ethaddr = sent.mac

=============================================================================
