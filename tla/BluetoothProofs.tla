-------------------------- MODULE BluetoothProofs --------------------------
(***************************************************************************)
(* The Bluetooth host, for every set of devices, every number of channels  *)
(* and Wii slots, every size of the queues, and however much goes wrong:   *)
(* the ids a HID device keeps name its own channels or none; no Wii slot   *)
(* is held twice or by nobody; and when all is handled, and no packet was  *)
(* lost and no page crossed, the host and the controller agree on which    *)
(* devices are connected.                                                  *)
(*                                                                         *)
(* Good says the first two of a state of the host, with what they need:    *)
(* ids kept are below the next one, so that a new channel is nobody's yet. *)
(* The operators of BtHost are taken one by one, each shown to keep Good   *)
(* and to leave handles alone, or to change that of one device; those that *)
(* go through the channels or the devices are functions of the number done *)
(* so far. For the third, Follows says what _rx has still to tell: the     *)
(* last packet in it about a device tells what the link is, and where      *)
(* there is none the host knows.                                           *)
(***************************************************************************)
EXTENDS Bluetooth, WellFoundedInduction, TLAPS

-----------------------------------------------------------------------------
(* What the host, its queues and the air hold *)

Handles == Dev \union {"none", "paging"}

LinkCommands == {"NAME", "AUTH", "KEY_REPLY", "KEY_NEG_REPLY", "PIN_REPLY"}
PageCommands == {"CREATE", "ACCEPT"}
HostCommands == {"RESET", "READ_BUFFER_SIZE", "READ_BD_ADDR", "WRITE_CLASS", "WRITE_SCAN_ENABLE",
                 "WRITE_AUTH_ENABLE", "INQUIRY"}

Requests == {"query", "led"}
Replied == {"report", "last", "more"}
Answers == {"CONN_RSP", "CONF_REQ", "CONF_RSP", "DISCONN_REQ", "DISCONN_RSP"}

\* What goes out, where the host knows the devices K.
Sent(K) ==
  [t : {"CMD"}, c : HostCommands, dev : {"none"}]
    \union [t : {"CMD"}, c : LinkCommands, dev : Dev]
    \union [t : {"CMD"}, c : PageCommands, dev : K]
    \union [t : {"SIG"}, dev : Dev, handle : Handles, code : {"CONN_REQ"}, scid : Nat, to : Psms]
    \union [t : {"SIG"}, dev : Dev, handle : Handles, code : Answers, scid : Nat, to : Nat]
    \union [t : {"DATA"}, dev : Dev, handle : Handles, scid : Nat, what : Requests]

\* What a device says.
Said ==
  [t : {"SIG"}, dev : Dev, code : {"CONN_RSP", "CONF_REQ", "CONF_RSP", "DISCONN_RSP"}, scid : Nat,
   dcid : Nat, status : {"ok", "refused", "pending"}]
    \union [t : {"SIG"}, dev : Dev, code : {"CONN_REQ"}, scid : Nat, psm : Psms, dcid : Nat]
    \union [t : {"SIG"}, dev : Dev, code : {"DISCONN_REQ"}, scid : Nat]
    \union [t : {"DATA"}, dev : Dev, scid : Nat, what : Replied]

\* What the controller owes, and what it tells of a device.
LinkEvents == {"REMOTE_NAME", "AUTHENTICATION", "LINK_KEY_REQUEST", "PIN_CODE_REQUEST",
               "LINK_KEY_NOTIFICATION"}
Owed(K) ==
  [t : {"COMPLETE"}, c : HostCommands, dev : {"none"}]
    \union [t : {"INQUIRY_DONE"}, dev : {"none"}]
    \union [t : LinkEvents, dev : Dev]
    \union [t : {"PAGE", "ACCEPTING"}, dev : K]

Told(K) ==
  [t : {"COMPLETE"}, c : HostCommands, dev : {"none"}]
    \union [t : {"INQUIRY_DONE"}, dev : {"none"}]
    \union [t : LinkEvents \union {"INQUIRY_RESULT", "CONNECTION_REQUEST", "DISCONNECTION"}, dev : Dev]
    \union [t : {"CONNECTION"}, dev : K, ok : BOOLEAN]

Packets(K) == Told(K) \union Said

HostFields == {"hci", "handle", "seen", "sock", "cid", "tx", "held", "known", "key", "slot", "hid"}
HidFields == {"state", "reconnect", "sdp", "control", "interrupt", "handler", "slot"}
SockFields == {"dev", "psm", "st", "dcid", "q", "got"}

SockOK(k) ==
  \/ k = NoSocket
  \/ /\ DOMAIN k = SockFields
     /\ k.dev \in Dev /\ k.psm \in Psms /\ k.dcid \in Nat /\ k.q \in Seq(Replied)

\* Ids of channels are below next.
HidOK(f, next) ==
  /\ DOMAIN f = HidFields
  /\ f.sdp \in 0..(next - 1) /\ f.handler \in 0..(next - 1)
  /\ f.control \in 0..(next - 1) /\ f.interrupt \in 0..(next - 1)
  /\ f.slot \in Slots \union {NoSlot}

KnownTo(h) == {h.known[i] : i \in 1..Len(h.known)}

HostOK(h) ==
  /\ DOMAIN h = HostFields
  /\ h.handle \in [Dev -> Handles]
  /\ DOMAIN h.sock = Cids
  /\ \A c \in Cids : SockOK(h.sock[c])
  /\ h.cid \in Nat \ {0}
  /\ h.known \in Seq(Dev)
  /\ h.tx \in Seq(Sent(KnownTo(h)))
  /\ h.held \in Said \union {NoPacket}
  /\ DOMAIN h.hid = Dev
  /\ \A d \in Dev : HidOK(h.hid[d], h.cid)
  /\ h.slot \in [Slots -> BOOLEAN]

\* IdsNameOwnChannels of a host.
Own(h, c, d, psm) == Live(h, c) => h.sock[c].dev = d /\ h.sock[c].psm = psm

OwnIds(h) ==
  \A d \in Dev : /\ Own(h, h.hid[d].sdp, d, "sdp") /\ Own(h, h.hid[d].handler, d, "sdp")
                 /\ Own(h, h.hid[d].control, d, "control")
                 /\ Own(h, h.hid[d].interrupt, d, "interrupt")

\* SlotsHeld of a host.
SlotsOK(h) ==
  /\ \A d, e \in Dev : d # e /\ h.hid[d].slot # NoSlot => h.hid[d].slot # h.hid[e].slot
  /\ \A d \in Dev : h.hid[d].slot # NoSlot => h.hid[d].interrupt # 0
  /\ \A i \in Slots : h.slot[i] <=> \E d \in Dev : h.hid[d].slot = i

Good(h) == HostOK(h) /\ OwnIds(h) /\ SlotsOK(h)

\* Of what is queued, that which tells of the link of d.
TellsOf(q, d) == {i \in 1..Len(q) : q[i].t \in {"CONNECTION", "DISCONNECTION"} /\ q[i].dev = d}

\* All of it but the last is past; that tells what the link is, or else the
\* host, where nothing is queued.
Follows(q, d, knows, up) ==
  /\ TellsOf(q, d) = {} => (knows <=> up)
  /\ \A i \in TellsOf(q, d) : (\A j \in TellsOf(q, d) : j <= i) =>
       (up <=> q[i].t = "CONNECTION" /\ q[i].ok)

LinkFollows(d) == Follows(rx, d, host.handle[d] = d, d \in link)

BluetoothInv ==
  /\ Good(host)
  /\ rx \in Seq(Packets(KnownTo(host)))
  /\ link \subseteq Dev
  /\ owed \subseteq Owed(KnownTo(host))
  /\ air \in [Dev -> Seq(Said)]
  /\ lost \in BOOLEAN /\ crossed \in BOOLEAN
  /\ ~lost /\ ~crossed => \A d \in Dev : LinkFollows(d)
-----------------------------------------------------------------------------
(* Steps of the host that leave ids and slots alone *)

\* At most channels are closed, of those h has.
Keeps(h, s) ==
  /\ HostOK(s)
  /\ s.cid = h.cid /\ s.hid = h.hid /\ s.slot = h.slot /\ s.known = h.known
  /\ \A c \in Cids : \/ s.sock[c] = NoSocket
                     \/ /\ h.sock[c] # NoSocket
                        /\ s.sock[c].dev = h.sock[c].dev /\ s.sock[c].psm = h.sock[c].psm

\* None is.
Writes(h, s) == Keeps(h, s) /\ s.sock = h.sock /\ s.handle = h.handle

LEMMA StaysGood ==
  ASSUME NEW h, NEW s, Good(h), HostOK(s), s.hid = h.hid, s.slot = h.slot,
         \A c \in Cids : \/ s.sock[c] = NoSocket
                        \/ /\ h.sock[c] # NoSocket
                           /\ s.sock[c].dev = h.sock[c].dev /\ s.sock[c].psm = h.sock[c].psm
  PROVE  Good(s)
<1>1. \A c, d, psm : Own(h, c, d, psm) => Own(s, c, d, psm)
  BY DEF Own, Live
<1>2. OwnIds(s)
  BY <1>1 DEF Good, OwnIds
<1>3. SlotsOK(s)
  BY DEF Good, SlotsOK
<1>4. QED
  BY <1>2, <1>3 DEF Good

LEMMA KeepsGood ==
  ASSUME NEW h, NEW s, Good(h), Keeps(h, s)
  PROVE  Good(s)
  BY StaysGood DEF Keeps

LEMMA KeepsOn ==
  ASSUME NEW h, NEW s, NEW r, Keeps(h, s), Keeps(s, r)
  PROVE  Keeps(h, r)
  BY DEF Keeps

LEMMA KeepsItself ==
  ASSUME NEW h, HostOK(h)
  PROVE  Writes(h, h)
  BY DEF Writes, Keeps

LEMMA WritesOn ==
  ASSUME NEW h, NEW s, NEW r, Writes(h, s), Writes(s, r)
  PROVE  Writes(h, r)
  BY KeepsOn DEF Writes

LEMMA WriteWrites ==
  ASSUME NEW h, HostOK(h), NEW p \in Sent(KnownTo(h))
  PROVE  Writes(h, Write(h, p))
<1>1. CASE Len(h.tx) < TxSize
  <2> DEFINE s == [h EXCEPT !.tx = Append(@, p)]
  <2>1. /\ DOMAIN s = HostFields /\ s.tx = Append(h.tx, p)
        /\ s.handle = h.handle /\ s.sock = h.sock /\ s.cid = h.cid /\ s.known = h.known
        /\ s.held = h.held /\ s.hid = h.hid /\ s.slot = h.slot
    BY DEF HostOK, HostFields
  <2>2. KnownTo(s) = KnownTo(h)
    BY <2>1 DEF KnownTo
  <2>3. s.tx \in Seq(Sent(KnownTo(s)))
    BY <2>1, <2>2 DEF HostOK
  <2> HIDE DEF s
  <2>4. HostOK(s)
    BY <2>1, <2>3 DEF HostOK
  <2>5. Keeps(h, s)
    BY <2>1, <2>4 DEF Keeps, HostOK
  <2>6. QED
    BY <1>1, <2>1, <2>5 DEF Writes, Write, s
<1>2. CASE ~(Len(h.tx) < TxSize)
  BY <1>2, KeepsItself DEF Write
<1>3. QED
  BY <1>1, <1>2

LEMMA CmdWrites ==
  ASSUME NEW h, HostOK(h), NEW c \in HostCommands
  PROVE  Writes(h, Cmd(h, c))
<1>1. [t |-> "CMD", c |-> c, dev |-> "none"] \in Sent(KnownTo(h))
  BY DEF Sent
<1>2. QED
  BY <1>1, WriteWrites DEF Cmd

LEMMA CmdToWrites ==
  ASSUME NEW h, HostOK(h), NEW d \in Dev,
         NEW c, c \in LinkCommands \/ (c \in PageCommands /\ d \in KnownTo(h))
  PROVE  Writes(h, CmdTo(h, c, d))
<1>1. [t |-> "CMD", c |-> c, dev |-> d] \in Sent(KnownTo(h))
  BY DEF Sent
<1>2. QED
  BY <1>1, WriteWrites DEF CmdTo

LEMMA SignalWrites ==
  ASSUME NEW h, HostOK(h), NEW d \in Dev, NEW code, NEW c \in Nat, NEW x,
         (code = "CONN_REQ" /\ x \in Psms) \/ (code \in Answers /\ x \in Nat)
  PROVE  Writes(h, Signal(h, d, code, c, x))
<1>1. h.handle[d] \in Handles
  BY DEF HostOK
<1>2. [t |-> "SIG", dev |-> d, handle |-> h.handle[d], code |-> code, scid |-> c, to |-> x]
        \in Sent(KnownTo(h))
  BY <1>1 DEF Sent
<1>3. QED
  BY <1>2, WriteWrites DEF Signal

\* A live channel.
LEMMA LiveSocket ==
  ASSUME NEW h, HostOK(h), NEW c, Live(h, c)
  PROVE  /\ c \in Cids /\ c \in Nat /\ DOMAIN h.sock[c] = SockFields
         /\ h.sock[c].dev \in Dev /\ h.sock[c].psm \in Psms /\ h.sock[c].dcid \in Nat
         /\ h.sock[c].q \in Seq(Replied)
  BY BtHostAssumption DEF HostOK, Live, SockOK, Cids

LEMMA SendWrites ==
  ASSUME NEW h, HostOK(h), NEW c, NEW what \in Requests
  PROVE  Writes(h, Send(h, c, what))
<1>1. CASE Live(h, c)
  <2> DEFINE d == h.sock[c].dev
  <2>1. d \in Dev /\ c \in Nat /\ h.handle[d] \in Handles
    BY <1>1, LiveSocket DEF HostOK
  <2>2. [t |-> "DATA", dev |-> d, handle |-> h.handle[d], scid |-> c, what |-> what]
          \in Sent(KnownTo(h))
    BY <2>1 DEF Sent
  <2>3. QED
    BY <1>1, <2>2, WriteWrites DEF Send
<1>2. CASE ~Live(h, c)
  BY <1>2, KeepsItself DEF Send
<1>3. QED
  BY <1>1, <1>2

\* Channels may change, but stay whose they are.
Edits(h, s) ==
  /\ Keeps(h, s) /\ s.handle = h.handle
  /\ \A c \in Cids : h.sock[c] # NoSocket => s.sock[c] # NoSocket

LEMMA WritesEdits ==
  ASSUME NEW h, NEW s, Writes(h, s)
  PROVE  Edits(h, s)
  BY DEF Writes, Edits

LEMMA EditsOn ==
  ASSUME NEW h, NEW s, NEW r, Edits(h, s), Edits(s, r)
  PROVE  Edits(h, r)
  BY KeepsOn DEF Edits

LEMMA EditsLive ==
  ASSUME NEW h, NEW s, Edits(h, s), NEW c, Live(h, c)
  PROVE  Live(s, c) /\ s.sock[c].dev = h.sock[c].dev /\ s.sock[c].psm = h.sock[c].psm
  BY DEF Edits, Keeps, Live

LEMMA SocksChanged ==
  ASSUME NEW h, NEW s, HostOK(h), DOMAIN s = HostFields,
         s.handle \in [Dev -> Handles], s.cid = h.cid, s.tx = h.tx, s.held = h.held, s.known = h.known,
         s.hid = h.hid, s.slot = h.slot, DOMAIN s.sock = Cids,
         \A c \in Cids : /\ SockOK(s.sock[c])
                         /\ \/ s.sock[c] = NoSocket
                            \/ /\ h.sock[c] # NoSocket
                               /\ s.sock[c].dev = h.sock[c].dev /\ s.sock[c].psm = h.sock[c].psm
  PROVE  Keeps(h, s)
<1>1. KnownTo(s) = KnownTo(h)
  BY DEF KnownTo
<1>2. HostOK(s)
  BY <1>1 DEF HostOK
<1>3. QED
  BY <1>2 DEF Keeps

\* A channel's record may be replaced by another of the same device and psm.
SameSock(k, n) ==
  \/ k = NoSocket /\ n = NoSocket
  \/ k # NoSocket /\ n # NoSocket /\ SockOK(n) /\ n.dev = k.dev /\ n.psm = k.psm

\* Only channel c is another.
SockOnly(h, s, c) ==
  /\ DOMAIN s = HostFields /\ s.handle = h.handle /\ s.cid = h.cid /\ s.tx = h.tx
  /\ s.held = h.held /\ s.known = h.known /\ s.hid = h.hid /\ s.slot = h.slot
  /\ DOMAIN s.sock = Cids /\ \A e \in Cids : e # c => s.sock[e] = h.sock[e]

LEMMA OneSock ==
  ASSUME NEW h, NEW s, HostOK(h), NEW c, SockOnly(h, s, c),
         c \in Cids => SameSock(h.sock[c], s.sock[c])
  PROVE  Edits(h, s)
<1>1. \A e \in Cids : SockOK(h.sock[e]) /\ SockOK(NoSocket)
  BY DEF HostOK, SockOK
<1>2. s.handle \in [Dev -> Handles]
  BY DEF HostOK, SockOnly
<1>3. Keeps(h, s)
  BY <1>1, <1>2, SocksChanged DEF SameSock, SockOnly
<1>4. QED
  BY <1>3 DEF Edits, SameSock, SockOnly

\* An assignment to a field of a closed channel's record changes nothing.
LEMMA NoField ==
  ASSUME NEW v
  PROVE  /\ [NoSocket EXCEPT !.st = v] = NoSocket /\ [NoSocket EXCEPT !.got = v] = NoSocket
         /\ [NoSocket EXCEPT !.dcid = v] = NoSocket /\ [NoSocket EXCEPT !.q = v] = NoSocket
         /\ DOMAIN NoSocket = {"dev"}
  BY DEF NoSocket

\* Each of the fields may be assigned to.
LEMMA StEdits ==
  ASSUME NEW h, HostOK(h), NEW c, NEW v
  PROVE  Edits(h, [h EXCEPT !.sock[c].st = v])
<1> DEFINE s == [h EXCEPT !.sock[c].st = v]
<1>1. SockOnly(h, s, c)
  BY DEF SockOnly, HostOK, HostFields
<1>2. ASSUME c \in Cids PROVE SameSock(h.sock[c], s.sock[c])
  <2>1. s.sock[c] = [h.sock[c] EXCEPT !.st = v] /\ SockOK(h.sock[c])
    BY <1>2 DEF HostOK, HostFields
  <2> HIDE DEF s
  <2>2. CASE h.sock[c] = NoSocket
    BY <2>1, <2>2, NoField DEF SameSock
  <2>3. CASE h.sock[c] # NoSocket
    BY <2>1, <2>3, NoField DEF SameSock, SockOK, SockFields
  <2>4. QED
    BY <2>2, <2>3
<1> HIDE DEF s
<1>3. Edits(h, s)
  BY <1>1, <1>2, OneSock
<1>4. QED
  BY <1>3 DEF s

LEMMA DcidEdits ==
  ASSUME NEW h, HostOK(h), NEW c, NEW v \in Nat
  PROVE  Edits(h, [h EXCEPT !.sock[c].dcid = v])
<1> DEFINE s == [h EXCEPT !.sock[c].dcid = v]
<1>1. SockOnly(h, s, c)
  BY DEF SockOnly, HostOK, HostFields
<1>2. ASSUME c \in Cids PROVE SameSock(h.sock[c], s.sock[c])
  <2>1. s.sock[c] = [h.sock[c] EXCEPT !.dcid = v] /\ SockOK(h.sock[c])
    BY <1>2 DEF HostOK, HostFields
  <2> HIDE DEF s
  <2>2. CASE h.sock[c] = NoSocket
    BY <2>1, <2>2, NoField DEF SameSock
  <2>3. CASE h.sock[c] # NoSocket
    BY <2>1, <2>3, NoField DEF SameSock, SockOK, SockFields
  <2>4. QED
    BY <2>2, <2>3
<1> HIDE DEF s
<1>3. Edits(h, s)
  BY <1>1, <1>2, OneSock
<1>4. QED
  BY <1>3 DEF s

LEMMA QueueEdits ==
  ASSUME NEW h, HostOK(h), NEW c, NEW v \in Seq(Replied)
  PROVE  Edits(h, [h EXCEPT !.sock[c].q = v])
<1> DEFINE s == [h EXCEPT !.sock[c].q = v]
<1>1. SockOnly(h, s, c)
  BY DEF SockOnly, HostOK, HostFields
<1>2. ASSUME c \in Cids PROVE SameSock(h.sock[c], s.sock[c])
  <2>1. s.sock[c] = [h.sock[c] EXCEPT !.q = v] /\ SockOK(h.sock[c])
    BY <1>2 DEF HostOK, HostFields
  <2> HIDE DEF s
  <2>2. CASE h.sock[c] = NoSocket
    BY <2>1, <2>2, NoField DEF SameSock
  <2>3. CASE h.sock[c] # NoSocket
    BY <2>1, <2>3, NoField DEF SameSock, SockOK, SockFields
  <2>4. QED
    BY <2>2, <2>3
<1> HIDE DEF s
<1>3. Edits(h, s)
  BY <1>1, <1>2, OneSock
<1>4. QED
  BY <1>3 DEF s

LEMMA GotEdits ==
  ASSUME NEW h, HostOK(h), NEW c, NEW v
  PROVE  Edits(h, [h EXCEPT !.sock[c].got = v])
<1> DEFINE s == [h EXCEPT !.sock[c].got = v]
<1>1. SockOnly(h, s, c)
  BY DEF SockOnly, HostOK, HostFields
<1>2. ASSUME c \in Cids PROVE SameSock(h.sock[c], s.sock[c])
  <2>1. s.sock[c] = [h.sock[c] EXCEPT !.got = v] /\ SockOK(h.sock[c])
    BY <1>2 DEF HostOK, HostFields
  <2> HIDE DEF s
  <2>2. CASE h.sock[c] = NoSocket
    BY <2>1, <2>2, NoField DEF SameSock
  <2>3. CASE h.sock[c] # NoSocket
    BY <2>1, <2>3, NoField DEF SameSock, SockOK, SockFields
  <2>4. QED
    BY <2>2, <2>3
<1> HIDE DEF s
<1>3. Edits(h, s)
  BY <1>1, <1>2, OneSock
<1>4. QED
  BY <1>3 DEF s

LEMMA GotKeeps ==
  ASSUME NEW h, HostOK(h), NEW c, NEW code
  PROVE  Edits(h, Got(h, c, code))
<1>1. CASE Live(h, c)
  <2> DEFINE v == h.sock[c].got \union {code}
  <2>1. Got(h, c, code) = [h EXCEPT !.sock[c].got = v]
    BY <1>1 DEF Got
  <2>2. QED
    BY <2>1, GotEdits
<1>2. CASE ~Live(h, c)
  BY <1>2, KeepsItself, WritesEdits DEF Got
<1>3. QED
  BY <1>1, <1>2
-----------------------------------------------------------------------------
(* Steps that change what a device keeps *)

Steps(h, s) == Good(s) /\ s.handle = h.handle /\ s.known = h.known

LEMMA StepsOn ==
  ASSUME NEW h, NEW s, NEW r, Steps(h, s), Steps(s, r)
  PROVE  Steps(h, r)
  BY DEF Steps

LEMMA KeepsSteps ==
  ASSUME NEW h, NEW s, Good(h), Keeps(h, s), s.handle = h.handle
  PROVE  Steps(h, s)
  BY KeepsGood DEF Steps, Keeps

LEMMA EditsSteps ==
  ASSUME NEW h, NEW s, Good(h), Edits(h, s)
  PROVE  Steps(h, s)
  BY KeepsSteps DEF Edits

LEMMA WritesSteps ==
  ASSUME NEW h, NEW s, Good(h), Writes(h, s)
  PROVE  Steps(h, s)
  BY KeepsSteps DEF Writes

\* What device d may keep.
HidRight(h, d, f) ==
  /\ HidOK(f, h.cid)
  /\ f.slot = h.hid[d].slot
  /\ f.slot # NoSlot => f.interrupt # 0
  /\ Own(h, f.sdp, d, "sdp") /\ Own(h, f.handler, d, "sdp")
  /\ Own(h, f.control, d, "control") /\ Own(h, f.interrupt, d, "interrupt")

LEMMA HidIsRight ==
  ASSUME NEW h, Good(h), NEW d \in Dev
  PROVE  HidRight(h, d, h.hid[d])
  BY DEF Good, HostOK, OwnIds, SlotsOK, HidRight

LEMMA OneHid ==
  ASSUME NEW h, NEW s, Good(h), DOMAIN s = HostFields,
         s.handle = h.handle, s.sock = h.sock, s.cid = h.cid, s.tx = h.tx, s.held = h.held,
         s.known = h.known, s.slot = h.slot, DOMAIN s.hid = Dev,
         NEW d \in Dev, \A e \in Dev : e # d => s.hid[e] = h.hid[e],
         HidRight(h, d, s.hid[d])
  PROVE  Steps(h, s)
<1>1. KnownTo(s) = KnownTo(h)
  BY DEF KnownTo
<1>2. \A e \in Dev : HidOK(s.hid[e], s.cid) /\ s.hid[e].slot = h.hid[e].slot
  BY DEF Good, HostOK, HidRight
<1>3. HostOK(s)
  BY <1>1, <1>2 DEF Good, HostOK
<1>4. OwnIds(s)
  <2>1. \A c, e, psm : Own(s, c, e, psm) <=> Own(h, c, e, psm)
    BY DEF Own, Live
  <2>2. QED
    BY <2>1 DEF Good, OwnIds, HidRight
<1>5. SlotsOK(s)
  BY <1>2 DEF Good, SlotsOK, HidRight
<1>6. QED
  BY <1>3, <1>4, <1>5 DEF Steps, Good

LEMMA SetStateEdits ==
  ASSUME NEW h, HostOK(h), NEW c, NEW st, st # "OPEN"
  PROVE  Edits(h, SetState(h, c, st))
<1>1. SetState(h, c, st) = [h EXCEPT !.sock[c].st = st]
  BY DEF SetState
<1>2. QED
  BY <1>1, StEdits

LEMMA SetStateOpens ==
  ASSUME NEW h, Good(h), NEW c, Live(h, c)
  PROVE  Steps(h, SetState(h, c, "OPEN"))
<1> DEFINE d == h.sock[c].dev
           s == [h EXCEPT !.sock[c].st = "OPEN"]
           r == [s EXCEPT !.hid[d].handler = c]
<1>1. HostOK(h) /\ d \in Dev /\ c \in Nat
  BY LiveSocket DEF Good
<1>2. Edits(h, s)
  BY <1>1, StEdits
<1>3. Good(s) /\ Steps(h, s)
  BY <1>2, EditsSteps DEF Steps
<1>4. CASE c = h.hid[d].sdp
  <2>1. s.hid[d].sdp = c /\ Live(s, c)
    <3>1. s.hid = h.hid
      BY <1>2 DEF Edits, Keeps
    <3> HIDE DEF s
    <3>2. QED
      BY <1>2, <1>4, <3>1, EditsLive
  <2> HIDE DEF s, d
  <2>2. HidRight(s, d, s.hid[d]) /\ HostOK(s) /\ DOMAIN s.hid[d] = HidFields
    BY <1>1, <1>3, HidIsRight DEF Good, HostOK, HidOK
  <2>3. /\ DOMAIN r = HostFields
        /\ r.handle = s.handle /\ r.sock = s.sock /\ r.cid = s.cid /\ r.tx = s.tx
        /\ r.held = s.held /\ r.known = s.known /\ r.slot = s.slot
        /\ DOMAIN r.hid = Dev /\ \A e \in Dev : e # d => r.hid[e] = s.hid[e]
    BY <1>1, <2>2 DEF HostOK, HostFields
  <2>4. /\ DOMAIN r.hid[d] = HidFields /\ r.hid[d].handler = c
        /\ r.hid[d].sdp = c /\ r.hid[d].control = s.hid[d].control
        /\ r.hid[d].interrupt = s.hid[d].interrupt /\ r.hid[d].slot = s.hid[d].slot
    BY <1>1, <2>1, <2>2 DEF HostOK, HostFields, HidFields
  <2> HIDE DEF r
  <2>5. HidRight(s, d, r.hid[d])
    BY <2>1, <2>2, <2>4 DEF HidRight, HidOK
  <2>6. Steps(s, r)
    BY <1>1, <1>3, <2>3, <2>5, OneHid
  <2>7. Steps(r, Send(r, c, "query"))
    <3>1. Good(r) /\ HostOK(r) /\ "query" \in Requests
      BY <2>6 DEF Steps, Good, Requests
    <3>2. Writes(r, Send(r, c, "query"))
      BY <3>1, SendWrites
    <3>3. QED
      BY <3>1, <3>2, WritesSteps
  <2>8. SetState(h, c, "OPEN") = Send(r, c, "query")
    BY <1>4 DEF SetState, r, s, d
  <2>9. QED
    BY <1>3, <2>6, <2>7, <2>8, StepsOn
<1>5. CASE c # h.hid[d].sdp
  BY <1>3, <1>5 DEF SetState
<1>6. QED
  BY <1>4, <1>5

LEMMA SetStateSteps ==
  ASSUME NEW h, Good(h), NEW c, Live(h, c), NEW st
  PROVE  Steps(h, SetState(h, c, st))
<1>1. CASE st = "OPEN"
  BY <1>1, SetStateOpens
<1>2. CASE st # "OPEN"
  BY <1>2, SetStateEdits, EditsSteps DEF Good
<1>3. QED
  BY <1>1, <1>2
-----------------------------------------------------------------------------
(* Channels *)

L2Opened(h, r, d, psm) ==
  /\ Steps(h, r) /\ r.cid = h.cid + 1 /\ r.hid = h.hid
  /\ Own(r, h.cid, d, psm)

\* A channel is added to the table, which no id named yet.
NewChannel(h, d, psm) ==
  [h EXCEPT !.cid = @ + 1,
            !.sock[FreshCid(h)] = [dev |-> d, psm |-> psm, st |-> "NONE",
                                   dcid |-> 0, q |-> <<>>, got |-> {}]]

LEMMA ChannelAdded ==
  ASSUME NEW h, Good(h), NEW d \in Dev, NEW psm \in Psms
  PROVE  LET s == NewChannel(h, d, psm)
             k == [dev |-> d, psm |-> psm, st |-> "NONE", dcid |-> 0, q |-> <<>>, got |-> {}]
         IN  /\ Steps(h, s) /\ s.cid = h.cid + 1 /\ s.tx = h.tx /\ s.hid = h.hid
             /\ s.seen = h.seen /\ s.held = h.held
             /\ \A e \in Cids : s.sock[e] = IF e = h.cid THEN k ELSE h.sock[e]
             /\ Own(s, h.cid, d, psm)
<1> DEFINE c == FreshCid(h)
           k == [dev |-> d, psm |-> psm, st |-> "NONE", dcid |-> 0, q |-> <<>>, got |-> {}]
           s == NewChannel(h, d, psm)
<1>1. HostOK(h) /\ c = h.cid /\ c \in Nat \ {0}
  BY DEF Good, HostOK, FreshCid
<1>2. SockOK(k) /\ k # NoSocket /\ k.dev = d /\ k.psm = psm
  BY DEF SockOK, NoSocket, SockFields
<1>3. /\ DOMAIN s = HostFields /\ s.handle = h.handle /\ s.cid = c + 1 /\ s.tx = h.tx
      /\ s.held = h.held /\ s.known = h.known /\ s.hid = h.hid /\ s.slot = h.slot
      /\ s.seen = h.seen /\ DOMAIN s.sock = Cids
  BY <1>1 DEF HostOK, HostFields, NewChannel
<1>4. \A e \in Cids : s.sock[e] = IF e = c THEN k ELSE h.sock[e]
  BY <1>1 DEF HostOK, HostFields, NewChannel
<1> HIDE DEF s, k, c
<1>5. KnownTo(s) = KnownTo(h)
  BY <1>3 DEF KnownTo
<1>6. \A e \in Dev : HidOK(h.hid[e], h.cid) => HidOK(h.hid[e], c + 1)
  BY <1>1 DEF HidOK
<1>7. HostOK(s)
  BY <1>1, <1>2, <1>3, <1>4, <1>5, <1>6 DEF HostOK
<1>8. OwnIds(s)
  <2>1. \A e \in Dev : /\ h.hid[e].sdp # c /\ h.hid[e].handler # c
                       /\ h.hid[e].control # c /\ h.hid[e].interrupt # c
    BY <1>1 DEF HostOK, HidOK
  <2>2. \A x, e, m : x # c => (Own(s, x, e, m) <=> Own(h, x, e, m))
    BY <1>4 DEF Own, Live
  <2>3. QED
    BY <1>3, <2>1, <2>2 DEF Good, OwnIds
<1>9. SlotsOK(s)
  BY <1>3 DEF Good, SlotsOK
<1>10. Good(s) /\ Steps(h, s)
  BY <1>3, <1>7, <1>8, <1>9 DEF Good, Steps
<1>11. Own(s, c, d, psm)
  BY <1>2, <1>4 DEF Own, Live
<1>12. QED
  BY <1>1, <1>3, <1>4, <1>10, <1>11 DEF s, k

LEMMA L2OpenOpens ==
  ASSUME NEW h, Good(h), NEW d \in Dev, NEW psm \in Psms, NEW listen
  PROVE  L2Opened(h, L2Open(h, d, psm, listen), d, psm)
<1> DEFINE c == FreshCid(h)
           s == NewChannel(h, d, psm)
<1>1. c = h.cid /\ c \in Nat
  BY DEF Good, HostOK, FreshCid
<1> HIDE DEF s
<1> HIDE DEF c
<1>2. Steps(h, s) /\ s.cid = c + 1 /\ s.hid = h.hid /\ Own(s, c, d, psm)
  <2>1. /\ Steps(h, NewChannel(h, d, psm)) /\ NewChannel(h, d, psm).cid = h.cid + 1
        /\ NewChannel(h, d, psm).hid = h.hid /\ Own(NewChannel(h, d, psm), h.cid, d, psm)
    BY ChannelAdded
  <2>2. QED
    BY <1>1, <2>1 DEF s
<1>3. HostOK(s)
  BY <1>2 DEF Steps, Good
<1>4. ASSUME NEW r, Edits(s, r) PROVE L2Opened(h, r, d, psm)
  <2>1. Steps(h, r)
    BY <1>2, <1>4, EditsSteps, StepsOn DEF Steps
  <2>2. r.cid = s.cid /\ r.hid = s.hid
    BY <1>4 DEF Edits, Keeps
  <2>3. Own(r, c, d, psm)
    BY <1>2, <1>4 DEF Own, Live, Edits, Keeps
  <2>4. QED
    BY <1>1, <1>2, <2>1, <2>2, <2>3 DEF L2Opened
<1>5. CASE listen
  <2>1. L2Open(h, d, psm, listen) = SetState(s, c, "LISTENING")
    BY <1>5 DEF L2Open, s, c, NewChannel
  <2>2. QED
    BY <1>3, <1>4, <2>1, SetStateEdits
<1>6. CASE ~listen
  <2> DEFINE r == Signal(s, d, "CONN_REQ", c, psm)
  <2>1. L2Open(h, d, psm, listen) = SetState(r, c, "OPENING")
    BY <1>6 DEF L2Open, s, c, NewChannel
  <2>2. Writes(s, r)
    BY <1>1, <1>3, SignalWrites
  <2>3. Edits(s, r) /\ HostOK(r)
    BY <2>2, WritesEdits DEF Edits, Keeps
  <2> HIDE DEF r
  <2>4. Edits(r, SetState(r, c, "OPENING"))
    BY <2>3, SetStateEdits
  <2>5. QED
    BY <1>4, <2>1, <2>3, <2>4, EditsOn
<1>7. QED
  BY <1>5, <1>6

LEMMA L2CloseKeeps ==
  ASSUME NEW h, HostOK(h), NEW c, NEW thisEnd
  PROVE  Keeps(h, L2Close(h, c, thisEnd)) /\ L2Close(h, c, thisEnd).handle = h.handle
<1>1. CASE ~Live(h, c)
  BY <1>1, KeepsItself DEF L2Close, Writes
<1>2. CASE Live(h, c)
  <2> DEFINE s == IF thisEnd /\ h.sock[c].st = "OPEN"
                  THEN Signal(h, h.sock[c].dev, "DISCONN_REQ", c, h.sock[c].dcid) ELSE h
             r == [s EXCEPT !.sock[c] = NoSocket]
  <2>1. h.sock[c].dev \in Dev /\ c \in Nat /\ h.sock[c].dcid \in Nat /\ "DISCONN_REQ" \in Answers
    BY <1>2, LiveSocket DEF Answers
  <2>2. Writes(h, Signal(h, h.sock[c].dev, "DISCONN_REQ", c, h.sock[c].dcid))
    BY <2>1, SignalWrites
  <2>3. Writes(h, s)
    BY <2>2, KeepsItself
  <2>4. L2Close(h, c, thisEnd) = r
    BY <1>2 DEF L2Close
  <2> HIDE DEF s
  <2>5. HostOK(s)
    BY <2>3 DEF Writes, Keeps
  <2>6. /\ DOMAIN r = HostFields
        /\ r.handle = s.handle /\ r.cid = s.cid /\ r.tx = s.tx /\ r.held = s.held
        /\ r.known = s.known /\ r.hid = s.hid /\ r.slot = s.slot /\ DOMAIN r.sock = Cids
        /\ \A e \in Cids : r.sock[e] = IF e = c THEN NoSocket ELSE s.sock[e]
    BY <2>5 DEF HostOK, HostFields
  <2> HIDE DEF r
  <2>7. \A e \in Cids : SockOK(s.sock[e]) /\ SockOK(NoSocket)
    BY <2>5 DEF HostOK, SockOK
  <2>8. s.handle \in [Dev -> Handles]
    BY <2>5 DEF HostOK
  <2>9. Keeps(s, r)
    BY <2>5, <2>6, <2>7, <2>8, SocksChanged
  <2>10. QED
    BY <2>3, <2>4, <2>6, <2>9, KeepsOn DEF Writes
<1>3. QED
  BY <1>1, <1>2

\* Channels of the device go, and its handle.
LEMMA DisconnectKeeps ==
  ASSUME NEW h, HostOK(h), NEW d \in Dev
  PROVE  /\ Keeps(h, DisconnectAll(h, d))
         /\ DisconnectAll(h, d).handle = [h.handle EXCEPT ![d] = "none"]
<1> DEFINE r == DisconnectAll(h, d)
<1>1. /\ DOMAIN r = HostFields /\ r.handle = [h.handle EXCEPT ![d] = "none"]
      /\ r.cid = h.cid /\ r.tx = h.tx /\ r.held = h.held
      /\ r.known = h.known /\ r.hid = h.hid /\ r.slot = h.slot /\ DOMAIN r.sock = Cids
      /\ \A e \in Cids : r.sock[e] = IF h.sock[e].dev = d THEN NoSocket ELSE h.sock[e]
  BY DEF HostOK, HostFields, DisconnectAll
<1>2. r.handle \in [Dev -> Handles]
  BY <1>1 DEF HostOK, Handles
<1>3. \A e \in Cids : SockOK(h.sock[e]) /\ SockOK(NoSocket)
  BY DEF HostOK, SockOK
<1> HIDE DEF r
<1>4. Keeps(h, r)
  BY <1>1, <1>2, <1>3, SocksChanged
<1>5. QED
  BY <1>1, <1>4 DEF r
-----------------------------------------------------------------------------
(* Signals and data *)

LEMMA Smallest ==
  ASSUME NEW T \in SUBSET Nat, T # {}
  PROVE  \E n \in T : \A m \in T : n <= m
<1>1. PICK n \in T : \A m \in T : ~(<<m, n>> \in OpToRel(<, Nat))
  BY NatLessThanWellFounded, WFMin
<1>2. \A m \in T : ~(m < n)
  BY <1>1 DEF OpToRel
<1>3. QED
  BY <1>2

LEMMA AcceptEdits ==
  ASSUME NEW h, HostOK(h), NEW c, Live(h, c), NEW dc \in Nat
  PROVE  Edits(h, Accept(h, c, dc))
<1> DEFINE d == h.sock[c].dev
           s == Signal(h, d, "CONN_RSP", c, dc)
           r == SetState(s, c, "OPENING")
           q == [r EXCEPT !.sock[c].dcid = dc]
<1>1. d \in Dev /\ c \in Nat /\ "CONN_RSP" \in Answers /\ "CONF_REQ" \in Answers
  BY LiveSocket DEF Answers
<1>2. Edits(h, s) /\ HostOK(s)
  BY <1>1, SignalWrites, WritesEdits DEF Edits, Keeps
<1>3. Accept(h, c, dc) = Signal(q, d, "CONF_REQ", c, dc)
  BY DEF Accept
<1> HIDE DEF s, d
<1>4. Edits(s, r) /\ HostOK(r)
  BY <1>2, SetStateEdits DEF Edits, Keeps
<1> HIDE DEF r
<1>5. Edits(r, q)
  BY <1>4, DcidEdits
<1>6. HostOK(q)
  BY <1>5 DEF Edits, Keeps
<1> HIDE DEF q
<1>7. Edits(q, Signal(q, d, "CONF_REQ", c, dc))
  BY <1>1, <1>6, SignalWrites, WritesEdits
<1>8. QED
  BY <1>2, <1>3, <1>4, <1>5, <1>7, EditsOn

LEMMA AcceptedEdits ==
  ASSUME NEW h, HostOK(h), NEW d, NEW psm, NEW dc \in Nat
  PROVE  Edits(h, Accepted(h, d, psm, dc))
<1> DEFINE Asked(c) == Live(h, c) /\ h.sock[c].dev = d /\ h.sock[c].psm = psm
           Turn(s, c) == IF Asked(c) THEN Accept(s, c, dc) ELSE s
           Rec(f, n) == f = [c \in 0..n |-> IF c = 0 THEN h ELSE Turn(f[c - 1], c)]
<1>1. MaxCid \in Nat
  BY BtHostAssumption
<1>2. ASSUME NEW n \in Nat PROVE \E f : Rec(f, n)
  <2> DEFINE T == {m \in Nat : ~(\E f : Rec(f, m))}
  <2>1. SUFFICES ASSUME T # {} PROVE FALSE
    BY <1>2
  <2>2. PICK m \in T : \A k \in T : m <= k
    BY <2>1, Smallest
  <2> HIDE DEF Turn
  <2>3. m # 0
    <3>1. Rec([c \in 0..0 |-> h], 0)
      OBVIOUS
    <3>2. QED
      BY <2>2, <3>1
  <2>4. m - 1 \in Nat /\ m - 1 \notin T
    BY <2>2, <2>3
  <2> HIDE DEF Rec
  <2>5. \E f : Rec(f, m - 1)
    BY <2>4
  <2>6. PICK f : Rec(f, m - 1)
    BY <2>5
  <2> USE DEF Rec
  <2> DEFINE g == [c \in 0..m |-> IF c = m THEN Turn(f[m - 1], m) ELSE f[c]]
  <2>7. \A c \in 0..(m - 1) : f[c] = IF c = 0 THEN h ELSE Turn(f[c - 1], c)
    BY <2>6
  <2>8. \A c \in 0..m : g[c] = IF c = 0 THEN h ELSE Turn(g[c - 1], c)
    <3>1. \A c \in 0..(m - 1) : g[c] = f[c]
      BY <2>4
    <3>2. g[m] = Turn(f[m - 1], m) /\ m - 1 \in 0..(m - 1)
      BY <2>4
    <3> HIDE DEF g
    <3>3. \A c \in 0..m : c = m \/ c \in 0..(m - 1)
      BY <2>4
    <3>4. \A c \in 0..(m - 1) : c # 0 => c - 1 \in 0..(m - 1)
      BY <2>4
    <3>5. QED
      BY <2>3, <2>7, <3>1, <3>2, <3>3, <3>4
  <2>9. Rec(g, m)
    BY <2>8
  <2>10. QED
    BY <2>2, <2>9
<1> DEFINE upTo == CHOOSE f : Rec(f, MaxCid)
<1>3. upTo = [c \in 0..MaxCid |-> IF c = 0 THEN h ELSE Turn(upTo[c - 1], c)]
  BY <1>1, <1>2
<1>4. Accepted(h, d, psm, dc) = upTo[MaxCid]
  BY DEF Accepted
<1>5. ASSUME NEW s, NEW c, Edits(h, s) PROVE Edits(h, Turn(s, c))
  <2>1. CASE Asked(c)
    <3>1. Live(s, c) /\ HostOK(s)
      BY <1>5, <2>1, EditsLive DEF Edits, Keeps
    <3>2. Edits(s, Accept(s, c, dc))
      BY <3>1, AcceptEdits
    <3>3. QED
      BY <1>5, <2>1, <3>2, EditsOn
  <2>2. CASE ~Asked(c)
    BY <1>5, <2>2
  <2>3. QED
    BY <2>1, <2>2
<1>6. Edits(h, h)
  BY KeepsItself, WritesEdits
<1> HIDE DEF upTo, Turn
<1>7. upTo[0] = h /\ \A c \in 1..MaxCid : upTo[c] = Turn(upTo[c - 1], c)
  BY <1>1, <1>3
<1>8. \A c \in 0..MaxCid : Edits(h, upTo[c])
  <2> DEFINE T == {c \in 0..MaxCid : ~Edits(h, upTo[c])}
  <2>1. SUFFICES ASSUME T # {} PROVE FALSE
    OBVIOUS
  <2>2. T \in SUBSET Nat
    BY <1>1
  <2> HIDE DEF T
  <2>3. PICK m \in T : \A k \in T : m <= k
    BY <2>1, <2>2, Smallest
  <2> USE DEF T
  <2>4. m \in 0..MaxCid /\ m # 0
    BY <1>6, <1>7, <2>3
  <2>5. m \in 1..MaxCid /\ m - 1 \in 0..MaxCid
    BY <1>1, <2>4
  <2>6. m - 1 \notin T
    BY <2>2, <2>3, <2>5
  <2>7. Edits(h, upTo[m - 1])
    BY <2>5, <2>6
  <2>8. Edits(h, upTo[m])
    BY <1>5, <1>7, <2>5, <2>7
  <2>9. QED
    BY <2>3, <2>8
<1>9. QED
  BY <1>1, <1>4, <1>8

LEMMA CheckOpenSteps ==
  ASSUME NEW h, Good(h), NEW c
  PROVE  Steps(h, CheckOpen(h, c))
<1>1. Steps(h, h)
  BY DEF Steps
<1>2. QED
  BY <1>1, SetStateSteps DEF CheckOpen

\* What no id, slot or queue depends on may change.
LEMMA AsideSteps ==
  ASSUME NEW h, NEW s, Good(h), DOMAIN s = HostFields,
         s.handle = h.handle, s.sock = h.sock, s.cid = h.cid, s.tx = h.tx, s.known = h.known,
         s.slot = h.slot, s.hid = h.hid, s.held \in Said \union {NoPacket}
  PROVE  Steps(h, s)
<1>1. KnownTo(s) = KnownTo(h)
  BY DEF KnownTo
<1>2. HostOK(s)
  BY <1>1 DEF Good, HostOK
<1>3. Good(s)
  BY <1>2, StaysGood
<1>4. QED
  BY <1>3 DEF Steps

LEMMA SaidFields ==
  ASSUME NEW p \in Said
  PROVE  /\ p.t \in {"SIG", "DATA"} /\ p.dev \in Dev /\ p.scid \in Nat
         /\ p.t = "DATA" => p.what \in Replied
         /\ p.t = "SIG" => /\ p.code \in Answers \union {"CONN_REQ"}
                           /\ p.code = "CONN_RSP" => p.dcid \in Nat
                           /\ p.code = "CONN_REQ" => p.psm \in Psms /\ p.dcid \in Nat
  BY DEF Said, Answers

LEMMA ConnRspSteps ==
  ASSUME NEW h, Good(h), NEW d \in Dev, NEW p \in Said, p.t = "SIG", p.code = "CONN_RSP"
  PROVE  Steps(h, ConnRsp(h, d, p))
<1>1. p.scid \in Nat /\ p.dcid \in Nat
  BY SaidFields
<1>2. CASE ~Live(h, p.scid) \/ p.status = "pending"
  BY <1>2 DEF ConnRsp, Steps
<1>3. CASE Live(h, p.scid) /\ p.status # "pending" /\ p.status = "ok"
  <2> DEFINE s == [h EXCEPT !.sock[p.scid].dcid = p.dcid]
             r == Signal(s, d, "CONF_REQ", p.scid, p.dcid)
  <2>1. Edits(h, s)
    BY <1>1, DcidEdits DEF Good
  <2>2. ConnRsp(h, d, p) = r
    BY <1>3 DEF ConnRsp
  <2> HIDE DEF s
  <2>3. Steps(h, s)
    BY <2>1, EditsSteps
  <2>4. HostOK(s) /\ Good(s) /\ "CONF_REQ" \in Answers
    BY <2>3 DEF Steps, Good, Answers
  <2>5. Writes(s, r)
    BY <1>1, <2>4, SignalWrites
  <2>6. QED
    BY <2>2, <2>3, <2>4, <2>5, WritesSteps, StepsOn
<1>4. CASE Live(h, p.scid) /\ p.status # "pending" /\ p.status # "ok"
  <2>1. ConnRsp(h, d, p) = SetState(h, p.scid, "CLOSED")
    BY <1>4 DEF ConnRsp
  <2>2. QED
    BY <1>4, <2>1, SetStateSteps
<1>5. QED
  BY <1>2, <1>3, <1>4

\* A signal that asks for, or answers, something.
LEMMA SignalSteps ==
  ASSUME NEW h, Good(h), NEW d \in Dev, NEW code \in Answers, NEW c \in Nat, NEW x \in Nat
  PROVE  Steps(h, Signal(h, d, code, c, x))
  BY SignalWrites, WritesSteps DEF Good

LEMMA L2CloseSteps ==
  ASSUME NEW h, Good(h), NEW c, NEW thisEnd
  PROVE  Steps(h, L2Close(h, c, thisEnd))
  BY L2CloseKeeps, KeepsSteps DEF Good

LEMMA ControlSteps ==
  ASSUME NEW h, Good(h), NEW d \in Dev, NEW p \in Said, p.t = "SIG"
  PROVE  Steps(h, Control(h, d, p))
<1> DEFINE q == [h EXCEPT !.seen[d] = @ \cup {p.code}]
           s == Got(q, p.scid, p.code)
<1>1. p.scid \in Nat /\ p.code \in Answers \union {"CONN_REQ"}
  BY SaidFields
<1>2. Steps(h, q)
  <2>1. /\ DOMAIN q = HostFields /\ q.handle = h.handle /\ q.sock = h.sock /\ q.cid = h.cid
        /\ q.tx = h.tx /\ q.known = h.known /\ q.slot = h.slot /\ q.hid = h.hid /\ q.held = h.held
    BY DEF Good, HostOK, HostFields
  <2>2. h.held \in Said \union {NoPacket}
    BY DEF Good, HostOK
  <2> HIDE DEF q
  <2>3. QED
    BY <2>1, <2>2, AsideSteps
<1> HIDE DEF q
<1>3. Good(q) /\ HostOK(q)
  BY <1>2 DEF Steps, Good
<1>4. Steps(h, s) /\ Good(s)
  BY <1>2, <1>3, GotKeeps, EditsSteps, StepsOn DEF Steps
<1>5. \A r : Steps(s, r) => Steps(h, r)
  BY <1>4, StepsOn
<1>6. CASE p.code = "CONN_RSP"
  <2>1. Control(h, d, p) = ConnRsp(s, d, p)
    BY <1>6 DEF Control, s, q
  <2> HIDE DEF s
  <2>2. QED
    BY <1>4, <1>5, <1>6, <2>1, ConnRspSteps
<1>7. CASE p.code = "CONF_RSP"
  <2>1. Control(h, d, p) = CheckOpen(s, p.scid)
    BY <1>7 DEF Control, s, q
  <2> HIDE DEF s
  <2>2. QED
    BY <1>4, <1>5, <2>1, CheckOpenSteps
<1>8. CASE p.code = "CONF_REQ"
  <2> DEFINE x == s.sock[p.scid].dcid
             r == Signal(s, d, "CONF_RSP", p.scid, x)
  <2>1. Control(h, d, p) = IF Live(s, p.scid) THEN CheckOpen(r, p.scid) ELSE s
    BY <1>8 DEF Control, s, q
  <2> HIDE DEF s
  <2>2. CASE Live(s, p.scid)
    <3>1. x \in Nat /\ "CONF_RSP" \in Answers
      BY <1>4, <2>2, LiveSocket DEF Good, Answers
    <3> HIDE DEF x
    <3>2. Steps(s, r) /\ Good(r)
      BY <1>1, <1>4, <3>1, SignalSteps DEF Steps
    <3> HIDE DEF r
    <3>3. Steps(r, CheckOpen(r, p.scid))
      BY <3>2, CheckOpenSteps
    <3>4. QED
      BY <1>5, <2>1, <2>2, <3>2, <3>3, StepsOn
  <2>3. CASE ~Live(s, p.scid)
    BY <1>4, <2>1, <2>3
  <2>4. QED
    BY <2>2, <2>3
<1>9. CASE p.code = "DISCONN_REQ"
  <2> DEFINE r == L2Close(s, p.scid, FALSE)
  <2>1. Control(h, d, p) = Signal(r, d, "DISCONN_RSP", p.scid, 0)
    BY <1>9 DEF Control, s, q
  <2> HIDE DEF s
  <2>2. Steps(s, r)
    BY <1>4, L2CloseSteps
  <2> HIDE DEF r
  <2>3. Steps(s, r) /\ Good(r) /\ "DISCONN_RSP" \in Answers
    BY <2>2 DEF Steps, Answers
  <2>4. Steps(r, Signal(r, d, "DISCONN_RSP", p.scid, 0))
    BY <1>1, <2>3, SignalSteps
  <2>5. QED
    BY <1>5, <2>1, <2>3, <2>4, StepsOn
<1>10. CASE p.code = "DISCONN_RSP"
  <2>1. Control(h, d, p) = L2Close(s, p.scid, TRUE)
    BY <1>10 DEF Control, s, q
  <2> HIDE DEF s
  <2>2. QED
    BY <1>4, <1>5, <2>1, L2CloseSteps
<1>11. CASE p.code = "CONN_REQ"
  <2>1. Control(h, d, p) = Accepted(s, d, p.psm, p.dcid)
    BY <1>11 DEF Control, s, q
  <2> HIDE DEF s
  <2>2. p.dcid \in Nat /\ HostOK(s)
    BY <1>4, <1>11, SaidFields DEF Good
  <2>3. Edits(s, Accepted(s, d, p.psm, p.dcid))
    BY <2>2, AcceptedEdits
  <2>4. QED
    BY <1>4, <1>5, <2>1, <2>3, EditsSteps
<1>12. QED
  BY <1>1, <1>6, <1>7, <1>8, <1>9, <1>10, <1>11 DEF Answers

LEMMA DataSteps ==
  ASSUME NEW h, Good(h), NEW d \in Dev, NEW p \in Said
  PROVE  Steps(h, Data(h, d, p))
<1>1. CASE p.t = "SIG"
  BY <1>1, ControlSteps DEF Data
<1>2. CASE p.t # "SIG"
  <2>1. p.what \in Replied
    BY <1>2, SaidFields
  <2>2. CASE Live(h, p.scid) /\ Len(h.sock[p.scid].q) < SockSize
    <3> DEFINE v == Append(h.sock[p.scid].q, p.what)
    <3>1. Data(h, d, p) = [h EXCEPT !.sock[p.scid].q = v]
      BY <1>2, <2>2 DEF Data
    <3>2. v \in Seq(Replied)
      BY <2>1, <2>2, LiveSocket DEF Good
    <3>3. QED
      BY <3>1, <3>2, QueueEdits, EditsSteps DEF Good
  <2>3. CASE ~(Live(h, p.scid) /\ Len(h.sock[p.scid].q) < SockSize)
    BY <1>2, <2>3 DEF Data, Steps
  <2>4. QED
    BY <2>2, <2>3
<1>3. QED
  BY <1>1, <1>2

LEMMA HeldSteps ==
  ASSUME NEW h, Good(h), NEW p \in Said \union {NoPacket}
  PROVE  Steps(h, [h EXCEPT !.held = p])
<1> DEFINE q == [h EXCEPT !.held = p]
<1>1. /\ DOMAIN q = HostFields /\ q.handle = h.handle /\ q.sock = h.sock /\ q.cid = h.cid
      /\ q.tx = h.tx /\ q.known = h.known /\ q.slot = h.slot /\ q.hid = h.hid /\ q.held = p
  BY DEF Good, HostOK, HostFields
<1> HIDE DEF q
<1>2. Steps(h, q)
  BY <1>1, AsideSteps
<1>3. QED
  BY <1>2 DEF q

LEMMA AclSteps ==
  ASSUME NEW h, Good(h), NEW p \in Said
  PROVE  Steps(h, Acl(h, p))
<1>1. p.dev \in Dev
  BY SaidFields
<1>2. QED
  BY <1>1, DataSteps, HeldSteps DEF Acl

LEMMA DongleBugSteps ==
  ASSUME NEW h, Good(h)
  PROVE  Steps(h, DongleBug(h))
<1>1. CASE h.held = NoPacket
  BY <1>1 DEF DongleBug, Steps
<1>2. CASE h.held # NoPacket
  <2> DEFINE s == Acl(h, h.held)
  <2>1. h.held \in Said
    BY <1>2 DEF Good, HostOK
  <2>2. Steps(h, s) /\ Good(s)
    BY <2>1, AclSteps DEF Steps
  <2>3. DongleBug(h) = [s EXCEPT !.held = NoPacket]
    BY <1>2 DEF DongleBug
  <2> HIDE DEF s
  <2>4. Steps(s, [s EXCEPT !.held = NoPacket])
    BY <2>2, HeldSteps
  <2>5. QED
    BY <2>2, <2>3, <2>4, StepsOn
<1>3. QED
  BY <1>1, <1>2
-----------------------------------------------------------------------------
(* HID devices *)

LEMMA LongerSet ==
  ASSUME NEW S, NEW T, S \subseteq T, NEW q \in Seq(S)
  PROVE  q \in Seq(T)
  OBVIOUS

LEMMA ContainsKnown ==
  ASSUME NEW h, NEW d
  PROVE  Contains(h.known, d) <=> d \in KnownTo(h)
  BY DEF Contains, KnownTo

\* Handles and what is known may change, too.
LEMMA PartsGood ==
  ASSUME NEW h, NEW s, Good(h), DOMAIN s = HostFields, s.handle \in [Dev -> Handles],
         s.sock = h.sock, s.cid = h.cid, s.tx = h.tx, s.held = h.held,
         s.slot = h.slot, s.hid = h.hid, s.known \in Seq(Dev), KnownTo(h) \subseteq KnownTo(s)
  PROVE  Good(s)
<1>1. Sent(KnownTo(h)) \subseteq Sent(KnownTo(s))
  BY DEF Sent
<1>2. s.tx \in Seq(Sent(KnownTo(s)))
  BY <1>1, LongerSet DEF Good, HostOK
<1>3. HostOK(s)
  BY <1>2 DEF Good, HostOK
<1>4. QED
  BY <1>3, StaysGood

\* The host takes no device for connected that it did not, or the reverse.
Moves(h, s) ==
  /\ Good(s)
  /\ KnownTo(h) \subseteq KnownTo(s)
  /\ \A d \in Dev : (s.handle[d] = d) <=> (h.handle[d] = d)

LEMMA StepsMoves ==
  ASSUME NEW h, NEW s, Steps(h, s)
  PROVE  Moves(h, s)
  BY DEF Steps, Moves, KnownTo

LEMMA MovesOn ==
  ASSUME NEW h, NEW s, NEW r, Moves(h, s), Moves(s, r)
  PROVE  Moves(h, r)
<1>1. Good(r) /\ KnownTo(h) \subseteq KnownTo(r)
  BY DEF Moves
<1>2. \A d \in Dev : (r.handle[d] = d) <=> (h.handle[d] = d)
  BY DEF Moves
<1>3. QED
  BY <1>1, <1>2 DEF Moves

LEMMA AddDeviceMoves ==
  ASSUME NEW h, Good(h), NEW d \in Dev
  PROVE  Moves(h, AddDevice(h, d)) /\ d \in KnownTo(AddDevice(h, d))
<1>1. CASE Contains(h.known, d)
  BY <1>1, ContainsKnown DEF AddDevice, Moves
<1>2. CASE ~Contains(h.known, d)
  <2> DEFINE s == [h EXCEPT !.known = Append(@, d)]
  <2>1. /\ DOMAIN s = HostFields /\ s.handle = h.handle /\ s.sock = h.sock /\ s.cid = h.cid
        /\ s.tx = h.tx /\ s.held = h.held /\ s.slot = h.slot /\ s.hid = h.hid
        /\ s.known = Append(h.known, d)
    BY DEF Good, HostOK, HostFields
  <2>2. AddDevice(h, d) = s
    BY <1>2 DEF AddDevice
  <2> HIDE DEF s
  <2>3. h.known \in Seq(Dev) /\ s.handle \in [Dev -> Handles]
    BY <2>1 DEF Good, HostOK
  <2>4. s.known \in Seq(Dev) /\ Len(s.known) = Len(h.known) + 1 /\ s.known[Len(h.known) + 1] = d
        /\ \A i \in 1..Len(h.known) : s.known[i] = h.known[i]
    BY <2>1, <2>3
  <2>5. KnownTo(h) \subseteq KnownTo(s) /\ d \in KnownTo(s)
    BY <2>3, <2>4 DEF KnownTo
  <2>6. Good(s)
    BY <2>1, <2>3, <2>4, <2>5, PartsGood
  <2>7. QED
    BY <2>1, <2>2, <2>5, <2>6 DEF Moves
<1>3. QED
  BY <1>1, <1>2

LEMMA CreateConnectionMoves ==
  ASSUME NEW h, Good(h), NEW d \in Dev, d \in KnownTo(h)
  PROVE  Moves(h, CreateConnection(h, d))
<1>1. CASE h.handle[d] # "none"
  BY <1>1 DEF CreateConnection, Moves
<1>2. CASE h.handle[d] = "none"
  <2> DEFINE s == [h EXCEPT !.seen[d] = {}, !.handle[d] = "paging"]
  <2>1. /\ DOMAIN s = HostFields /\ s.handle = [h.handle EXCEPT ![d] = "paging"]
        /\ s.sock = h.sock /\ s.cid = h.cid /\ s.known = h.known
        /\ s.tx = h.tx /\ s.held = h.held /\ s.slot = h.slot /\ s.hid = h.hid
    BY DEF Good, HostOK, HostFields
  <2>2. CreateConnection(h, d) = CmdTo(s, "CREATE", d)
    BY <1>2 DEF CreateConnection
  <2> HIDE DEF s
  <2>3. h.handle \in [Dev -> Handles] /\ h.known \in Seq(Dev)
    BY DEF Good, HostOK
  <2>4. s.handle \in [Dev -> Handles] /\ s.known \in Seq(Dev)
    BY <2>1, <2>3 DEF Handles
  <2>5. KnownTo(h) \subseteq KnownTo(s) /\ d \in KnownTo(s)
    BY <2>1 DEF KnownTo
  <2>6. Good(s)
    BY <2>1, <2>4, <2>5, PartsGood
  <2>7. d # "none" /\ d # "paging"
    BY BtHostAssumption
  <2>8. \A e \in Dev : (s.handle[e] = e) <=> (h.handle[e] = e)
    BY <1>2, <2>1, <2>3, <2>7
  <2>9. Moves(h, s)
    BY <2>5, <2>6, <2>8 DEF Moves
  <2>10. Writes(s, CmdTo(s, "CREATE", d))
    BY <2>5, <2>6, CmdToWrites DEF Good, PageCommands
  <2>11. QED
    BY <2>2, <2>6, <2>9, <2>10, WritesSteps, StepsMoves, MovesOn
<1>3. QED
  BY <1>1, <1>2

\* Only what device d keeps is another.
HidOnly(h, s, d) ==
  /\ DOMAIN s = HostFields /\ s.handle = h.handle /\ s.sock = h.sock /\ s.cid = h.cid
  /\ s.tx = h.tx /\ s.held = h.held /\ s.known = h.known /\ s.slot = h.slot
  /\ DOMAIN s.hid = Dev /\ \A e \in Dev : e # d => s.hid[e] = h.hid[e]
  /\ DOMAIN s.hid[d] = HidFields /\ s.hid[d].slot = h.hid[d].slot

LEMMA HidOnlySteps ==
  ASSUME NEW h, NEW s, Good(h), NEW d \in Dev, HidOnly(h, s, d), HidRight(h, d, s.hid[d])
  PROVE  Steps(h, s)
  BY OneHid DEF HidOnly

LEMMA FlagSteps ==
  ASSUME NEW h, NEW s, Good(h), NEW d \in Dev, HidOnly(h, s, d),
         s.hid[d].sdp = h.hid[d].sdp, s.hid[d].handler = h.hid[d].handler,
         s.hid[d].control = h.hid[d].control, s.hid[d].interrupt = h.hid[d].interrupt
  PROVE  Steps(h, s)
<1>1. HidRight(h, d, h.hid[d])
  BY HidIsRight
<1>2. HidRight(h, d, s.hid[d])
  BY <1>1 DEF HidRight, HidOK, HidOnly
<1>3. QED
  BY <1>2, HidOnlySteps

LEMMA StateSteps ==
  ASSUME NEW h, Good(h), NEW d \in Dev, NEW v
  PROVE  Steps(h, [h EXCEPT !.hid[d].state = v])
<1> DEFINE s == [h EXCEPT !.hid[d].state = v]
<1>1. HidOnly(h, s, d)
  BY DEF HidOnly, Good, HostOK, HostFields, HidOK, HidFields
<1>2. /\ s.hid[d].sdp = h.hid[d].sdp /\ s.hid[d].handler = h.hid[d].handler
      /\ s.hid[d].control = h.hid[d].control /\ s.hid[d].interrupt = h.hid[d].interrupt
  BY DEF Good, HostOK, HostFields, HidOK, HidFields
<1> HIDE DEF s
<1>3. Steps(h, s)
  BY <1>1, <1>2, FlagSteps
<1>4. QED
  BY <1>3 DEF s

LEMMA ReconnectSteps ==
  ASSUME NEW h, Good(h), NEW d \in Dev, NEW v
  PROVE  Steps(h, [h EXCEPT !.hid[d].reconnect = v])
<1> DEFINE s == [h EXCEPT !.hid[d].reconnect = v]
<1>1. HidOnly(h, s, d)
  BY DEF HidOnly, Good, HostOK, HostFields, HidOK, HidFields
<1>2. /\ s.hid[d].sdp = h.hid[d].sdp /\ s.hid[d].handler = h.hid[d].handler
      /\ s.hid[d].control = h.hid[d].control /\ s.hid[d].interrupt = h.hid[d].interrupt
  BY DEF Good, HostOK, HostFields, HidOK, HidFields
<1> HIDE DEF s
<1>3. Steps(h, s)
  BY <1>1, <1>2, FlagSteps
<1>4. QED
  BY <1>3 DEF s

LEMMA HidConnectMoves ==
  ASSUME NEW h, Good(h), NEW d \in Dev, d \in KnownTo(h)
  PROVE  Moves(h, HidConnect(h, d))
<1> DEFINE s == [h EXCEPT !.hid[d].reconnect = FALSE, !.hid[d].state = "CONNECT"]
<1>1. HidOnly(h, s, d)
  BY DEF HidOnly, Good, HostOK, HostFields, HidOK, HidFields
<1>2. /\ s.hid[d].sdp = h.hid[d].sdp /\ s.hid[d].handler = h.hid[d].handler
      /\ s.hid[d].control = h.hid[d].control /\ s.hid[d].interrupt = h.hid[d].interrupt
  BY DEF Good, HostOK, HostFields, HidOK, HidFields
<1>3. HidConnect(h, d) = CreateConnection(s, d)
  BY DEF HidConnect
<1> HIDE DEF s
<1>4. Steps(h, s)
  BY <1>1, <1>2, FlagSteps
<1>5. Good(s) /\ d \in KnownTo(s) /\ Moves(h, s)
  BY <1>4, StepsMoves DEF Moves
<1>6. QED
  BY <1>3, <1>5, CreateConnectionMoves, MovesOn

LEMMA ConnectionRequestMoves ==
  ASSUME NEW h, Good(h), NEW d \in Dev
  PROVE  Moves(h, ConnectionRequest(h, d))
<1> DEFINE a == AddDevice(h, d)
           s == [a EXCEPT !.hid[d].reconnect = TRUE]
<1>1. Moves(h, a) /\ Good(a) /\ d \in KnownTo(a)
  BY AddDeviceMoves DEF Moves
<1>2. ConnectionRequest(h, d) = CmdTo(s, "ACCEPT", d)
  BY DEF ConnectionRequest
<1> HIDE DEF a
<1>3. Steps(a, s)
  BY <1>1, ReconnectSteps
<1> HIDE DEF s
<1>4. Moves(a, s) /\ Good(s) /\ d \in KnownTo(s)
  BY <1>1, <1>3, StepsMoves DEF Moves
<1>5. Writes(s, CmdTo(s, "ACCEPT", d))
  BY <1>4, CmdToWrites DEF Good, PageCommands
<1>6. Moves(s, CmdTo(s, "ACCEPT", d))
  BY <1>4, <1>5, WritesSteps, StepsMoves
<1>7. QED
  BY <1>1, <1>2, <1>4, <1>6, MovesOn

LEMMA CmdToSteps ==
  ASSUME NEW h, Good(h), NEW d \in Dev, NEW c \in LinkCommands
  PROVE  Steps(h, CmdTo(h, c, d))
  BY CmdToWrites, WritesSteps DEF Good

\* The new channel's id is kept.
LEMMA ControlKept ==
  ASSUME NEW h, Good(h), NEW d \in Dev, NEW c \in 0..(h.cid - 1), Own(h, c, d, "control")
  PROVE  Steps(h, [h EXCEPT !.hid[d].control = c])
<1> DEFINE s == [h EXCEPT !.hid[d].control = c]
<1>1. HidOnly(h, s, d)
  BY DEF HidOnly, Good, HostOK, HostFields, HidOK, HidFields
<1>2. /\ s.hid[d].sdp = h.hid[d].sdp /\ s.hid[d].handler = h.hid[d].handler
      /\ s.hid[d].control = c /\ s.hid[d].interrupt = h.hid[d].interrupt
  BY DEF Good, HostOK, HostFields, HidOK, HidFields
<1>3. HidRight(h, d, h.hid[d])
  BY HidIsRight
<1> HIDE DEF s
<1>4. HidRight(h, d, s.hid[d])
  BY <1>1, <1>2, <1>3 DEF HidRight, HidOK, HidOnly
<1>5. Steps(h, s)
  BY <1>1, <1>4, HidOnlySteps
<1>6. QED
  BY <1>5 DEF s

LEMMA InterruptKept ==
  ASSUME NEW h, Good(h), NEW d \in Dev, NEW c \in 1..(h.cid - 1), Own(h, c, d, "interrupt")
  PROVE  Steps(h, [h EXCEPT !.hid[d].interrupt = c])
<1> DEFINE s == [h EXCEPT !.hid[d].interrupt = c]
<1>1. HidOnly(h, s, d)
  BY DEF HidOnly, Good, HostOK, HostFields, HidOK, HidFields
<1>2. /\ s.hid[d].sdp = h.hid[d].sdp /\ s.hid[d].handler = h.hid[d].handler
      /\ s.hid[d].control = h.hid[d].control /\ s.hid[d].interrupt = c
  BY DEF Good, HostOK, HostFields, HidOK, HidFields
<1>3. HidRight(h, d, h.hid[d]) /\ c # 0 /\ c \in 0..(h.cid - 1)
  BY HidIsRight
<1> HIDE DEF s
<1>4. HidRight(h, d, s.hid[d])
  BY <1>1, <1>2, <1>3 DEF HidRight, HidOK, HidOnly
<1>5. Steps(h, s)
  BY <1>1, <1>4, HidOnlySteps
<1>6. QED
  BY <1>5 DEF s

LEMMA SdpKept ==
  ASSUME NEW h, Good(h), NEW d \in Dev, NEW c \in 0..(h.cid - 1), Own(h, c, d, "sdp"), NEW v
  PROVE  Steps(h, [h EXCEPT !.hid[d].sdp = c, !.hid[d].state = v])
<1> DEFINE s == [h EXCEPT !.hid[d].sdp = c, !.hid[d].state = v]
<1>1. HidOnly(h, s, d)
  BY DEF HidOnly, Good, HostOK, HostFields, HidOK, HidFields
<1>2. /\ s.hid[d].sdp = c /\ s.hid[d].handler = h.hid[d].handler
      /\ s.hid[d].control = h.hid[d].control /\ s.hid[d].interrupt = h.hid[d].interrupt
  BY DEF Good, HostOK, HostFields, HidOK, HidFields
<1>3. HidRight(h, d, h.hid[d])
  BY HidIsRight
<1> HIDE DEF s
<1>4. HidRight(h, d, s.hid[d])
  BY <1>1, <1>2, <1>3 DEF HidRight, HidOK, HidOnly
<1>5. Steps(h, s)
  BY <1>1, <1>4, HidOnlySteps
<1>6. QED
  BY <1>5 DEF s

LEMMA OpenChannelsSteps ==
  ASSUME NEW h, Good(h), NEW d \in Dev, NEW listen
  PROVE  Steps(h, OpenChannels(h, d, listen))
<1> DEFINE a == L2Open(h, d, "control", listen)
           s == [a EXCEPT !.hid[d].control = h.cid]
           b == L2Open(s, d, "interrupt", listen)
           r == [b EXCEPT !.hid[d].interrupt = s.cid]
<1>1. OpenChannels(h, d, listen) = r
  BY DEF OpenChannels, FreshCid
<1>2. h.cid \in Nat \ {0} /\ "control" \in Psms /\ "interrupt" \in Psms
  BY DEF Good, HostOK, Psms
<1>3. L2Opened(h, a, d, "control")
  BY <1>2, L2OpenOpens
<1> HIDE DEF a
<1>4. Steps(h, a) /\ Good(a) /\ h.cid \in 0..(a.cid - 1) /\ Own(a, h.cid, d, "control")
  BY <1>2, <1>3 DEF L2Opened, Steps
<1>5. Steps(a, s)
  BY <1>4, ControlKept
<1> HIDE DEF s
<1>6. Good(s) /\ s.cid \in Nat \ {0}
  BY <1>5 DEF Steps, Good, HostOK
<1>7. L2Opened(s, b, d, "interrupt")
  BY <1>2, <1>6, L2OpenOpens
<1> HIDE DEF b
<1>8. Steps(s, b) /\ Good(b) /\ s.cid \in 1..(b.cid - 1) /\ Own(b, s.cid, d, "interrupt")
  BY <1>6, <1>7 DEF L2Opened, Steps
<1>9. Steps(b, r)
  BY <1>8, InterruptKept
<1> HIDE DEF r
<1>10. QED
  BY <1>1, <1>4, <1>5, <1>8, <1>9, StepsOn

LEMMA HidConnectedSteps ==
  ASSUME NEW h, Good(h), NEW d \in Dev
  PROVE  Steps(h, HidConnected(h, d))
<1> DEFINE s == IF h.hid[d].reconnect THEN OpenChannels(h, d, TRUE) ELSE h
           r == CmdTo(s, "NAME", d)
<1>1. HidConnected(h, d) = [r EXCEPT !.hid[d].state = "READING_NAME"]
  BY DEF HidConnected
<1>2. Steps(h, h)
  BY DEF Steps
<1>3. Steps(h, OpenChannels(h, d, TRUE))
  BY OpenChannelsSteps
<1>4. Steps(h, s)
  BY <1>2, <1>3
<1> HIDE DEF s
<1>5. Good(s) /\ "NAME" \in LinkCommands
  BY <1>4 DEF Steps, LinkCommands
<1>6. Steps(s, r)
  BY <1>5, CmdToSteps
<1> HIDE DEF r
<1>7. Good(r)
  BY <1>6 DEF Steps
<1>8. Steps(r, [r EXCEPT !.hid[d].state = "READING_NAME"])
  BY <1>7, StateSteps
<1>9. QED
  BY <1>1, <1>4, <1>6, <1>8, StepsOn

LEMMA AuthenticationRequestedSteps ==
  ASSUME NEW h, Good(h), NEW d \in Dev
  PROVE  Steps(h, AuthenticationRequested(h, d))
<1>1. Steps(h, h) /\ "AUTH" \in LinkCommands
  BY DEF Steps, LinkCommands
<1>2. Steps(h, CmdTo(h, "AUTH", d))
  BY <1>1, CmdToSteps
<1>3. QED
  BY <1>1, <1>2 DEF AuthenticationRequested

LEMMA RemoteNameSteps ==
  ASSUME NEW h, Good(h), NEW d \in Dev
  PROVE  Steps(h, RemoteName(h, d))
<1>1. CASE h.hid[d].reconnect
  BY <1>1, StateSteps DEF RemoteName
<1>2. CASE ~h.hid[d].reconnect /\ h.key[d]
  <2> DEFINE s == AuthenticationRequested(h, d)
  <2>1. RemoteName(h, d) = [s EXCEPT !.hid[d].state = "AUTHENTICATING"]
    BY <1>2 DEF RemoteName
  <2>2. Steps(h, s) /\ Good(s)
    BY AuthenticationRequestedSteps DEF Steps
  <2> HIDE DEF s
  <2>3. Steps(s, [s EXCEPT !.hid[d].state = "AUTHENTICATING"])
    BY <2>2, StateSteps
  <2>4. QED
    BY <2>1, <2>2, <2>3, StepsOn
<1>3. CASE ~h.hid[d].reconnect /\ ~h.key[d]
  <2> DEFINE a == L2Open(h, d, "sdp", FALSE)
             s == [a EXCEPT !.hid[d].sdp = h.cid, !.hid[d].state = "READING_SDP"]
  <2>1. RemoteName(h, d) = s
    BY <1>3 DEF RemoteName, FreshCid
  <2>2. h.cid \in Nat \ {0} /\ "sdp" \in Psms
    BY DEF Good, HostOK, Psms
  <2>3. L2Opened(h, a, d, "sdp")
    BY <2>2, L2OpenOpens
  <2> HIDE DEF a
  <2>4. Steps(h, a) /\ Good(a) /\ h.cid \in 0..(a.cid - 1) /\ Own(a, h.cid, d, "sdp")
    BY <2>2, <2>3 DEF L2Opened, Steps
  <2>5. Steps(a, s)
    BY <2>4, SdpKept
  <2> HIDE DEF s
  <2>6. QED
    BY <2>1, <2>4, <2>5, StepsOn
<1>4. QED
  BY <1>1, <1>2, <1>3

LEMMA AuthenticationCompleteSteps ==
  ASSUME NEW h, Good(h), NEW d \in Dev
  PROVE  Steps(h, AuthenticationComplete(h, d))
<1>1. Steps(h, h)
  BY DEF Steps
<1>2. QED
  BY <1>1, OpenChannelsSteps DEF AuthenticationComplete

LEMMA HidDisconnectedSteps ==
  ASSUME NEW h, Good(h), NEW d \in Dev
  PROVE  Steps(h, HidDisconnected(h, d))
<1> DEFINE f == h.hid[d]
           a == L2Close(h, f.sdp, TRUE)
           b == L2Close(a, f.control, TRUE)
           s == L2Close(b, f.interrupt, TRUE)
           g == [f EXCEPT !.reconnect = FALSE, !.interrupt = 0, !.control = 0,
                          !.state = "CLOSED", !.slot = NoSlot]
           r == [s EXCEPT !.hid[d] = g, !.slot = SlotsFreed(h, d)]
<1>1. HidDisconnected(h, d) = r
  BY DEF HidDisconnected
<1>2. HidRight(h, d, f) /\ DOMAIN f = HidFields
  BY HidIsRight DEF HidRight, HidOK
<1>3. /\ DOMAIN g = HidFields /\ g.sdp = f.sdp /\ g.handler = f.handler
      /\ g.interrupt = 0 /\ g.control = 0 /\ g.slot = NoSlot
  BY <1>2 DEF HidFields
<1>4. Keeps(h, a) /\ a.handle = h.handle
  BY L2CloseKeeps DEF Good
<1> HIDE DEF a
<1>5. HostOK(a)
  BY <1>4 DEF Keeps
<1>6. Keeps(a, b) /\ b.handle = h.handle
  BY <1>4, <1>5, L2CloseKeeps
<1> HIDE DEF b
<1>7. HostOK(b)
  BY <1>6 DEF Keeps
<1>8. Keeps(b, s) /\ s.handle = h.handle
  BY <1>6, <1>7, L2CloseKeeps
<1> HIDE DEF s
<1>9. Keeps(h, s)
  BY <1>4, <1>6, <1>8, KeepsOn
<1>10. HostOK(s) /\ Good(s) /\ s.hid = h.hid /\ s.slot = h.slot /\ s.cid = h.cid /\ s.known = h.known
  BY <1>9, KeepsGood DEF Keeps
<1> HIDE DEF g
<1>11. /\ DOMAIN r = HostFields /\ r.handle = s.handle /\ r.sock = s.sock /\ r.cid = s.cid
       /\ r.tx = s.tx /\ r.held = s.held /\ r.known = s.known
       /\ r.slot = SlotsFreed(h, d) /\ DOMAIN r.hid = Dev
       /\ \A e \in Dev : r.hid[e] = IF e = d THEN g ELSE s.hid[e]
  BY <1>10 DEF HostOK, HostFields
<1> HIDE DEF r
<1>12. HidRight(s, d, f)
  BY <1>10, HidIsRight
<1>13. HidOK(g, s.cid)
  <2>1. s.cid \in Nat \ {0} /\ 0 \in 0..(s.cid - 1)
    BY <1>10 DEF HostOK
  <2>2. QED
    BY <1>3, <1>12, <2>1 DEF HidRight, HidOK
<1>14. r.slot \in [Slots -> BOOLEAN] /\ \A i \in Slots : r.slot[i] <=> (h.slot[i] /\ i # f.slot)
  BY <1>11 DEF SlotsFreed, Good, HostOK
<1>15. HostOK(r)
  <2>1. KnownTo(r) = KnownTo(s)
    BY <1>11 DEF KnownTo
  <2>2. QED
    BY <1>10, <1>11, <1>13, <1>14, <2>1 DEF HostOK
<1>16. OwnIds(r)
  <2>1. ~Live(r, 0)
    BY DEF Live, Cids
  <2>2. OwnIds(s)
    BY <1>10 DEF Good
  <2>3. \A c, e, psm : Own(r, c, e, psm) <=> Own(s, c, e, psm)
    BY <1>11 DEF Own, Live
  <2>4. ASSUME NEW e \in Dev
        PROVE  /\ Own(r, r.hid[e].sdp, e, "sdp") /\ Own(r, r.hid[e].handler, e, "sdp")
               /\ Own(r, r.hid[e].control, e, "control")
               /\ Own(r, r.hid[e].interrupt, e, "interrupt")
    <3>1. CASE e = d
      <4>1. Own(r, 0, d, "control") /\ Own(r, 0, d, "interrupt")
        BY <2>1 DEF Own
      <4>2. QED
        BY <1>3, <1>11, <1>12, <2>3, <3>1, <4>1 DEF HidRight
    <3>2. CASE e # d
      BY <1>11, <2>2, <2>3, <3>2 DEF OwnIds
    <3>3. QED
      BY <3>1, <3>2
  <2>5. QED
    BY <2>4 DEF OwnIds
<1>17. SlotsOK(r)
  <2>1. SlotsOK(h) /\ NoSlot \notin Slots
    BY BtHostAssumption DEF Good
  <2>2. /\ r.hid[d].slot = NoSlot
        /\ \A e \in Dev : e # d => r.hid[e].slot = h.hid[e].slot /\ r.hid[e].interrupt = h.hid[e].interrupt
    BY <1>3, <1>10, <1>11
  <2>3. \A e \in Dev : r.hid[e].slot # NoSlot => r.hid[e].interrupt # 0
    BY <2>1, <2>2 DEF SlotsOK
  <2>4. \A e1, e2 \in Dev : e1 # e2 /\ r.hid[e1].slot # NoSlot => r.hid[e1].slot # r.hid[e2].slot
    BY <2>1, <2>2 DEF SlotsOK
  <2>5. ASSUME NEW i \in Slots
        PROVE  r.slot[i] <=> \E e \in Dev : r.hid[e].slot = i
    <3>1. i # NoSlot /\ (h.slot[i] <=> \E e \in Dev : h.hid[e].slot = i)
      BY <2>1 DEF SlotsOK
    <3>2. CASE i = f.slot
      <4>1. \A e \in Dev : e # d => h.hid[e].slot # i
        BY <2>1, <3>1, <3>2 DEF SlotsOK
      <4>2. QED
        BY <1>14, <2>2, <3>1, <3>2, <4>1
    <3>3. CASE i # f.slot
      BY <1>14, <2>2, <3>1, <3>3
    <3>4. QED
      BY <3>2, <3>3
  <2>6. QED
    BY <2>3, <2>4, <2>5 DEF SlotsOK
<1>18. QED
  BY <1>1, <1>8, <1>10, <1>11, <1>15, <1>16, <1>17 DEF Steps, Good
-----------------------------------------------------------------------------
(* Events *)

\* Of device d the host knows whether it is connected; of the others it knows
\* what it knew.
Linked(h, s, d, up) ==
  /\ Good(s)
  /\ KnownTo(h) \subseteq KnownTo(s)
  /\ (s.handle[d] = d) <=> up
  /\ \A e \in Dev : e # d => s.handle[e] = h.handle[e]

LEMMA HandleLinked ==
  ASSUME NEW h, Good(h), NEW d \in Dev, NEW v \in Handles
  PROVE  Linked(h, [h EXCEPT !.handle[d] = v], d, v = d)
<1> DEFINE s == [h EXCEPT !.handle[d] = v]
<1>1. /\ DOMAIN s = HostFields /\ s.handle = [h.handle EXCEPT ![d] = v]
      /\ s.sock = h.sock /\ s.cid = h.cid /\ s.known = h.known
      /\ s.tx = h.tx /\ s.held = h.held /\ s.slot = h.slot /\ s.hid = h.hid
  BY DEF Good, HostOK, HostFields
<1> HIDE DEF s
<1>2. h.handle \in [Dev -> Handles] /\ h.known \in Seq(Dev)
  BY DEF Good, HostOK
<1>3. s.handle \in [Dev -> Handles] /\ s.known \in Seq(Dev) /\ KnownTo(h) \subseteq KnownTo(s)
  BY <1>1, <1>2 DEF KnownTo
<1>4. Good(s)
  BY <1>1, <1>3, PartsGood
<1>5. Linked(h, s, d, v = d)
  BY <1>1, <1>2, <1>3, <1>4 DEF Linked
<1>6. QED
  BY <1>5 DEF s

LEMMA LinkedOn ==
  ASSUME NEW h, NEW s, NEW r, NEW d \in Dev, NEW up, Linked(h, s, d, up), Steps(s, r)
  PROVE  Linked(h, r, d, up)
<1>1. KnownTo(r) = KnownTo(s) /\ Good(r) /\ r.handle = s.handle
  BY DEF Steps, KnownTo
<1>2. QED
  BY <1>1 DEF Linked

LEMMA ConnectionCompleteLinked ==
  ASSUME NEW h, Good(h), NEW d \in KnownTo(h), d \in Dev, NEW ok \in BOOLEAN
  PROVE  Linked(h, ConnectionComplete(h, d, ok), d, ok)
<1> DEFINE on == [h EXCEPT !.handle[d] = d]
           off == [h EXCEPT !.handle[d] = "none"]
<1>1. d \in Handles /\ "none" \in Handles /\ "none" # d
  BY BtHostAssumption DEF Handles
<1>2. Linked(h, on, d, d = d) /\ Linked(h, off, d, "none" = d)
  BY <1>1, HandleLinked
<1>3. Linked(h, on, d, TRUE) /\ Linked(h, off, d, FALSE)
  BY <1>1, <1>2
<1>4. ConnectionComplete(h, d, ok) = DongleBug(IF ok THEN HidConnected(on, d) ELSE off)
  BY ContainsKnown DEF ConnectionComplete
<1> HIDE DEF on, off
<1>5. CASE ok
  <2> DEFINE s == HidConnected(on, d)
  <2>1. Steps(on, s)
    BY <1>3, HidConnectedSteps DEF Linked
  <2>2. ConnectionComplete(h, d, ok) = DongleBug(s)
    BY <1>4, <1>5
  <2> HIDE DEF s
  <2>3. Linked(h, s, d, TRUE) /\ Good(s)
    BY <1>3, <2>1, LinkedOn DEF Steps
  <2>4. Steps(s, DongleBug(s))
    BY <2>3, DongleBugSteps
  <2>5. Linked(h, DongleBug(s), d, TRUE)
    BY <2>3, <2>4, LinkedOn
  <2>6. QED
    BY <1>5, <2>2, <2>5
<1>6. CASE ~ok
  <2>1. ConnectionComplete(h, d, ok) = DongleBug(off)
    BY <1>4, <1>6
  <2>2. Steps(off, DongleBug(off))
    BY <1>3, DongleBugSteps DEF Linked
  <2>3. Linked(h, DongleBug(off), d, FALSE)
    BY <1>3, <2>2, LinkedOn
  <2>4. QED
    BY <1>6, <2>1, <2>3
<1>7. QED
  BY <1>5, <1>6

LEMMA DisconnectionLinked ==
  ASSUME NEW h, Good(h), NEW d \in Dev
  PROVE  Linked(h, HidDisconnected(DisconnectAll(h, d), d), d, FALSE)
<1> DEFINE s == DisconnectAll(h, d)
<1>1. Keeps(h, s) /\ s.handle = [h.handle EXCEPT ![d] = "none"]
  BY DisconnectKeeps DEF Good
<1> HIDE DEF s
<1>2. Good(s) /\ s.known = h.known
  BY <1>1, KeepsGood DEF Keeps
<1>3. h.handle \in [Dev -> Handles] /\ d # "none"
  BY BtHostAssumption DEF Good, HostOK
<1>4. Linked(h, s, d, FALSE)
  BY <1>1, <1>2, <1>3 DEF Linked, KnownTo
<1>5. Steps(s, HidDisconnected(s, d))
  BY <1>2, HidDisconnectedSteps
<1>6. Linked(h, HidDisconnected(s, d), d, FALSE)
  BY <1>4, <1>5, LinkedOn
<1>7. QED
  BY <1>6 DEF s

LEMMA HciSteps ==
  ASSUME NEW h, Good(h), NEW v
  PROVE  Steps(h, [h EXCEPT !.hci = v])
<1> DEFINE q == [h EXCEPT !.hci = v]
<1>1. /\ DOMAIN q = HostFields /\ q.handle = h.handle /\ q.sock = h.sock /\ q.cid = h.cid
      /\ q.tx = h.tx /\ q.known = h.known /\ q.slot = h.slot /\ q.hid = h.hid /\ q.held = h.held
  BY DEF Good, HostOK, HostFields
<1>2. h.held \in Said \union {NoPacket}
  BY DEF Good, HostOK
<1> HIDE DEF q
<1>3. Steps(h, q)
  BY <1>1, <1>2, AsideSteps
<1>4. QED
  BY <1>3 DEF q

LEMMA CmdSteps ==
  ASSUME NEW h, Good(h), NEW c \in HostCommands
  PROVE  Steps(h, Cmd(h, c))
  BY CmdWrites, WritesSteps DEF Good

LEMMA StartInquirySteps ==
  ASSUME NEW h, Good(h)
  PROVE  Steps(h, StartInquiry(h))
<1>1. CASE "INQUIRY" \in h.hci
  BY <1>1 DEF StartInquiry, Steps
<1>2. CASE "INQUIRY" \notin h.hci
  <2> DEFINE v == h.hci \cup {"INQUIRY"}
             s == [h EXCEPT !.hci = v]
  <2>1. StartInquiry(h) = Cmd(s, "INQUIRY")
    BY <1>2 DEF StartInquiry, Good, HostOK, HostFields
  <2> HIDE DEF v
  <2>2. Steps(h, s)
    BY HciSteps
  <2> HIDE DEF s
  <2>3. Steps(s, Cmd(s, "INQUIRY"))
    BY <2>2, CmdSteps DEF Steps, HostCommands
  <2>4. QED
    BY <2>1, <2>2, <2>3, StepsOn
<1>3. QED
  BY <1>1, <1>2

LEMMA CommandCompleteSteps ==
  ASSUME NEW h, Good(h), NEW c \in HostCommands
  PROVE  Steps(h, CommandComplete(h, c))
<1>1. \A s : Good(s) => \A x \in HostCommands : Steps(s, Cmd(s, x))
  BY CmdSteps
<1>2. CASE c = "RESET"
  <2> DEFINE s == Cmd(h, "READ_BUFFER_SIZE")
             v == s.hci \cup {"RESET"}
  <2>1. Steps(h, s) /\ Good(s)
    BY <1>1 DEF HostCommands, Steps
  <2>2. CommandComplete(h, c) = [s EXCEPT !.hci = v]
    BY <1>2, <2>1 DEF CommandComplete, Good, HostOK, HostFields
  <2> HIDE DEF s, v
  <2>3. Steps(s, [s EXCEPT !.hci = v])
    BY <2>1, HciSteps
  <2>4. QED
    BY <2>1, <2>2, <2>3, StepsOn
<1>3. CASE c = "READ_BUFFER_SIZE"
  <2> DEFINE s == Cmd(h, "READ_BD_ADDR")
             v == s.hci \cup {"READ_BUFFER_SIZE"}
  <2>1. Steps(h, s) /\ Good(s)
    BY <1>1 DEF HostCommands, Steps
  <2>2. CommandComplete(h, c) = [s EXCEPT !.hci = v]
    BY <1>3, <2>1 DEF CommandComplete, Good, HostOK, HostFields
  <2> HIDE DEF s, v
  <2>3. Steps(s, [s EXCEPT !.hci = v])
    BY <2>1, HciSteps
  <2>4. QED
    BY <2>1, <2>2, <2>3, StepsOn
<1>4. CASE c = "READ_BD_ADDR"
  <2> DEFINE a == Cmd(h, "WRITE_CLASS")
             s == Cmd(a, "WRITE_SCAN_ENABLE")
             v == s.hci \cup {"READ_BD_ADDR"}
  <2>1. Steps(h, a) /\ Good(a)
    BY <1>1 DEF HostCommands, Steps
  <2>2. Steps(a, s) /\ Good(s)
    BY <1>1, <2>1 DEF HostCommands, Steps
  <2>3. CommandComplete(h, c) = [s EXCEPT !.hci = v]
    BY <1>4, <2>2 DEF CommandComplete, Good, HostOK, HostFields
  <2> HIDE DEF a, s, v
  <2>4. Steps(s, [s EXCEPT !.hci = v])
    BY <2>2, HciSteps
  <2>5. QED
    BY <2>1, <2>2, <2>3, <2>4, StepsOn
<1>5. CASE c = "WRITE_SCAN_ENABLE"
  <2> DEFINE v == h.hci \cup {"INITED"}
             s == [h EXCEPT !.hci = v]
             r == StartInquiry(s)
  <2>1. CommandComplete(h, c) = Cmd(r, "WRITE_AUTH_ENABLE")
    BY <1>5 DEF CommandComplete, Good, HostOK, HostFields
  <2> HIDE DEF v
  <2>2. Steps(h, s)
    BY HciSteps
  <2> HIDE DEF s
  <2>3. Steps(s, r)
    BY <2>2, StartInquirySteps DEF Steps
  <2> HIDE DEF r
  <2>4. Steps(r, Cmd(r, "WRITE_AUTH_ENABLE"))
    BY <1>1, <2>3 DEF Steps, HostCommands
  <2>5. QED
    BY <2>1, <2>2, <2>3, <2>4, StepsOn
<1>6. CASE c \notin {"RESET", "READ_BUFFER_SIZE", "READ_BD_ADDR", "WRITE_SCAN_ENABLE"}
  BY <1>6 DEF CommandComplete, Steps
<1>7. QED
  BY <1>2, <1>3, <1>4, <1>5, <1>6

\* The devices are paged one after the other.
LEMMA InquiryTurns ==
  ASSUME NEW h, Good(h)
  PROVE  \E upTo : /\ upTo[0] = [h EXCEPT !.hci = h.hci \ {"INQUIRY"}]
                   /\ \A n \in 1..Len(h.known) : upTo[n] = HidConnect(upTo[n - 1], h.known[n])
                   /\ InquiryDone(h) = upTo[Len(h.known)]
<1> DEFINE N == Len(h.known)
           v == h.hci \ {"INQUIRY"}
           start == [h EXCEPT !.hci = v]
           Turn(s, n) == HidConnect(s, h.known[n])
           Rec(f, n) == f = [i \in 0..n |-> IF i = 0 THEN start ELSE Turn(f[i - 1], i)]
<1>1. N \in Nat
  BY DEF Good, HostOK
<1>2. ASSUME NEW n \in Nat PROVE \E f : Rec(f, n)
  <2> DEFINE T == {m \in Nat : ~(\E f : Rec(f, m))}
  <2>1. SUFFICES ASSUME T # {} PROVE FALSE
    BY <1>2
  <2>2. PICK m \in T : \A k \in T : m <= k
    BY <2>1, Smallest
  <2> HIDE DEF Turn, start
  <2>3. m # 0
    <3>1. Rec([i \in 0..0 |-> start], 0)
      OBVIOUS
    <3>2. QED
      BY <2>2, <3>1
  <2>4. m - 1 \in Nat /\ m - 1 \notin T
    BY <2>2, <2>3
  <2> HIDE DEF Rec
  <2>5. \E f : Rec(f, m - 1)
    BY <2>4
  <2>6. PICK f : Rec(f, m - 1)
    BY <2>5
  <2> USE DEF Rec
  <2> DEFINE g == [i \in 0..m |-> IF i = m THEN Turn(f[m - 1], m) ELSE f[i]]
  <2>7. \A i \in 0..(m - 1) : f[i] = IF i = 0 THEN start ELSE Turn(f[i - 1], i)
    BY <2>6
  <2>8. \A i \in 0..m : g[i] = IF i = 0 THEN start ELSE Turn(g[i - 1], i)
    <3>1. \A i \in 0..(m - 1) : g[i] = f[i]
      BY <2>4
    <3>2. g[m] = Turn(f[m - 1], m) /\ m - 1 \in 0..(m - 1)
      BY <2>4
    <3> HIDE DEF g
    <3>3. \A i \in 0..m : i = m \/ i \in 0..(m - 1)
      BY <2>4
    <3>4. \A i \in 0..(m - 1) : i # 0 => i - 1 \in 0..(m - 1)
      BY <2>4
    <3>5. QED
      BY <2>3, <2>7, <3>1, <3>2, <3>3, <3>4
  <2>9. Rec(g, m)
    BY <2>8
  <2>10. QED
    BY <2>2, <2>9
<1> DEFINE upTo == CHOOSE f : Rec(f, N)
<1>3. upTo = [i \in 0..N |-> IF i = 0 THEN start ELSE Turn(upTo[i - 1], i)]
  BY <1>1, <1>2
<1>4. InquiryDone(h) = upTo[N]
  BY DEF InquiryDone, Good, HostOK, HostFields
<1> HIDE DEF upTo, Turn, start, N
<1>5. upTo[0] = start /\ \A n \in 1..N : upTo[n] = Turn(upTo[n - 1], n)
  BY <1>1, <1>3
<1>6. QED
  BY <1>4, <1>5 DEF Turn, start, N

LEMMA InquiryDoneMoves ==
  ASSUME NEW h, Good(h)
  PROVE  Moves(h, InquiryDone(h))
<1> DEFINE N == Len(h.known)
           v == h.hci \ {"INQUIRY"}
           start == [h EXCEPT !.hci = v]
<1>1. N \in Nat /\ \A n \in 1..N : h.known[n] \in Dev /\ h.known[n] \in KnownTo(h)
  BY DEF Good, HostOK, KnownTo
<1>2. PICK upTo : /\ upTo[0] = start
                  /\ \A n \in 1..N : upTo[n] = HidConnect(upTo[n - 1], h.known[n])
                  /\ InquiryDone(h) = upTo[N]
  BY InquiryTurns
<1>3. ASSUME NEW s, NEW n \in 1..N, Moves(h, s) PROVE Moves(h, HidConnect(s, h.known[n]))
  <2> DEFINE d == h.known[n]
  <2>1. Good(s) /\ d \in Dev /\ d \in KnownTo(s)
    BY <1>1, <1>3 DEF Moves
  <2> HIDE DEF d
  <2>2. Moves(s, HidConnect(s, d))
    BY <2>1, HidConnectMoves
  <2>3. QED
    BY <1>3, <2>2, MovesOn DEF d
<1> HIDE DEF v
<1>4. Moves(h, start)
  BY HciSteps, StepsMoves
<1> HIDE DEF start, N
<1>5. \A n \in 0..N : Moves(h, upTo[n])
  <2> DEFINE T == {n \in 0..N : ~Moves(h, upTo[n])}
  <2>1. SUFFICES ASSUME T # {} PROVE FALSE
    OBVIOUS
  <2>2. T \in SUBSET Nat
    BY <1>1
  <2> HIDE DEF T
  <2>3. PICK m \in T : \A k \in T : m <= k
    BY <2>1, <2>2, Smallest
  <2> USE DEF T
  <2>4. m \in 0..N /\ m # 0
    BY <1>2, <1>4, <2>3
  <2>5. m \in 1..N /\ m - 1 \in 0..N
    BY <1>1, <2>4
  <2>6. m - 1 \notin T
    BY <2>2, <2>3, <2>5
  <2>7. Moves(h, upTo[m - 1])
    BY <2>5, <2>6
  <2>8. Moves(h, upTo[m])
    BY <1>2, <1>3, <2>5, <2>7
  <2>9. QED
    BY <2>3, <2>8
<1>6. QED
  BY <1>1, <1>2, <1>5

\* What an event tells, and what the host makes of it.
LEMMA ToldFields ==
  ASSUME NEW K, NEW e \in Told(K)
  PROVE  /\ e.t \notin {"SIG", "DATA"}
         /\ \/ e.t = "COMPLETE" /\ e.c \in HostCommands
            \/ e.t = "INQUIRY_DONE"
            \/ e.t = "CONNECTION" /\ e.dev \in K /\ e.ok \in BOOLEAN
            \/ e.t = "DISCONNECTION" /\ e.dev \in Dev
            \/ e.t \in LinkEvents \union {"INQUIRY_RESULT", "CONNECTION_REQUEST"} /\ e.dev \in Dev
  BY DEF Told, LinkEvents

\* The link of the devices after packet p.
Hears(h, s, p) ==
  CASE p.t = "CONNECTION" -> Linked(h, s, p.dev, p.ok)
    [] p.t = "DISCONNECTION" -> Linked(h, s, p.dev, FALSE)
    [] OTHER -> Moves(h, s)

LEMMA EventHears ==
  ASSUME NEW h, Good(h), NEW e \in Told(KnownTo(h))
  PROVE  Hears(h, HciEvent(h, e), e)
<1> DEFINE s == HciEvent(h, e)
<1>1. Moves(h, h)
  BY DEF Moves
<1>2. CASE e.t = "COMPLETE"
  <2>1. e.c \in HostCommands
    BY <1>2, ToldFields DEF LinkEvents
  <2>2. s = CommandComplete(h, e.c)
    BY <1>2 DEF HciEvent
  <2>3. Moves(h, s)
    BY <2>1, <2>2, CommandCompleteSteps, StepsMoves
  <2>4. QED
    BY <1>2, <2>3 DEF Hears
<1>3. CASE e.t = "INQUIRY_DONE"
  BY <1>3, InquiryDoneMoves DEF HciEvent, Hears
<1>4. CASE e.t = "CONNECTION"
  <2>1. e.dev \in KnownTo(h) /\ e.ok \in BOOLEAN
    BY <1>4, ToldFields DEF LinkEvents
  <2>2. e.dev \in Dev
    BY <2>1 DEF Good, HostOK, KnownTo
  <2>3. Linked(h, ConnectionComplete(h, e.dev, e.ok), e.dev, e.ok)
    BY <2>1, <2>2, ConnectionCompleteLinked
  <2>4. QED
    BY <1>4, <2>3 DEF HciEvent, Hears
<1>5. CASE e.t = "DISCONNECTION"
  <2>1. e.dev \in Dev
    BY <1>5, ToldFields
  <2>2. CASE Connected(h, e.dev)
    BY <1>5, <2>1, <2>2, DisconnectionLinked DEF HciEvent, Hears
  <2>3. CASE ~Connected(h, e.dev)
    <3>1. s = h
      BY <1>5, <2>3 DEF HciEvent
    <3>2. Linked(h, h, e.dev, FALSE)
      BY <2>3 DEF Connected, Linked
    <3>3. QED
      BY <1>5, <3>1, <3>2 DEF Hears
  <2>4. QED
    BY <2>2, <2>3
<1>6. CASE e.t = "INQUIRY_RESULT"
  <2>1. e.dev \in Dev
    BY <1>6, ToldFields
  <2>2. Moves(h, AddDevice(h, e.dev))
    BY <2>1, AddDeviceMoves
  <2>3. QED
    BY <1>6, <2>2 DEF HciEvent, Hears
<1>7. CASE e.t = "CONNECTION_REQUEST"
  <2>1. e.dev \in Dev
    BY <1>7, ToldFields
  <2>2. Moves(h, ConnectionRequest(h, e.dev))
    BY <2>1, ConnectionRequestMoves
  <2>3. QED
    BY <1>7, <2>2 DEF HciEvent, Hears
<1>8. CASE e.t \in LinkEvents
  <2> DEFINE d == e.dev
  <2>1. d \in Dev
    BY <1>8, ToldFields DEF LinkEvents
  <2>2. Steps(h, h)
    BY DEF Steps
  <2>3. Steps(h, s)
    <3>1. CASE e.t = "AUTHENTICATION"
      BY <2>1, <2>2, <3>1, AuthenticationCompleteSteps DEF HciEvent
    <3>2. CASE e.t = "REMOTE_NAME"
      BY <2>1, <2>2, <3>2, RemoteNameSteps DEF HciEvent
    <3>3. CASE e.t = "LINK_KEY_REQUEST"
      <4>1. Steps(h, CmdTo(h, "KEY_REPLY", d)) /\ Steps(h, CmdTo(h, "KEY_NEG_REPLY", d))
        BY <2>1, CmdToSteps DEF LinkCommands
      <4>2. QED
        BY <3>3, <4>1 DEF HciEvent
    <3>4. CASE e.t = "PIN_CODE_REQUEST"
      <4>1. Steps(h, CmdTo(h, "PIN_REPLY", d))
        BY <2>1, CmdToSteps DEF LinkCommands
      <4>2. QED
        BY <3>4, <4>1 DEF HciEvent
    <3>5. CASE e.t = "LINK_KEY_NOTIFICATION"
      <4>1. /\ DOMAIN s = HostFields /\ s.handle = h.handle /\ s.sock = h.sock /\ s.cid = h.cid
            /\ s.tx = h.tx /\ s.known = h.known /\ s.slot = h.slot /\ s.hid = h.hid /\ s.held = h.held
        BY <3>5 DEF HciEvent, Good, HostOK, HostFields
      <4>2. h.held \in Said \union {NoPacket}
        BY DEF Good, HostOK
      <4> HIDE DEF s
      <4>3. QED
        BY <4>1, <4>2, AsideSteps
    <3>6. QED
      BY <1>8, <3>1, <3>2, <3>3, <3>4, <3>5 DEF LinkEvents
  <2>4. Moves(h, s)
    BY <2>3, StepsMoves
  <2>5. QED
    BY <1>8, <2>4 DEF Hears, LinkEvents
<1>9. QED
  BY <1>2, <1>3, <1>4, <1>5, <1>6, <1>7, <1>8, ToldFields

LEMMA ReceivedHears ==
  ASSUME NEW h, Good(h), NEW p \in Told(KnownTo(h)) \union Said
  PROVE  Hears(h, Received(h, p), p)
<1>1. CASE p \in Said
  <2>1. p.t \in {"SIG", "DATA"}
    BY <1>1, SaidFields
  <2>2. Moves(h, Acl(h, p))
    BY <1>1, AclSteps, StepsMoves
  <2>3. QED
    BY <2>1, <2>2 DEF Received, Hears
<1>2. CASE p \in Told(KnownTo(h))
  <2>1. p.t \notin {"SIG", "DATA"}
    BY <1>2, ToldFields
  <2>2. QED
    BY <1>2, <2>1, EventHears DEF Received
<1>3. QED
  BY <1>1, <1>2
-----------------------------------------------------------------------------
(* Reports *)

LEMMA SlotTaken ==
  ASSUME NEW h, Good(h), NEW d \in Dev, h.hid[d].slot = NoSlot, h.hid[d].interrupt # 0,
         NEW i \in Slots, Takes(h, i)
  PROVE  Steps(h, [h EXCEPT !.slot[i] = TRUE, !.hid[d].slot = i])
<1> DEFINE s == [h EXCEPT !.slot[i] = TRUE, !.hid[d].slot = i]
<1>1. /\ DOMAIN s = HostFields /\ s.handle = h.handle /\ s.sock = h.sock /\ s.cid = h.cid
      /\ s.tx = h.tx /\ s.held = h.held /\ s.known = h.known
      /\ s.slot = [h.slot EXCEPT ![i] = TRUE]
      /\ DOMAIN s.hid = Dev /\ \A e \in Dev : e # d => s.hid[e] = h.hid[e]
  BY DEF Good, HostOK, HostFields
<1>2. /\ DOMAIN s.hid[d] = HidFields /\ s.hid[d].slot = i
      /\ s.hid[d].sdp = h.hid[d].sdp /\ s.hid[d].handler = h.hid[d].handler
      /\ s.hid[d].control = h.hid[d].control /\ s.hid[d].interrupt = h.hid[d].interrupt
  BY DEF Good, HostOK, HostFields, HidOK, HidFields
<1> HIDE DEF s
<1>3. HostOK(s)
  <2>1. KnownTo(s) = KnownTo(h)
    BY <1>1 DEF KnownTo
  <2>2. h.slot \in [Slots -> BOOLEAN] /\ HidOK(h.hid[d], h.cid)
    BY DEF Good, HostOK
  <2>3. s.slot \in [Slots -> BOOLEAN] /\ HidOK(s.hid[d], s.cid)
    BY <1>1, <1>2, <2>2 DEF HidOK
  <2>4. \A e \in Dev : HidOK(s.hid[e], s.cid)
    BY <1>1, <2>3 DEF Good, HostOK
  <2>5. QED
    BY <1>1, <2>1, <2>3, <2>4 DEF Good, HostOK
<1>4. OwnIds(s)
  <2>1. \A c, e, psm : Own(s, c, e, psm) <=> Own(h, c, e, psm)
    BY <1>1 DEF Own, Live
  <2>2. \A e \in Dev : /\ s.hid[e].sdp = h.hid[e].sdp /\ s.hid[e].handler = h.hid[e].handler
                       /\ s.hid[e].control = h.hid[e].control
                       /\ s.hid[e].interrupt = h.hid[e].interrupt
    BY <1>1, <1>2
  <2>3. QED
    BY <2>1, <2>2 DEF Good, OwnIds
<1>5. SlotsOK(s)
  <2>1. SlotsOK(h) /\ NoSlot \notin Slots /\ i # NoSlot
    BY BtHostAssumption DEF Good
  <2>2. \A e \in Dev : h.hid[e].slot # i
    BY <2>1 DEF SlotsOK, Takes
  <2>3. \A e \in Dev : s.hid[e].slot = IF e = d THEN i ELSE h.hid[e].slot
    BY <1>1, <1>2
  <2>4. \A e \in Dev : s.hid[e].slot # NoSlot => s.hid[e].interrupt # 0
    BY <1>1, <1>2, <2>1 DEF SlotsOK
  <2>5. \A e1, e2 \in Dev : e1 # e2 /\ s.hid[e1].slot # NoSlot => s.hid[e1].slot # s.hid[e2].slot
    BY <2>1, <2>2, <2>3 DEF SlotsOK
  <2>6. ASSUME NEW j \in Slots
        PROVE  s.slot[j] <=> \E e \in Dev : s.hid[e].slot = j
    <3>1. j # NoSlot /\ (h.slot[j] <=> \E e \in Dev : h.hid[e].slot = j)
      BY <2>1 DEF SlotsOK
    <3>2. s.slot[j] <=> (j = i \/ h.slot[j])
      BY <1>1 DEF Good, HostOK
    <3>3. QED
      BY <2>3, <3>1, <3>2
  <2>7. QED
    BY <2>4, <2>5, <2>6 DEF SlotsOK
<1>6. Steps(h, s)
  BY <1>1, <1>3, <1>4, <1>5 DEF Steps, Good
<1>7. QED
  BY <1>6 DEF s

LEMMA SendSteps ==
  ASSUME NEW h, Good(h), NEW c, NEW what \in Requests
  PROVE  Steps(h, Send(h, c, what))
  BY SendWrites, WritesSteps DEF Good

\* The first free slot is one, and free.
LEMMA FirstFreeTaken ==
  ASSUME NEW h, NEW j \in Slots, Takes(h, j)
  PROVE  FirstFree(h) \in Slots /\ Takes(h, FirstFree(h))
<1> DEFINE T == {i \in Slots : Takes(h, i)}
<1>1. T \in SUBSET Nat /\ T # {}
  BY BtHostAssumption
<1> HIDE DEF T
<1>2. PICK n \in T : \A m \in T : n <= m
  BY <1>1, Smallest
<1>3. n \in Slots /\ Takes(h, n) /\ \A i \in Slots : Takes(h, i) => n <= i
  BY <1>2 DEF T
<1>4. QED
  BY <1>3 DEF FirstFree

LEMMA FindSlotSteps ==
  ASSUME NEW h, Good(h), NEW d \in Dev, h.hid[d].interrupt # 0
  PROVE  Steps(h, FindSlot(h, d))
<1> DEFINE none == \/ d \notin WiiDev \/ h.hid[d].slot # NoSlot
                   \/ \A i \in Slots : ~Takes(h, i)
<1>1. CASE none
  BY <1>1 DEF FindSlot, Steps
<1>2. CASE ~none
  <2> DEFINE i == FirstFree(h)
             s == [h EXCEPT !.slot[i] = TRUE, !.hid[d].slot = i]
             c == h.hid[d].interrupt
             r == Send(s, c, "led")
  <2>1. i \in Slots /\ Takes(h, i)
    BY <1>2, FirstFreeTaken
  <2>2. FindSlot(h, d) = Send(r, c, "led")
    BY <1>2 DEF FindSlot
  <2> HIDE DEF i
  <2>3. Steps(h, s) /\ Good(s)
    BY <1>2, <2>1, SlotTaken DEF Steps
  <2> HIDE DEF s, c
  <2>4. Steps(s, r) /\ Good(r) /\ "led" \in Requests
    BY <2>3, SendSteps DEF Steps, Requests
  <2> HIDE DEF r
  <2>5. Steps(r, Send(r, c, "led"))
    BY <2>4, SendSteps
  <2>6. QED
    BY <2>2, <2>3, <2>4, <2>5, StepsOn
<1>3. QED
  BY <1>1, <1>2

LEMMA QueueSteps ==
  ASSUME NEW h, Good(h), NEW c, NEW v \in Seq(Replied)
  PROVE  Steps(h, [h EXCEPT !.sock[c].q = v])
  BY QueueEdits, EditsSteps DEF Good

LEMMA TailOfQueue ==
  ASSUME NEW h, Good(h), NEW c, Live(h, c), h.sock[c].q # <<>>
  PROVE  Tail(h.sock[c].q) \in Seq(Replied)
<1>1. h.sock[c].q \in Seq(Replied)
  BY LiveSocket DEF Good
<1>2. QED
  BY <1>1

LEMMA SdpDone ==
  ASSUME NEW h, Good(h), NEW d \in Dev, NEW v
  PROVE  Steps(h, [h EXCEPT !.hid[d].handler = 0, !.hid[d].sdp = 0, !.hid[d].state = v])
<1> DEFINE s == [h EXCEPT !.hid[d].handler = 0, !.hid[d].sdp = 0, !.hid[d].state = v]
<1>1. HidOnly(h, s, d)
  BY DEF HidOnly, Good, HostOK, HostFields, HidOK, HidFields
<1>2. /\ s.hid[d].sdp = 0 /\ s.hid[d].handler = 0
      /\ s.hid[d].control = h.hid[d].control /\ s.hid[d].interrupt = h.hid[d].interrupt
  BY DEF Good, HostOK, HostFields, HidOK, HidFields
<1>3. HidRight(h, d, h.hid[d])
  BY HidIsRight
<1>4. Own(h, 0, d, "sdp") /\ 0 \in 0..(h.cid - 1)
  BY DEF Own, Live, Cids, Good, HostOK
<1> HIDE DEF s
<1>5. HidRight(h, d, s.hid[d])
  BY <1>1, <1>2, <1>3, <1>4 DEF HidRight, HidOK, HidOnly
<1>6. Steps(h, s)
  BY <1>1, <1>5, HidOnlySteps
<1>7. QED
  BY <1>6 DEF s

LEMMA UpdateSdpSteps ==
  ASSUME NEW h, Good(h), NEW d \in Dev
  PROVE  Steps(h, UpdateSdp(h, d))
<1> DEFINE c == h.hid[d].handler
           rest == Tail(h.sock[c].q)
           s == [h EXCEPT !.sock[c].q = rest]
<1>1. CASE ~Live(h, c) \/ h.sock[c].q = <<>>
  BY <1>1 DEF UpdateSdp, Steps
<1>2. CASE Live(h, c) /\ h.sock[c].q # <<>>
  <2> DEFINE a == L2Close(s, h.hid[d].sdp, TRUE)
             b == [a EXCEPT !.hid[d].handler = 0, !.hid[d].sdp = 0,
                            !.hid[d].state = "AUTHENTICATING"]
  <2>1. UpdateSdp(h, d) = IF Head(h.sock[c].q) = "last" THEN AuthenticationRequested(b, d)
                          ELSE Send(s, c, "query")
    BY <1>2 DEF UpdateSdp
  <2>2. rest \in Seq(Replied)
    BY <1>2, TailOfQueue
  <2> HIDE DEF rest
  <2> HIDE DEF c
  <2>3. Steps(h, s)
    BY <2>2, QueueSteps
  <2> HIDE DEF s
  <2>4. Steps(h, s) /\ Good(s)
    BY <2>3 DEF Steps
  <2>5. Steps(s, Send(s, c, "query"))
    BY <2>4, SendSteps DEF Requests
  <2>6. Steps(s, a) /\ Good(a)
    BY <2>4, L2CloseSteps DEF Steps
  <2> HIDE DEF a
  <2>7. Steps(a, b) /\ Good(b)
    BY <2>6, SdpDone DEF Steps
  <2> HIDE DEF b
  <2>8. Steps(b, AuthenticationRequested(b, d))
    BY <2>7, AuthenticationRequestedSteps
  <2>9. Steps(h, AuthenticationRequested(b, d)) /\ Steps(h, Send(s, c, "query"))
    BY <2>4, <2>5, <2>6, <2>7, <2>8, StepsOn
  <2>10. QED
    BY <2>1, <2>9
<1>3. QED
  BY <1>1, <1>2

LEMMA GetFromSteps ==
  ASSUME NEW r, Good(r.h), NEW d \in Dev
  PROVE  Steps(r.h, GetFrom(r, d).h)
<1> DEFINE h == r.h
           c == h.hid[d].interrupt
           s == IF c # 0 /\ ~Live(h, c) THEN HidDisconnected(h, d) ELSE h
<1>1. Steps(h, h)
  BY DEF Steps
<1>2. CASE r.done
  BY <1>1, <1>2 DEF GetFrom
<1>3. CASE ~r.done /\ Live(h, c) /\ h.sock[c].q # <<>>
  <2> DEFINE rest == Tail(h.sock[c].q)
             q == [h EXCEPT !.sock[c].q = rest]
  <2>1. GetFrom(r, d).h = FindSlot(q, d)
    BY <1>3 DEF GetFrom
  <2>2. c # 0
    BY <1>3 DEF Live, Cids
  <2>3. rest \in Seq(Replied) /\ c # 0
    BY <1>3, <2>2, TailOfQueue
  <2> HIDE DEF rest
  <2>4. Steps(h, q) /\ Edits(h, q)
    BY <2>3, QueueSteps, QueueEdits DEF Good
  <2> HIDE DEF q
  <2>5. Good(q) /\ q.hid[d].interrupt # 0
    BY <2>3, <2>4 DEF Steps, Edits, Keeps
  <2>6. Steps(q, FindSlot(q, d))
    BY <2>5, FindSlotSteps
  <2>7. QED
    BY <2>1, <2>4, <2>6, StepsOn
<1>4. CASE ~r.done /\ ~(Live(h, c) /\ h.sock[c].q # <<>>)
  <2>1. GetFrom(r, d).h = IF s.hid[d].sdp # 0 THEN UpdateSdp(s, d) ELSE s
    BY <1>4 DEF GetFrom
  <2>2. Steps(h, s) /\ Good(s)
    BY <1>1, HidDisconnectedSteps DEF Steps
  <2> HIDE DEF s
  <2>3. Steps(h, UpdateSdp(s, d))
    BY <2>2, UpdateSdpSteps, StepsOn
  <2>4. QED
    BY <2>1, <2>2, <2>3
<1>5. QED
  BY <1>2, <1>3, <1>4

\* The devices have their turns.
LEMMA GetTurns ==
  ASSUME NEW h, Good(h)
  PROVE  \E upTo : /\ upTo[0] = [h |-> h, done |-> FALSE]
                   /\ \A n \in 1..Len(h.known) : upTo[n] = GetFrom(upTo[n - 1], h.known[n])
                   /\ Get(h) = upTo[Len(h.known)].h
<1> DEFINE N == Len(h.known)
           start == [h |-> h, done |-> FALSE]
           Turn(r, n) == GetFrom(r, h.known[n])
           Rec(f, n) == f = [i \in 0..n |-> IF i = 0 THEN start ELSE Turn(f[i - 1], i)]
<1>1. N \in Nat
  BY DEF Good, HostOK
<1>2. ASSUME NEW n \in Nat PROVE \E f : Rec(f, n)
  <2> DEFINE T == {m \in Nat : ~(\E f : Rec(f, m))}
  <2>1. SUFFICES ASSUME T # {} PROVE FALSE
    BY <1>2
  <2>2. PICK m \in T : \A k \in T : m <= k
    BY <2>1, Smallest
  <2> HIDE DEF Turn, start
  <2>3. m # 0
    <3>1. Rec([i \in 0..0 |-> start], 0)
      OBVIOUS
    <3>2. QED
      BY <2>2, <3>1
  <2>4. m - 1 \in Nat /\ m - 1 \notin T
    BY <2>2, <2>3
  <2> HIDE DEF Rec
  <2>5. \E f : Rec(f, m - 1)
    BY <2>4
  <2>6. PICK f : Rec(f, m - 1)
    BY <2>5
  <2> USE DEF Rec
  <2> DEFINE g == [i \in 0..m |-> IF i = m THEN Turn(f[m - 1], m) ELSE f[i]]
  <2>7. \A i \in 0..(m - 1) : f[i] = IF i = 0 THEN start ELSE Turn(f[i - 1], i)
    BY <2>6
  <2>8. \A i \in 0..m : g[i] = IF i = 0 THEN start ELSE Turn(g[i - 1], i)
    <3>1. \A i \in 0..(m - 1) : g[i] = f[i]
      BY <2>4
    <3>2. g[m] = Turn(f[m - 1], m) /\ m - 1 \in 0..(m - 1)
      BY <2>4
    <3> HIDE DEF g
    <3>3. \A i \in 0..m : i = m \/ i \in 0..(m - 1)
      BY <2>4
    <3>4. \A i \in 0..(m - 1) : i # 0 => i - 1 \in 0..(m - 1)
      BY <2>4
    <3>5. QED
      BY <2>3, <2>7, <3>1, <3>2, <3>3, <3>4
  <2>9. Rec(g, m)
    BY <2>8
  <2>10. QED
    BY <2>2, <2>9
<1> DEFINE upTo == CHOOSE f : Rec(f, N)
<1>3. upTo = [i \in 0..N |-> IF i = 0 THEN start ELSE Turn(upTo[i - 1], i)]
  BY <1>1, <1>2
<1>4. Get(h) = upTo[N].h
  BY DEF Get
<1> HIDE DEF upTo, Turn, start, N
<1>5. upTo[0] = start /\ \A n \in 1..N : upTo[n] = Turn(upTo[n - 1], n)
  BY <1>1, <1>3
<1>6. QED
  BY <1>4, <1>5 DEF Turn, start, N

LEMMA GetSteps ==
  ASSUME NEW h, Good(h)
  PROVE  Steps(h, Get(h))
<1> DEFINE N == Len(h.known)
           start == [h |-> h, done |-> FALSE]
<1>1. N \in Nat /\ \A n \in 1..N : h.known[n] \in Dev
  BY DEF Good, HostOK
<1>2. PICK upTo : /\ upTo[0] = start
                  /\ \A n \in 1..N : upTo[n] = GetFrom(upTo[n - 1], h.known[n])
                  /\ Get(h) = upTo[N].h
  BY GetTurns
<1>3. ASSUME NEW r, NEW n \in 1..N, Steps(h, r.h) PROVE Steps(h, GetFrom(r, h.known[n]).h)
  <2>1. Good(r.h) /\ h.known[n] \in Dev
    BY <1>1, <1>3 DEF Steps
  <2>2. Steps(r.h, GetFrom(r, h.known[n]).h)
    BY <2>1, GetFromSteps
  <2>3. QED
    BY <1>3, <2>2, StepsOn
<1>4. Steps(h, start.h)
  BY DEF Steps
<1> HIDE DEF start, N
<1>5. \A n \in 0..N : Steps(h, upTo[n].h)
  <2> DEFINE T == {n \in 0..N : ~Steps(h, upTo[n].h)}
  <2>1. SUFFICES ASSUME T # {} PROVE FALSE
    OBVIOUS
  <2>2. T \in SUBSET Nat
    BY <1>1
  <2> HIDE DEF T
  <2>3. PICK m \in T : \A k \in T : m <= k
    BY <2>1, <2>2, Smallest
  <2> USE DEF T
  <2>4. m \in 0..N /\ m # 0
    BY <1>2, <1>4, <2>3
  <2>5. m \in 1..N /\ m - 1 \in 0..N
    BY <1>1, <2>4
  <2>6. m - 1 \notin T
    BY <2>2, <2>3, <2>5
  <2>7. Steps(h, upTo[m - 1].h)
    BY <2>5, <2>6
  <2>8. Steps(h, upTo[m].h)
    BY <1>2, <1>3, <2>5, <2>7
  <2>9. QED
    BY <2>3, <2>8
<1>6. QED
  BY <1>1, <1>2, <1>5
-----------------------------------------------------------------------------
(* The queue from the controller *)

LEMMA FollowsOther ==
  ASSUME NEW S, NEW q \in Seq(S), NEW p \in S, NEW d, NEW knows, NEW up,
         p.t \notin {"CONNECTION", "DISCONNECTION"} \/ p.dev # d, Follows(q, d, knows, up)
  PROVE  Follows(Append(q, p), d, knows, up)
<1> DEFINE r == Append(q, p)
<1>1. Len(q) \in Nat /\ Len(r) = Len(q) + 1 /\ r[Len(q) + 1] = p /\ \A i \in 1..Len(q) : r[i] = q[i]
  OBVIOUS
<1> HIDE DEF r
<1>2. TellsOf(r, d) = TellsOf(q, d)
  BY <1>1 DEF TellsOf
<1>3. \A i \in TellsOf(q, d) : r[i] = q[i]
  BY <1>1 DEF TellsOf
<1>4. Follows(r, d, knows, up)
  BY <1>2, <1>3 DEF Follows
<1>5. QED
  BY <1>4 DEF r

LEMMA FollowsNew ==
  ASSUME NEW S, NEW q \in Seq(S), NEW p \in S, NEW d, NEW knows, NEW up,
         p.t \in {"CONNECTION", "DISCONNECTION"}, p.dev = d,
         up <=> p.t = "CONNECTION" /\ p.ok
  PROVE  Follows(Append(q, p), d, knows, up)
<1> DEFINE r == Append(q, p)
           n == Len(q) + 1
<1>1. n \in Nat \ {0} /\ Len(r) = n /\ r[n] = p
  OBVIOUS
<1> HIDE DEF r, n
<1>2. n \in TellsOf(r, d) /\ TellsOf(r, d) \subseteq 1..n
  BY <1>1 DEF TellsOf
<1>3. \A i \in TellsOf(r, d) : (\A j \in TellsOf(r, d) : j <= i) => i = n
  BY <1>1, <1>2
<1>4. Follows(r, d, knows, up)
  BY <1>1, <1>2, <1>3 DEF Follows
<1>5. QED
  BY <1>4 DEF r

LEMMA TellsOfTail ==
  ASSUME NEW S, NEW q \in Seq(S), q # <<>>, NEW d
  PROVE  /\ \A i \in TellsOf(Tail(q), d) : i \in Nat /\ i + 1 \in TellsOf(q, d) /\ Tail(q)[i] = q[i + 1]
         /\ \A i \in TellsOf(q, d) : i \in Nat /\ (i = 1 \/ i - 1 \in TellsOf(Tail(q), d))
         /\ Head(q) = q[1] /\ 1 \in 1..Len(q)
<1> DEFINE r == Tail(q)
<1>1. /\ Len(q) \in Nat \ {0} /\ Len(r) = Len(q) - 1 /\ Head(q) = q[1] /\ 1 \in 1..Len(q)
      /\ \A i \in 1..(Len(q) - 1) : r[i] = q[i + 1]
  OBVIOUS
<1> HIDE DEF r
<1>2. \A i \in TellsOf(r, d) : i \in Nat /\ i + 1 \in TellsOf(q, d) /\ r[i] = q[i + 1]
  BY <1>1 DEF TellsOf
<1>3. ASSUME NEW i \in TellsOf(q, d)
      PROVE  i \in Nat /\ (i = 1 \/ i - 1 \in TellsOf(r, d))
  <2>1. i \in 1..Len(q) /\ q[i].t \in {"CONNECTION", "DISCONNECTION"} /\ q[i].dev = d
    BY DEF TellsOf
  <2>2. CASE i # 1
    <3>1. i - 1 \in 1..(Len(q) - 1) /\ (i - 1) + 1 = i
      BY <1>1, <2>1, <2>2
    <3>2. r[i - 1] = q[i] /\ i - 1 \in 1..Len(r)
      BY <1>1, <3>1
    <3>3. QED
      BY <2>1, <3>2 DEF TellsOf
  <2>3. QED
    BY <2>1, <2>2
<1>4. QED
  BY <1>1, <1>2, <1>3 DEF r

LEMMA FollowsTail ==
  ASSUME NEW S, NEW q \in Seq(S), q # <<>>, NEW d, NEW knows, NEW knew, NEW up,
         Follows(q, d, knew, up),
         IF Head(q).t \in {"CONNECTION", "DISCONNECTION"} /\ Head(q).dev = d
         THEN knows <=> (Head(q).t = "CONNECTION" /\ Head(q).ok)
         ELSE knows <=> knew
  PROVE  Follows(Tail(q), d, knows, up)
<1> DEFINE r == Tail(q)
<1>1. /\ \A i \in TellsOf(r, d) : i \in Nat /\ i + 1 \in TellsOf(q, d) /\ r[i] = q[i + 1]
      /\ \A i \in TellsOf(q, d) : i \in Nat /\ (i = 1 \/ i - 1 \in TellsOf(r, d))
      /\ Head(q) = q[1] /\ 1 \in 1..Len(q)
  BY TellsOfTail
<1> HIDE DEF r
<1>2. 1 \in TellsOf(q, d) <=> Head(q).t \in {"CONNECTION", "DISCONNECTION"} /\ Head(q).dev = d
  BY <1>1 DEF TellsOf
<1>3. ASSUME TellsOf(r, d) = {} PROVE knows <=> up
  <2>1. \A i \in TellsOf(q, d) : i = 1
    BY <1>1, <1>3
  <2>2. CASE 1 \in TellsOf(q, d)
    <3>1. up <=> (q[1].t = "CONNECTION" /\ q[1].ok)
      BY <2>1, <2>2 DEF Follows
    <3>2. knows <=> (Head(q).t = "CONNECTION" /\ Head(q).ok)
      BY <1>2, <2>2
    <3>3. QED
      BY <1>1, <3>1, <3>2
  <2>3. CASE 1 \notin TellsOf(q, d)
    <3>1. TellsOf(q, d) = {}
      BY <2>1, <2>3
    <3>2. knew <=> up
      BY <3>1 DEF Follows
    <3>3. knows <=> knew
      BY <1>2, <2>3
    <3>4. QED
      BY <3>2, <3>3
  <2>4. QED
    BY <2>2, <2>3
<1>4. ASSUME NEW i \in TellsOf(r, d), \A j \in TellsOf(r, d) : j <= i
      PROVE  up <=> (r[i].t = "CONNECTION" /\ r[i].ok)
  <2>1. i + 1 \in TellsOf(q, d) /\ r[i] = q[i + 1] /\ i \in Nat
    BY <1>1
  <2>2. \A j \in TellsOf(q, d) : j <= i + 1
    BY <1>1, <1>4, <2>1
  <2>3. up <=> (q[i + 1].t = "CONNECTION" /\ q[i + 1].ok)
    BY <2>1, <2>2 DEF Follows
  <2>4. QED
    BY <2>1, <2>3
<1>5. Follows(r, d, knows, up)
  BY <1>3, <1>4 DEF Follows
<1>6. QED
  BY <1>5 DEF r
-----------------------------------------------------------------------------
(* The steps of the controller and of devices *)

LEMMA KnowsMore ==
  ASSUME NEW K, NEW L, K \subseteq L
  PROVE  Packets(K) \subseteq Packets(L) /\ Owed(K) \subseteq Owed(L)
  BY DEF Packets, Told, Owed

LEMMA Posted ==
  ASSUME BluetoothInv, NEW p \in Packets(KnownTo(host)), NEW n, PostWrong(p, n)
  PROVE  /\ rx' \in Seq(Packets(KnownTo(host))) /\ lost' \in BOOLEAN
         /\ ~lost' => ~lost /\ rx' = Append(rx, p)
<1>1. rx \in Seq(Packets(KnownTo(host))) /\ lost \in BOOLEAN
  BY DEF BluetoothInv
<1>2. Append(rx, p) \in Seq(Packets(KnownTo(host)))
  BY <1>1
<1>3. \/ rx' = Append(rx, p) /\ lost' = lost
      \/ rx' = rx /\ lost' = TRUE
  BY DEF PostWrong
<1>4. QED
  BY <1>1, <1>2, <1>3

\* A packet that tells of no link.
LEMMA OthersPosted ==
  ASSUME BluetoothInv, NEW p \in Packets(KnownTo(host)), NEW n, PostWrong(p, n),
         p.t \notin {"CONNECTION", "DISCONNECTION"}, ~lost', ~crossed
  PROVE  \A d \in Dev : Follows(rx', d, host.handle[d] = d, d \in link)
<1>1. ~lost /\ rx' = Append(rx, p)
  BY Posted
<1>2. rx \in Seq(Packets(KnownTo(host)))
  BY DEF BluetoothInv
<1>3. ASSUME NEW d \in Dev PROVE Follows(rx', d, host.handle[d] = d, d \in link)
  <2>1. Follows(rx, d, host.handle[d] = d, d \in link)
    BY <1>1 DEF BluetoothInv, LinkFollows
  <2>2. Follows(Append(rx, p), d, host.handle[d] = d, d \in link)
    BY <1>2, <2>1, FollowsOther
  <2>3. QED
    BY <1>1, <2>2
<1>4. QED
  BY <1>3

\* A packet that tells what has become of the link of d.
LEMMA LinkPosted ==
  ASSUME BluetoothInv, NEW p \in Packets(KnownTo(host)), NEW n, PostWrong(p, n),
         NEW d \in Dev, p.t \in {"CONNECTION", "DISCONNECTION"}, p.dev = d,
         d \in link' <=> p.t = "CONNECTION" /\ p.ok,
         \A e \in Dev : e # d => (e \in link' <=> e \in link), ~lost', ~crossed
  PROVE  \A e \in Dev : Follows(rx', e, host.handle[e] = e, e \in link')
<1>1. ~lost /\ rx' = Append(rx, p)
  BY Posted
<1>2. rx \in Seq(Packets(KnownTo(host)))
  BY DEF BluetoothInv
<1>3. ASSUME NEW e \in Dev PROVE Follows(Append(rx, p), e, host.handle[e] = e, e \in link')
  <2>1. CASE e = d
    <3> DEFINE up == d \in link'
               knows == host.handle[d] = d
    <3>1. up <=> p.t = "CONNECTION" /\ p.ok
      OBVIOUS
    <3> HIDE DEF up, knows
    <3>2. Follows(Append(rx, p), d, knows, up)
      BY <1>2, <3>1, FollowsNew
    <3>3. QED
      BY <2>1, <3>2 DEF knows, up
  <2>2. CASE e # d
    <3>1. Follows(rx, e, host.handle[e] = e, e \in link)
      BY <1>1 DEF BluetoothInv, LinkFollows
    <3>2. Follows(rx, e, host.handle[e] = e, e \in link')
      BY <2>2, <3>1 DEF Follows
    <3>3. QED
      BY <1>2, <2>2, <3>2, FollowsOther
  <2>3. QED
    BY <2>1, <2>2
<1>4. QED
  BY <1>1, <1>3

\* The state after a step that leaves the host.
LEMMA HostStays ==
  ASSUME BluetoothInv, host' = host, rx' \in Seq(Packets(KnownTo(host))), link' \subseteq Dev,
         owed' \subseteq Owed(KnownTo(host)), air' \in [Dev -> Seq(Said)],
         lost' \in BOOLEAN, crossed' \in BOOLEAN,
         ~lost' /\ ~crossed' =>
           \A d \in Dev : Follows(rx', d, host.handle[d] = d, d \in link')
  PROVE  BluetoothInv'
<1>1. Good(host')
  BY DEF BluetoothInv
<1>2. \A d \in Dev : LinkFollows(d)' <=> Follows(rx', d, host'.handle[d] = d, d \in link')
  BY DEF LinkFollows
<1>3. ~lost' /\ ~crossed' => \A d \in Dev : LinkFollows(d)'
  BY <1>2
<1>4. QED
  BY <1>1, <1>3 DEF BluetoothInv

LEMMA OwedTold ==
  ASSUME NEW K, NEW o \in Owed(K)
  PROVE  /\ o.t \notin {"CONNECTION", "DISCONNECTION"}
         /\ o.t \in {"PAGE", "ACCEPTING"} => o.dev \in K
         /\ o.t \notin {"PAGE", "ACCEPTING"} => o \in Packets(K)
         /\ o.t \in LinkEvents => o.dev \in Dev
  BY DEF Owed, Told, LinkEvents, Packets

LEMMA AnswerInv ==
  ASSUME BluetoothInv, NEW o \in owed, Answer(o)
  PROVE  BluetoothInv'
<1> DEFINE K == KnownTo(host)
           d == o.dev
<1>1. /\ owed \subseteq Owed(K) /\ o \in Owed(K) /\ link \subseteq Dev /\ air \in [Dev -> Seq(Said)]
      /\ crossed \in BOOLEAN /\ K \subseteq Dev
  <2>1. host.known \in Seq(Dev)
    BY DEF BluetoothInv, Good, HostOK
  <2>2. K \subseteq Dev
    BY <2>1 DEF KnownTo
  <2>3. QED
    BY <2>2 DEF BluetoothInv
<1>2. /\ host' = host /\ air' = air /\ crossed' = (crossed \/ (o.t = "PAGE" /\ d \in link))
  BY DEF Answer
<1>3. crossed' \in BOOLEAN /\ (~crossed' => ~crossed /\ ~(o.t = "PAGE" /\ d \in link))
  BY <1>1, <1>2
<1>4. PICK fails \in BOOLEAN :
        LET up == d \in link
            n == IF fails THEN 1 ELSE 0
            result == PostWrong([t |-> "CONNECTION", dev |-> d, ok |-> ~fails], n)
        IN  \/ /\ o.t = "PAGE" /\ (up => fails)
               /\ link' = IF fails THEN link ELSE link \cup {d}
               /\ owed' = owed \ {o}
               /\ result
            \/ /\ o.t = "ACCEPTING" /\ ~up
               /\ link' = IF fails THEN link ELSE link \cup {d}
               /\ owed' = owed \ {o}
               /\ result
            \/ /\ o.t = "LINK_KEY_NOTIFICATION" /\ ~fails
               /\ owed' = (owed \ {o}) \cup {Owe("AUTHENTICATION", d)}
               /\ Post(o) /\ UNCHANGED link
            \/ /\ o.t \notin {"PAGE", "ACCEPTING", "LINK_KEY_NOTIFICATION"} /\ ~fails
               /\ owed' = owed \ {o}
               /\ Post(o) /\ UNCHANGED link
  BY DEF Answer
<1>5. CASE o.t \in {"PAGE", "ACCEPTING"}
  <2> DEFINE p == [t |-> "CONNECTION", dev |-> d, ok |-> ~fails]
             n == IF fails THEN 1 ELSE 0
  <2>1. /\ PostWrong(p, n) /\ link' = (IF fails THEN link ELSE link \cup {d}) /\ owed' = owed \ {o}
        /\ (o.t = "PAGE" => (d \in link => fails)) /\ (o.t = "ACCEPTING" => d \notin link)
    BY <1>4, <1>5
  <2>2. d \in K /\ d \in Dev
    BY <1>1, <1>5, OwedTold
  <2>3. p \in Packets(K) /\ p.t = "CONNECTION" /\ p.dev = d /\ p.ok = ~fails
    BY <2>2 DEF Packets, Told
  <2> HIDE DEF p, n, d
  <2>4. /\ rx' \in Seq(Packets(K)) /\ lost' \in BOOLEAN
    BY <2>1, <2>3, Posted
  <2>5. link' \subseteq Dev /\ \A e \in Dev : e # d => (e \in link' <=> e \in link)
    BY <1>1, <2>1, <2>2
  <2>6. ~crossed' => d \notin link
    BY <1>2, <1>5, <2>1
  <2>7. ASSUME ~lost', ~crossed'
        PROVE  \A e \in Dev : Follows(rx', e, host.handle[e] = e, e \in link')
    <3>1. ~crossed
      BY <1>3, <2>7
    <3>2. d \in link' <=> p.t = "CONNECTION" /\ p.ok
      BY <2>1, <2>3, <2>6, <2>7
    <3>3. QED
      BY <2>1, <2>2, <2>3, <2>5, <2>7, <3>1, <3>2, LinkPosted
  <2>8. QED
    BY <1>1, <1>2, <1>3, <2>1, <2>4, <2>5, <2>7, HostStays
<1>6. CASE o.t \notin {"PAGE", "ACCEPTING"}
  <2>1. o \in Packets(K) /\ o.t \notin {"CONNECTION", "DISCONNECTION"}
    BY <1>1, <1>6, OwedTold
  <2>2. PostWrong(o, 0) /\ link' = link
    BY <1>4, <1>6 DEF Post
  <2>3. owed' \subseteq Owed(K)
    <3>1. CASE o.t = "LINK_KEY_NOTIFICATION"
      <4>1. d \in Dev
        BY <1>1, <3>1, OwedTold DEF LinkEvents
      <4>2. Owe("AUTHENTICATION", d) \in Owed(K)
        BY <4>1 DEF Owe, Owed, LinkEvents
      <4>3. QED
        BY <1>1, <1>4, <3>1, <4>2
    <3>2. CASE o.t # "LINK_KEY_NOTIFICATION"
      BY <1>1, <1>4, <1>6, <3>2
    <3>3. QED
      BY <3>1, <3>2
  <2>4. rx' \in Seq(Packets(K)) /\ lost' \in BOOLEAN
    BY <2>1, <2>2, Posted
  <2>5. ASSUME ~lost', ~crossed'
        PROVE  \A e \in Dev : Follows(rx', e, host.handle[e] = e, e \in link)
    BY <1>3, <2>1, <2>2, <2>5, OthersPosted
  <2>6. QED
    BY <1>1, <1>2, <1>3, <2>2, <2>3, <2>4, <2>5, HostStays
<1>7. QED
  BY <1>5, <1>6

\* What the invariant says of the parts.
LEMMA Parts ==
  ASSUME BluetoothInv
  PROVE  /\ Good(host) /\ rx \in Seq(Packets(KnownTo(host))) /\ link \subseteq Dev
         /\ owed \subseteq Owed(KnownTo(host)) /\ air \in [Dev -> Seq(Said)]
         /\ lost \in BOOLEAN /\ crossed \in BOOLEAN
         /\ ~lost /\ ~crossed => \A d \in Dev : Follows(rx, d, host.handle[d] = d, d \in link)
  BY DEF BluetoothInv, LinkFollows

\* A packet is posted that tells of no link, and nothing is known that was not.
LEMMA PostInv ==
  ASSUME BluetoothInv, NEW p \in Packets(KnownTo(host)), NEW n, PostWrong(p, n),
         p.t \notin {"CONNECTION", "DISCONNECTION"},
         UNCHANGED <<host, link, owed, crossed>>, air' \in [Dev -> Seq(Said)]
  PROVE  BluetoothInv'
<1>1. rx' \in Seq(Packets(KnownTo(host))) /\ lost' \in BOOLEAN
  BY Posted
<1>2. ASSUME ~lost', ~crossed'
      PROVE  \A d \in Dev : Follows(rx', d, host.handle[d] = d, d \in link)
  BY <1>2, OthersPosted
<1>3. QED
  BY <1>1, <1>2, Parts, HostStays

\* Only a device has said something.
LEMMA SaysInv ==
  ASSUME BluetoothInv, UNCHANGED <<host, rx, link, owed, lost, crossed>>,
         air' \in [Dev -> Seq(Said)]
  PROVE  BluetoothInv'
  BY Parts, HostStays

LEMMA InquiryResultInv ==
  ASSUME BluetoothInv, NEW d \in Dev, InquiryResult(d)
  PROVE  BluetoothInv'
<1> DEFINE p == [t |-> "INQUIRY_RESULT", dev |-> d]
<1>1. p \in Packets(KnownTo(host)) /\ p.t \notin {"CONNECTION", "DISCONNECTION"}
  BY DEF Packets, Told
<1>2. PostWrong(p, 0) /\ UNCHANGED <<host, link, owed, air, crossed>>
  BY DEF InquiryResult, Post
<1> HIDE DEF p
<1>3. QED
  BY <1>1, <1>2, PostInv, Parts

LEMMA RequestInv ==
  ASSUME BluetoothInv, NEW d \in Dev, Request(d)
  PROVE  BluetoothInv'
<1> DEFINE p == [t |-> "CONNECTION_REQUEST", dev |-> d]
<1>1. p \in Packets(KnownTo(host)) /\ p.t \notin {"CONNECTION", "DISCONNECTION"}
  BY DEF Packets, Told
<1>2. PostWrong(p, 1) /\ UNCHANGED <<host, link, owed, air, crossed>>
  BY DEF Request
<1> HIDE DEF p
<1>3. QED
  BY <1>1, <1>2, PostInv, Parts

LEMMA ArriveInv ==
  ASSUME BluetoothInv, NEW d \in Dev, Arrive(d)
  PROVE  BluetoothInv'
<1> DEFINE p == Head(air[d])
<1>1. air \in [Dev -> Seq(Said)] /\ air[d] \in Seq(Said) /\ air[d] # <<>>
  BY Parts DEF Arrive
<1>2. p \in Said /\ Tail(air[d]) \in Seq(Said)
  BY <1>1
<1>3. PostWrong(p, 0) /\ UNCHANGED <<host, link, owed, crossed>>
      /\ air' = [air EXCEPT ![d] = Tail(@)]
  BY DEF Arrive, Post
<1>4. air' \in [Dev -> Seq(Said)]
  BY <1>1, <1>2, <1>3
<1> HIDE DEF p
<1>5. p.t \notin {"CONNECTION", "DISCONNECTION"} /\ p \in Packets(KnownTo(host))
  BY <1>2, SaidFields DEF Packets
<1>6. QED
  BY <1>3, <1>4, <1>5, PostInv

LEMMA OpensInv ==
  ASSUME BluetoothInv, NEW d \in Dev, Opens(d)
  PROVE  BluetoothInv'
<1> DEFINE psm(i) == <<"control", "interrupt">>[i]
           asks == [i \in 1 .. 2 |-> [t |-> "SIG", dev |-> d, code |-> "CONN_REQ", scid |-> 0,
                                      psm |-> psm(i), dcid |-> MaxCid + i]]
<1>1. \A i \in 1..2 : psm(i) \in Psms /\ MaxCid + i \in Nat
  BY BtHostAssumption DEF Psms
<1> HIDE DEF psm
<1>2. \A i \in 1..2 : [t |-> "SIG", dev |-> d, code |-> "CONN_REQ", scid |-> 0,
                       psm |-> psm(i), dcid |-> MaxCid + i] \in Said
  BY <1>1 DEF Said
<1>3. asks \in Seq(Said)
  BY <1>2
<1>4. air' = [air EXCEPT ![d] = @ \o asks] /\ UNCHANGED <<host, rx, link, owed, lost, crossed>>
  BY DEF Opens, psm
<1> HIDE DEF asks
<1>5. air \in [Dev -> Seq(Said)] /\ air[d] \o asks \in Seq(Said)
  BY <1>3, Parts
<1>6. air' \in [Dev -> Seq(Said)]
  BY <1>4, <1>5
<1>7. QED
  BY <1>4, <1>6, SaysInv

LEMMA SaysAir ==
  ASSUME BluetoothInv, NEW d \in Dev, NEW p \in Said, Says(d, p)
  PROVE  air' \in [Dev -> Seq(Said)]
<1>1. air \in [Dev -> Seq(Said)] /\ Append(air[d], p) \in Seq(Said)
  BY Parts
<1>2. QED
  BY <1>1 DEF Says

LEMMA ClosesInv ==
  ASSUME BluetoothInv, NEW d \in Dev, NEW c \in Cids, Closes(d, c)
  PROVE  BluetoothInv'
<1> DEFINE p == [t |-> "SIG", dev |-> d, code |-> "DISCONN_REQ", scid |-> c]
<1>1. p \in Said
  BY DEF Said, Cids
<1>2. Says(d, p) /\ UNCHANGED <<host, rx, link, owed, lost, crossed>>
  BY DEF Closes
<1> HIDE DEF p
<1>3. QED
  BY <1>1, <1>2, SaysAir, SaysInv

LEMMA ReportsInv ==
  ASSUME BluetoothInv, NEW d \in Dev, NEW c \in Cids, Reports(d, c)
  PROVE  BluetoothInv'
<1> DEFINE p == [t |-> "DATA", dev |-> d, scid |-> c, what |-> "report"]
<1>1. p \in Said
  BY DEF Said, Cids, Replied
<1>2. Says(d, p) /\ UNCHANGED <<host, rx, link, owed, lost, crossed>>
  BY DEF Reports
<1> HIDE DEF p
<1>3. QED
  BY <1>1, <1>2, SaysAir, SaysInv

LEMMA LinkLossInv ==
  ASSUME BluetoothInv, NEW d \in Dev, LinkLoss(d)
  PROVE  BluetoothInv'
<1> DEFINE p == [t |-> "DISCONNECTION", dev |-> d]
<1>1. p \in Packets(KnownTo(host)) /\ p.t = "DISCONNECTION" /\ p.dev = d
  BY DEF Packets, Told
<1>2. /\ PostWrong(p, 1) /\ link' = link \ {d} /\ air' = [air EXCEPT ![d] = <<>>]
      /\ owed' \subseteq owed /\ UNCHANGED <<host, crossed>>
  BY DEF LinkLoss
<1> HIDE DEF p
<1>3. rx' \in Seq(Packets(KnownTo(host))) /\ lost' \in BOOLEAN
  BY <1>1, <1>2, Posted
<1>4. <<>> \in Seq(Said) /\ air' \in [Dev -> Seq(Said)]
  BY <1>2, Parts
<1>5. ASSUME ~lost', ~crossed'
      PROVE  \A e \in Dev : Follows(rx', e, host.handle[e] = e, e \in link')
  <2>1. ~crossed /\ (d \in link' <=> p.t = "CONNECTION" /\ p.ok)
    BY <1>1, <1>2, <1>5
  <2>2. \A e \in Dev : e # d => (e \in link' <=> e \in link)
    BY <1>2
  <2>3. QED
    BY <1>1, <1>2, <1>5, <2>1, <2>2, LinkPosted
<1>6. QED
  BY <1>2, <1>3, <1>4, <1>5, Parts, HostStays
-----------------------------------------------------------------------------
(* The steps of the main loop *)

\* The state after a step of the host that takes nothing from _rx.
LEMMA HostMoves ==
  ASSUME BluetoothInv, Moves(host, host'), UNCHANGED <<rx, link, lost, crossed>>,
         owed' \subseteq Owed(KnownTo(host')), air' \in [Dev -> Seq(Said)]
  PROVE  BluetoothInv'
<1>1. Good(host') /\ KnownTo(host) \subseteq KnownTo(host')
      /\ \A d \in Dev : (host'.handle[d] = d) <=> (host.handle[d] = d)
  BY DEF Moves
<1>2. Packets(KnownTo(host)) \subseteq Packets(KnownTo(host'))
  BY <1>1, KnowsMore
<1>3. rx' \in Seq(Packets(KnownTo(host')))
  BY <1>2, LongerSet, Parts
<1>4. ~lost' /\ ~crossed' => \A d \in Dev : LinkFollows(d)'
  <2>1. SUFFICES ASSUME ~lost, ~crossed, NEW d \in Dev PROVE LinkFollows(d)'
    OBVIOUS
  <2>2. Follows(rx, d, host.handle[d] = d, d \in link)
    BY <2>1, Parts
  <2>3. Follows(rx, d, host'.handle[d] = d, d \in link)
    BY <1>1, <2>2 DEF Follows
  <2>4. QED
    BY <2>3 DEF LinkFollows
<1>5. QED
  BY <1>1, <1>3, <1>4, Parts DEF BluetoothInv

LEMMA HostSteps ==
  ASSUME BluetoothInv, Steps(host, host'), UNCHANGED envVars
  PROVE  BluetoothInv'
<1>1. Moves(host, host')
  BY StepsMoves
<1>2. KnownTo(host') = KnownTo(host)
  BY DEF Steps, KnownTo
<1>3. QED
  BY <1>1, <1>2, Parts, HostMoves DEF envVars

LEMMA ReadyToSendInv ==
  ASSUME BluetoothInv, ReadyToSend
  PROVE  BluetoothInv'
<1> DEFINE s == Cmd(host, "RESET")
           none == {}
           r == [s EXCEPT !.hci = none]
<1>1. host' = r /\ UNCHANGED envVars
  BY DEF ReadyToSend
<1>2. Steps(host, s) /\ Good(s)
  BY Parts, CmdSteps DEF Steps, HostCommands
<1> HIDE DEF s, none
<1>3. Steps(s, r)
  BY <1>2, HciSteps
<1> HIDE DEF r
<1>4. Steps(host, host')
  BY <1>1, <1>2, <1>3, StepsOn
<1>5. QED
  BY <1>1, <1>4, HostSteps

LEMMA FetchInv ==
  ASSUME BluetoothInv, Fetch
  PROVE  BluetoothInv'
<1>1. Steps(host, host') /\ UNCHANGED envVars
  BY Parts, GetSteps DEF Fetch
<1>2. QED
  BY <1>1, HostSteps

LEMMA HandleOneInv ==
  ASSUME BluetoothInv, HandleOne
  PROVE  BluetoothInv'
<1> DEFINE p == Head(rx)
           K == KnownTo(host)
<1>1. /\ rx \in Seq(Packets(K)) /\ rx # <<>> /\ host' = Received(host, p) /\ rx' = Tail(rx)
      /\ UNCHANGED <<link, owed, air, lost, crossed>>
  BY Parts DEF HandleOne
<1>2. p \in Packets(K) /\ rx' \in Seq(Packets(K))
  BY <1>1
<1>3. Hears(host, host', p)
  BY <1>1, <1>2, Parts, ReceivedHears DEF Packets
<1> HIDE DEF p
<1>4. p.t = "CONNECTION" => p.dev \in Dev /\ p.ok \in BOOLEAN
  <2>1. K \subseteq Dev
    BY Parts DEF Good, HostOK, KnownTo
  <2>2. QED
    BY <1>2, <2>1, ToldFields, SaidFields DEF Packets, LinkEvents
<1>5. Good(host') /\ K \subseteq KnownTo(host')
  BY <1>3 DEF Hears, Linked, Moves
<1>6. \A d \in Dev : IF p.t \in {"CONNECTION", "DISCONNECTION"} /\ p.dev = d
                     THEN (host'.handle[d] = d) <=> (p.t = "CONNECTION" /\ p.ok)
                     ELSE (host'.handle[d] = d) <=> (host.handle[d] = d)
  <2>1. CASE p.t = "CONNECTION"
    BY <1>3, <2>1 DEF Hears, Linked
  <2>2. CASE p.t = "DISCONNECTION"
    BY <1>3, <2>2 DEF Hears, Linked
  <2>3. CASE p.t \notin {"CONNECTION", "DISCONNECTION"}
    BY <1>3, <2>3 DEF Hears, Moves
  <2>4. QED
    BY <2>1, <2>2, <2>3
<1>7. Packets(K) \subseteq Packets(KnownTo(host')) /\ Owed(K) \subseteq Owed(KnownTo(host'))
  BY <1>5, KnowsMore
<1>8. rx' \in Seq(Packets(KnownTo(host')))
  BY <1>2, <1>7, LongerSet
<1>9. ~lost' /\ ~crossed' => \A d \in Dev : LinkFollows(d)'
  <2>1. SUFFICES ASSUME ~lost, ~crossed, NEW d \in Dev PROVE LinkFollows(d)'
    BY <1>1
  <2> DEFINE knew == host.handle[d] = d
             knows == host'.handle[d] = d
             up == d \in link
  <2>2. Follows(rx, d, knew, up)
    BY <2>1, Parts
  <2>3. IF p.t \in {"CONNECTION", "DISCONNECTION"} /\ p.dev = d
        THEN knows <=> (p.t = "CONNECTION" /\ p.ok) ELSE knows <=> knew
    BY <1>6
  <2> HIDE DEF knew, knows, up
  <2>4. Follows(rx', d, knows, up)
    BY <1>1, <2>2, <2>3, FollowsTail DEF p
  <2>5. QED
    BY <1>1, <2>4 DEF LinkFollows, knows, up
<1>10. QED
  BY <1>1, <1>5, <1>7, <1>8, <1>9, Parts DEF BluetoothInv

\* What goes out, by its kind.
LEMMA SentFields ==
  ASSUME NEW K, NEW p \in Sent(K)
  PROVE  /\ \/ p.t = "CMD" /\ p.c \in HostCommands
            \/ p.t = "CMD" /\ p.c \in LinkCommands /\ p.dev \in Dev
            \/ p.t = "CMD" /\ p.c \in PageCommands /\ p.dev \in K
            \/ p.t \in {"SIG", "DATA"}
         /\ p.t # "CMD" => p.dev \in Dev /\ p.scid \in Nat
  BY DEF Sent

LEMMA OwesOwed ==
  ASSUME NEW K, NEW p \in Sent(K), p.t = "CMD"
  PROVE  Owes(p) \subseteq Owed(K)
<1>1. CASE p.c \in HostCommands
  BY <1>1 DEF Owes, Owe, Owed, HostCommands
<1>2. CASE p.c \in LinkCommands /\ p.dev \in Dev
  BY <1>2 DEF Owes, Owe, Owed, LinkCommands, LinkEvents
<1>3. CASE p.c \in PageCommands /\ p.dev \in K
  BY <1>3 DEF Owes, Owe, Owed, PageCommands
<1>4. QED
  BY <1>1, <1>2, <1>3, SentFields

LEMMA ShortSeq ==
  ASSUME NEW S
  PROVE  /\ <<>> \in Seq(S)
         /\ \A a \in S : <<a>> \in Seq(S)
         /\ \A a, b \in S : <<a, b>> \in Seq(S)
         /\ \A a, b, c \in S : <<a, b, c>> \in Seq(S)
  OBVIOUS

LEMMA RepliesSaid ==
  ASSUME NEW K, NEW p \in Sent(K), p.t # "CMD", NEW r \in Replies(p)
  PROVE  r \in Seq(Said)
<1> DEFINE d == p.dev
           sig(code, s) == [t |-> "SIG", dev |-> d, code |-> code, scid |-> p.scid,
                            dcid |-> p.scid, status |-> s]
           data(w) == [t |-> "DATA", dev |-> d, scid |-> p.scid, what |-> w]
<1>1. d \in Dev /\ p.scid \in Nat
  BY SentFields
<1>2. /\ sig("CONN_RSP", "ok") \in Said /\ sig("CONN_RSP", "refused") \in Said
      /\ sig("CONN_RSP", "pending") \in Said /\ sig("CONF_REQ", "ok") \in Said
      /\ sig("CONF_RSP", "ok") \in Said /\ sig("DISCONN_RSP", "ok") \in Said
      /\ data("last") \in Said /\ data("more") \in Said
  BY <1>1 DEF Said, Replied
<1>3. r \in {<<sig("CONN_RSP", "ok"), sig("CONF_REQ", "ok")>>, <<sig("CONN_RSP", "refused")>>,
             <<sig("CONN_RSP", "pending"), sig("CONN_RSP", "ok"), sig("CONF_REQ", "ok")>>,
             <<sig("CONF_REQ", "ok")>>, <<sig("CONF_RSP", "ok")>>, <<sig("DISCONN_RSP", "ok")>>,
             <<data("last")>>, <<data("more")>>, <<>>}
  BY DEF Replies
<1> HIDE DEF sig, data
<1>4. /\ <<sig("CONN_RSP", "ok"), sig("CONF_REQ", "ok")>> \in Seq(Said)
      /\ <<sig("CONN_RSP", "pending"), sig("CONN_RSP", "ok"), sig("CONF_REQ", "ok")>> \in Seq(Said)
      /\ <<sig("CONN_RSP", "refused")>> \in Seq(Said) /\ <<sig("CONF_REQ", "ok")>> \in Seq(Said)
      /\ <<sig("CONF_RSP", "ok")>> \in Seq(Said) /\ <<sig("DISCONN_RSP", "ok")>> \in Seq(Said)
      /\ <<data("last")>> \in Seq(Said) /\ <<data("more")>> \in Seq(Said) /\ <<>> \in Seq(Said)
  BY <1>2, ShortSeq
<1>5. QED
  BY <1>3, <1>4

LEMMA SendOneInv ==
  ASSUME BluetoothInv, SendOne
  PROVE  BluetoothInv'
<1> DEFINE p == Head(host.tx)
           K == KnownTo(host)
<1>1. /\ host.tx \in Seq(Sent(K)) /\ host.tx # <<>> /\ Good(host)
  BY Parts DEF SendOne, Good, HostOK
<1>2. p \in Sent(K) /\ Tail(host.tx) \in Seq(Sent(K))
  BY <1>1
<1>3. /\ host' = [host EXCEPT !.tx = Tail(@)] /\ UNCHANGED <<rx, link, lost, crossed>>
      /\ p.t = "CMD" => owed' = owed \cup Owes(p) /\ UNCHANGED air
      /\ p.t # "CMD" => UNCHANGED owed /\ \/ UNCHANGED air
                                          \/ \E r \in Replies(p) : air' = [air EXCEPT ![p.dev] = @ \o r]
  BY DEF SendOne
<1>4. Moves(host, host')
  <2>1. /\ DOMAIN host' = HostFields /\ host'.handle = host.handle /\ host'.sock = host.sock
        /\ host'.cid = host.cid /\ host'.held = host.held /\ host'.slot = host.slot
        /\ host'.hid = host.hid /\ host'.known = host.known /\ host'.tx = Tail(host.tx)
    BY <1>1, <1>3 DEF Good, HostOK, HostFields
  <2>2. KnownTo(host') = K
    BY <2>1 DEF KnownTo
  <2>3. HostOK(host')
    BY <1>1, <1>2, <2>1, <2>2 DEF Good, HostOK
  <2>4. Good(host')
    BY <1>1, <2>1, <2>3, StaysGood
  <2>5. QED
    BY <2>1, <2>2, <2>4 DEF Moves
<1> HIDE DEF p
<1>5. KnownTo(host) \subseteq KnownTo(host')
  BY <1>4 DEF Moves
<1>6. owed' \subseteq Owed(KnownTo(host'))
  <2>1. owed \subseteq Owed(K)
    BY Parts
  <2>2. owed' \subseteq Owed(K)
    BY <1>2, <1>3, <2>1, OwesOwed
  <2>3. QED
    BY <1>5, <2>2, KnowsMore
<1>7. air' \in [Dev -> Seq(Said)]
  <2>1. air \in [Dev -> Seq(Said)]
    BY Parts
  <2>2. CASE UNCHANGED air
    BY <2>1, <2>2
  <2>3. CASE ~UNCHANGED air
    <3>1. p.t # "CMD"
      BY <1>3, <2>3
    <3>2. PICK r \in Replies(p) : air' = [air EXCEPT ![p.dev] = @ \o r]
      BY <1>3, <2>3, <3>1
    <3>3. r \in Seq(Said)
      BY <1>2, <3>1, RepliesSaid
    <3>4. p.dev \in Dev
      BY <1>2, <3>1, SentFields
    <3>5. air[p.dev] \o r \in Seq(Said)
      BY <2>1, <3>3, <3>4
    <3>6. QED
      BY <2>1, <3>2, <3>5
  <2>4. QED
    BY <2>2, <2>3
<1>8. QED
  BY <1>3, <1>4, <1>6, <1>7, HostMoves

LEMMA RefusedInv ==
  ASSUME BluetoothInv, Refused
  PROVE  BluetoothInv'
<1>1. UNCHANGED <<host, rx, link, owed, air, lost, crossed>>
  BY DEF Refused
<1>2. QED
  BY <1>1, Parts, SaysInv
-----------------------------------------------------------------------------
(* The invariant, and what it says *)

LEMMA StartGood ==
  ASSUME NEW keys \in [Dev -> BOOLEAN]
  PROVE  LET h == [HciStart EXCEPT !.key = keys]
         IN  Good(h) /\ \A d \in Dev : h.handle[d] = "none"
<1> DEFINE h == [HciStart EXCEPT !.key = keys]
<1>1. /\ DOMAIN h = HostFields /\ h.handle = [d \in Dev |-> "none"]
      /\ h.sock = [c \in Cids |-> NoSocket] /\ h.cid = 1 /\ h.tx = <<>> /\ h.held = NoPacket
      /\ h.known = <<>> /\ h.slot = [i \in Slots |-> FALSE]
      /\ h.hid = [d \in Dev |-> [state |-> "CLOSED", reconnect |-> FALSE, sdp |-> 0,
                                 control |-> 0, interrupt |-> 0, handler |-> 0, slot |-> NoSlot]]
  BY DEF HciStart, HostFields
<1> HIDE DEF h
<1>2. h.known \in Seq(Dev) /\ h.tx \in Seq(Sent(KnownTo(h)))
  BY <1>1, ShortSeq
<1>3. h.handle \in [Dev -> Handles] /\ h.slot \in [Slots -> BOOLEAN]
  BY <1>1 DEF Handles
<1>4. \A c \in Cids : SockOK(h.sock[c])
  BY <1>1 DEF SockOK
<1>5. \A d \in Dev : /\ h.hid[d].sdp = 0 /\ h.hid[d].handler = 0 /\ h.hid[d].control = 0
                     /\ h.hid[d].interrupt = 0 /\ h.hid[d].slot = NoSlot
                     /\ DOMAIN h.hid[d] = HidFields
  BY <1>1 DEF HidFields
<1>6. \A d \in Dev : HidOK(h.hid[d], h.cid)
  BY <1>1, <1>5 DEF HidOK
<1>7. HostOK(h)
  <2>1. DOMAIN h.sock = Cids /\ DOMAIN h.hid = Dev /\ h.cid \in Nat \ {0}
        /\ h.held \in Said \union {NoPacket} /\ DOMAIN h = HostFields
    BY <1>1
  <2>2. QED
    BY <1>2, <1>3, <1>4, <1>6, <2>1 DEF HostOK
<1>8. OwnIds(h)
  BY <1>1 DEF OwnIds, Own, Live
<1>9. SlotsOK(h)
  BY <1>1, <1>5, BtHostAssumption DEF SlotsOK
<1>10. QED
  BY <1>1, <1>7, <1>8, <1>9 DEF Good, h

LEMMA BluetoothStart ==
  ASSUME Init
  PROVE  BluetoothInv
<1>1. PICK keys \in [Dev -> BOOLEAN] : host = [HciStart EXCEPT !.key = keys]
  BY DEF Init
<1>2. Good(host) /\ \A d \in Dev : host.handle[d] = "none"
  BY <1>1, StartGood
<1>3. /\ rx = <<>> /\ link = {} /\ owed = {} /\ air = [d \in Dev |-> <<>>]
      /\ lost = FALSE /\ crossed = FALSE
  BY DEF Init
<1>4. rx \in Seq(Packets(KnownTo(host))) /\ air \in [Dev -> Seq(Said)]
  BY <1>3, ShortSeq
<1>5. ASSUME NEW d \in Dev PROVE LinkFollows(d)
  <2>1. TellsOf(rx, d) = {}
    BY <1>3 DEF TellsOf
  <2>2. host.handle[d] # d /\ d \notin link
    BY <1>2, <1>3, BtHostAssumption
  <2>3. QED
    BY <2>1, <2>2 DEF LinkFollows, Follows
<1>6. QED
  BY <1>2, <1>3, <1>4, <1>5 DEF BluetoothInv

LEMMA BluetoothStep ==
  ASSUME BluetoothInv, [Next]_vars
  PROVE  BluetoothInv'
<1>1. CASE ReadyToSend
  BY <1>1, ReadyToSendInv
<1>2. CASE \E o \in owed : Answer(o)
  BY <1>2, AnswerInv
<1>3. ASSUME NEW d \in Dev, InquiryResult(d) \/ Arrive(d) PROVE BluetoothInv'
  BY <1>3, InquiryResultInv, ArriveInv
<1>4. CASE SendOne
  BY <1>4, SendOneInv
<1>5. CASE Refused
  BY <1>5, RefusedInv
<1>6. CASE HandleOne
  BY <1>6, HandleOneInv
<1>7. CASE Fetch
  BY <1>7, FetchInv
<1>8. ASSUME NEW d \in Dev, Device(d) PROVE BluetoothInv'
  <2>1. CASE Request(d)
    BY <2>1, RequestInv
  <2>2. CASE Opens(d)
    BY <2>2, OpensInv
  <2>3. CASE LinkLoss(d)
    BY <2>3, LinkLossInv
  <2>4. ASSUME NEW c \in Cids, Closes(d, c) \/ Reports(d, c) PROVE BluetoothInv'
    BY <2>4, ClosesInv, ReportsInv
  <2>5. QED
    BY <1>8, <2>1, <2>2, <2>3, <2>4 DEF Device
<1>9. CASE UNCHANGED vars
  <2>1. UNCHANGED <<host, rx, link, owed, air, lost, crossed>>
    BY <1>9 DEF vars, envVars
  <2>2. QED
    BY <2>1, Parts, SaysInv
<1>10. QED
  BY <1>1, <1>2, <1>3, <1>4, <1>5, <1>6, <1>7, <1>8, <1>9 DEF Next, Controller, Main

\* The invariant holds of every behaviour of the host, its queues and the air.
THEOREM HostGood == Spec => []BluetoothInv
<1>1. Init => BluetoothInv
  BY BluetoothStart
<1>2. BluetoothInv /\ [Next]_vars => BluetoothInv'
  BY BluetoothStep
<1>3. QED
  BY <1>1, <1>2, PTL DEF Spec

\* A channel id that a HID device keeps names its own channel, or none.
THEOREM IdsAreOwn == Spec => []IdsNameOwnChannels
<1>1. BluetoothInv => IdsNameOwnChannels
  <2>1. SUFFICES ASSUME OwnIds(host) PROVE IdsNameOwnChannels
    BY DEF BluetoothInv, Good
  <2>2. QED
    BY <2>1 DEF IdsNameOwnChannels, OwnIds, Own
<1>2. QED
  BY <1>1, HostGood, PTL

\* No Wii slot is held twice, or by nobody.
THEOREM SlotsAreHeld == Spec => []SlotsHeld
<1>1. BluetoothInv => SlotsHeld
  <2>1. SUFFICES ASSUME Good(host) PROVE SlotsHeld
    BY DEF BluetoothInv
  <2>2. SlotsOK(host) /\ NoSlot \notin Slots
    BY <2>1, BtHostAssumption DEF Good
  <2>3. \A d \in Dev : host.hid[d].slot \in Slots \union {NoSlot}
    BY <2>1 DEF Good, HostOK, HidOK
  <2>4. {i \in Slots : host.slot[i]} = {host.hid[d].slot : d \in Dev} \ {NoSlot}
    BY <2>2, <2>3 DEF SlotsOK
  <2>5. QED
    BY <2>2, <2>4 DEF SlotsHeld, SlotsOK
<1>2. QED
  BY <1>1, HostGood, PTL

\* When all is handled and nothing was lost or crossed, the host takes a device
\* for connected if and only if the controller does.
THEOREM LinkTracked == Spec => []HostTracksLink
<1>1. BluetoothInv => HostTracksLink
  <2>1. SUFFICES ASSUME BluetoothInv, ~lost, ~crossed, rx = <<>>, NEW d \in Dev
                 PROVE  (host.handle[d] = d) <=> d \in link
    BY DEF HostTracksLink
  <2>2. TellsOf(rx, d) = {}
    BY <2>1 DEF TellsOf
  <2>3. Follows(rx, d, host.handle[d] = d, d \in link)
    BY <2>1, Parts
  <2>4. QED
    BY <2>2, <2>3 DEF Follows
<1>2. QED
  BY <1>1, HostGood, PTL
=============================================================================
