------------------------------- MODULE BtHost -------------------------------
(***************************************************************************)
(* The Bluetooth host of the Atom variant, as functions of its state: what *)
(* the HCI layer, the L2CAP channels and the HID devices above them do     *)
(* with an event, a packet, or a call. The layers call each other up and   *)
(* down within one call, on one thread, so each operator takes the state h *)
(* of the whole host and returns the next one, a call within a call being  *)
(* an operator applied to the result of another.                           *)
(*                                                                         *)
(* A device and its HCI handle are told apart by the controller alone: the *)
(* handle of a connected device is the device, "none" is -1 and "paging"   *)
(* the 0 of a connection in progress. Channel ids, _cid counting from 0x40 *)
(* in the code, count from 1 here, 0 being no channel.                     *)
(***************************************************************************)
EXTENDS Naturals, Sequences, FiniteSets, SequencesExt

CONSTANTS
  Dev,      \* devices
  WiiDev,   \* those among them that is_wii() says are Wii remotes
  MaxCid,   \* bound: channels opened in a behaviour
  TxSize,   \* QSIZE of the queue to the controller
  SockSize, \* QSIZE of a channel's queue
  Slots     \* the wii_states, 0..n

NoSlot == 99   \* wii_index is -1

ASSUME BtHostAssumption ==
  /\ WiiDev \subseteq Dev
  /\ MaxCid \in Nat /\ TxSize \in Nat \ {0} /\ SockSize \in Nat \ {0}
  /\ Slots \subseteq Nat /\ NoSlot \notin Slots
  /\ Dev \cap {"none", "paging"} = {}

Cids == 1 .. MaxCid
Psms == {"sdp", "control", "interrupt"}
Handshake == {"CONN_RSP", "CONF_REQ", "CONF_RSP"}
NoSocket == [dev |-> "none"]
NoPacket == [t |-> "none"]

HciStart ==
  [hci    |-> {"off"},
   handle |-> [d \in Dev |-> "none"],
   seen   |-> [d \in Dev |-> {}],
   sock   |-> [c \in Cids |-> NoSocket],
   cid    |-> 1,
   tx     |-> <<>>,
   held   |-> NoPacket,
   known  |-> <<>>,
   key    |-> [d \in Dev |-> FALSE],
   slot   |-> [i \in Slots |-> FALSE],
   hid    |-> [d \in Dev |->
                 [state |-> "CLOSED", reconnect |-> FALSE, sdp |-> 0,
                  control |-> 0, interrupt |-> 0, handler |-> 0,
                  slot |-> NoSlot]]]

Live(h, c) == c \in Cids /\ h.sock[c] # NoSocket
-----------------------------------------------------------------------------
(* Sending: everything goes through the queue, which drops when it is full *)

Write(h, p) ==
  IF Len(h.tx) < TxSize THEN [h EXCEPT !.tx = Append(@, p)] ELSE h

Cmd(h, c) == Write(h, [t |-> "CMD", c |-> c, dev |-> "none"])
CmdTo(h, c, d) == Write(h, [t |-> "CMD", c |-> c, dev |-> d])

\* An L2CAP signal, for channel c of this end and x of the other, or of kind
\* x; it goes out with the handle the device has now.
Signal(h, d, code, c, x) ==
  Write(h, [t |-> "SIG", dev |-> d, handle |-> h.handle[d],
            code |-> code, scid |-> c, to |-> x])

Send(h, c, what) ==
  IF Live(h, c)
  THEN LET d == h.sock[c].dev
       IN  Write(h, [t |-> "DATA", dev |-> d, handle |-> h.handle[d],
                     scid |-> c, what |-> what])
  ELSE h
-----------------------------------------------------------------------------
(* Channels *)

\* A channel changes its state and says so to the HID device, which only
\* waits for its SDP channel to be open, to send the query.
SetState(h, c, st) ==
  LET d == h.sock[c].dev
      s == [h EXCEPT !.sock[c].st = st]
  IN  IF c = h.hid[d].sdp /\ st = "OPEN"
      THEN Send([s EXCEPT !.hid[d].handler = c], c, "query")
      ELSE s

\* Mutant: the ids of channels that were closed are given again.
FreshCidReused(h) == CHOOSE c \in Cids : ~Live(h, c)

FreshCid(h) == h.cid

\* Its result, the new channel, is FreshCid of the state before.
L2Open(h, d, psm, listen) ==
  LET c == FreshCid(h)
      s == [h EXCEPT !.cid = @ + 1,
                     !.sock[c] = [dev |-> d, psm |-> psm, st |-> "NONE",
                                  dcid |-> 0, q |-> <<>>, got |-> {}]]
  IN  IF listen
      THEN SetState(s, c, "LISTENING")
      ELSE SetState(Signal(s, d, "CONN_REQ", c, psm), c, "OPENING")

\* Closing takes the channel out of the table; its object stays behind.
L2Close(h, c, thisEnd) ==
  IF ~Live(h, c) THEN h
  ELSE LET s == IF thisEnd /\ h.sock[c].st = "OPEN"
                THEN Signal(h, h.sock[c].dev, "DISCONN_REQ", c, h.sock[c].dcid)
                ELSE h
       IN  [s EXCEPT !.sock[c] = NoSocket]

\* Mutant: a disconnection leaves the device its channels and its handle.
DisconnectAllKept(h, d) == [h EXCEPT !.seen[d] = {}]

\* The link is gone, and with it all channels of the device.
DisconnectAll(h, d) ==
  [h EXCEPT !.sock = [c \in Cids |-> IF @[c].dev = d THEN NoSocket ELSE @[c]],
            !.handle[d] = "none",
            !.seen[d] = {}]

\* Mutant: the answer to the own configuration is not waited for.
OpenMaskShort == Handshake \ {"CONF_RSP"}

OpenMask == Handshake

\* Outbound channels are open once the device, by whichever of its channels,
\* has sent all of the handshake.
CheckOpen(h, c) ==
  IF /\ Live(h, c)
     /\ "CONN_REQ" \notin h.seen[h.sock[c].dev]
     /\ OpenMask \subseteq h.seen[h.sock[c].dev]
  THEN SetState(h, c, "OPEN")
  ELSE h

\* History, for the properties: the parts of the handshake that came for c.
Got(h, c, code) ==
  IF Live(h, c) THEN [h EXCEPT !.sock[c].got = @ \cup {code}] ELSE h

\* One channel answers a request to connect, and asks to be configured.
Accept(h, c, dc) ==
  LET d == h.sock[c].dev
      s == SetState(Signal(h, d, "CONN_RSP", c, dc), c, "OPENING")
  IN  Signal([s EXCEPT !.sock[c].dcid = dc], d, "CONF_REQ", c, dc)

\* Every channel of the device on that psm does.
Accepted(h, d, psm, dc) ==
  LET Asked(c) == Live(h, c) /\ h.sock[c].dev = d /\ h.sock[c].psm = psm
      upTo[c \in 0..MaxCid] == IF c = 0 THEN h
                               ELSE IF Asked(c) THEN Accept(upTo[c - 1], c, dc) ELSE upTo[c - 1]
  IN  upTo[MaxCid]

\* The answer to a request to connect: yes, wait, or no.
ConnRsp(h, d, p) ==
  IF ~Live(h, p.scid) \/ p.status = "pending" THEN h
  ELSE IF p.status = "ok"
  THEN Signal([h EXCEPT !.sock[p.scid].dcid = p.dcid], d, "CONF_REQ", p.scid, p.dcid)
  ELSE SetState(h, p.scid, "CLOSED")

\* A signal of device d; which ones it sent is remembered for all of d.
Control(h, d, p) ==
  LET s == Got([h EXCEPT !.seen[d] = @ \cup {p.code}], p.scid, p.code)
  IN  CASE p.code = "CONN_RSP" -> ConnRsp(s, d, p)
        [] p.code = "CONF_RSP" -> CheckOpen(s, p.scid)
        [] p.code = "CONF_REQ" ->
             IF Live(s, p.scid)
             THEN CheckOpen(Signal(s, d, "CONF_RSP", p.scid, s.sock[p.scid].dcid), p.scid)
             ELSE s
        [] p.code = "DISCONN_REQ" ->
             Signal(L2Close(s, p.scid, FALSE), d, "DISCONN_RSP", p.scid, 0)
        [] p.code = "DISCONN_RSP" -> L2Close(s, p.scid, TRUE)
        [] p.code = "CONN_REQ" -> Accepted(s, d, p.psm, p.dcid)

\* A whole packet of device d: a signal, or data for a channel, whose queue
\* drops it when it is full.
Data(h, d, p) ==
  IF p.t = "SIG" THEN Control(h, d, p)
  ELSE IF Live(h, p.scid) /\ Len(h.sock[p.scid].q) < SockSize
       THEN [h EXCEPT !.sock[p.scid].q = Append(@, p.what)]
       ELSE h

\* Packets and most events name a handle: that of d, if d has it still.
Connected(h, d) == h.handle[d] = d

\* A packet on a handle no device has is kept, the last one only, ...
Acl(h, p) ==
  IF Connected(h, p.dev) THEN Data(h, p.dev, p) ELSE [h EXCEPT !.held = p]

\* ... and tried again when a connection is complete.
DongleBug(h) ==
  IF h.held = NoPacket THEN h ELSE [Acl(h, h.held) EXCEPT !.held = NoPacket]
-----------------------------------------------------------------------------
(* HID devices *)

CreateConnection(h, d) ==
  IF h.handle[d] # "none" THEN h
  ELSE CmdTo([h EXCEPT !.seen[d] = {}, !.handle[d] = "paging"], "CREATE", d)

HidConnect(h, d) ==
  CreateConnection([h EXCEPT !.hid[d].reconnect = FALSE,
                             !.hid[d].state = "CONNECT"], d)

AddDevice(h, d) ==
  IF Contains(h.known, d) THEN h ELSE [h EXCEPT !.known = Append(@, d)]

\* A device asks for a connection: it is added when new, and accepted.
ConnectionRequest(h, d) ==
  CmdTo([AddDevice(h, d) EXCEPT !.hid[d].reconnect = TRUE], "ACCEPT", d)

\* Opens the two channels of a HID device, or listens for them.
OpenChannels(h, d, listen) ==
  LET s == [L2Open(h, d, "control", listen) EXCEPT !.hid[d].control = FreshCid(h)]
  IN  [L2Open(s, d, "interrupt", listen) EXCEPT !.hid[d].interrupt = FreshCid(s)]

HidConnected(h, d) ==
  LET s == IF h.hid[d].reconnect THEN OpenChannels(h, d, TRUE) ELSE h
  IN  [CmdTo(s, "NAME", d) EXCEPT !.hid[d].state = "READING_NAME"]

\* Mutant: only a device that is still being paged is asked for its key.
AuthenticationRequestedEarly(h, d) ==
  IF h.handle[d] = "paging" THEN CmdTo(h, "AUTH", d) ELSE h

AuthenticationRequested(h, d) ==
  IF h.handle[d] # "none" THEN CmdTo(h, "AUTH", d) ELSE h

\* The name, or that there is none, decides what comes next.
RemoteName(h, d) ==
  IF h.hid[d].reconnect THEN [h EXCEPT !.hid[d].state = "OPENING"]
  ELSE IF h.key[d]
  THEN [AuthenticationRequested(h, d) EXCEPT !.hid[d].state = "AUTHENTICATING"]
  ELSE [L2Open(h, d, "sdp", FALSE) EXCEPT !.hid[d].sdp = FreshCid(h),
                                          !.hid[d].state = "READING_SDP"]

AuthenticationComplete(h, d) ==
  IF h.hid[d].reconnect THEN h ELSE OpenChannels(h, d, FALSE)

\* Mutant: the Wii slot is not given back.
SlotsFreedNever(h, d) == h.slot

SlotsFreed(h, d) == [i \in Slots |-> h.slot[i] /\ i # h.hid[d].slot]

\* Closes what is left of the channels. The SDP channel's id stays.
HidDisconnected(h, d) ==
  LET f == h.hid[d]
      s == L2Close(L2Close(L2Close(h, f.sdp, TRUE), f.control, TRUE), f.interrupt, TRUE)
  IN  [s EXCEPT !.hid[d] = [f EXCEPT !.reconnect = FALSE, !.interrupt = 0, !.control = 0,
                                     !.state = "CLOSED", !.slot = NoSlot],
                !.slot = SlotsFreed(h, d)]
-----------------------------------------------------------------------------
(* Events *)

ConnectionComplete(h, d, ok) ==
  DongleBug(IF ~Contains(h.known, d) THEN h
            ELSE IF ok THEN HidConnected([h EXCEPT !.handle[d] = d], d)
            ELSE [h EXCEPT !.handle[d] = "none"])

StartInquiry(h) ==
  IF "INQUIRY" \in h.hci THEN h
  ELSE Cmd([h EXCEPT !.hci = @ \cup {"INQUIRY"}], "INQUIRY")

\* The phases of the start, each begun when the one before is done.
CommandComplete(h, c) ==
  CASE c = "RESET" ->
         [Cmd(h, "READ_BUFFER_SIZE") EXCEPT !.hci = @ \cup {"RESET"}]
    [] c = "READ_BUFFER_SIZE" ->
         [Cmd(h, "READ_BD_ADDR") EXCEPT !.hci = @ \cup {"READ_BUFFER_SIZE"}]
    [] c = "READ_BD_ADDR" ->
         [Cmd(Cmd(h, "WRITE_CLASS"), "WRITE_SCAN_ENABLE")
            EXCEPT !.hci = @ \cup {"READ_BD_ADDR"}]
    [] c = "WRITE_SCAN_ENABLE" ->
         Cmd(StartInquiry([h EXCEPT !.hci = @ \cup {"INITED"}]), "WRITE_AUTH_ENABLE")
    [] OTHER -> h

InquiryDone(h) ==
  LET upTo[n \in 0..Len(h.known)] == IF n = 0 THEN [h EXCEPT !.hci = @ \ {"INQUIRY"}]
                                     ELSE HidConnect(upTo[n - 1], h.known[n])
  IN  upTo[Len(h.known)]

HciEvent(h, e) ==
  CASE e.t = "COMPLETE" -> CommandComplete(h, e.c)
    [] e.t = "INQUIRY_RESULT" -> AddDevice(h, e.dev)
    [] e.t = "INQUIRY_DONE" -> InquiryDone(h)
    [] e.t = "CONNECTION" -> ConnectionComplete(h, e.dev, e.ok)
    [] e.t = "CONNECTION_REQUEST" -> ConnectionRequest(h, e.dev)
    [] e.t = "AUTHENTICATION" ->
         IF Connected(h, e.dev) THEN AuthenticationComplete(h, e.dev) ELSE h
    [] e.t = "DISCONNECTION" ->
         IF Connected(h, e.dev)
         THEN HidDisconnected(DisconnectAll(h, e.dev), e.dev)
         ELSE h
    [] e.t = "REMOTE_NAME" ->
         IF Contains(h.known, e.dev) THEN RemoteName(h, e.dev) ELSE h
    [] e.t = "LINK_KEY_REQUEST" ->
         IF h.key[e.dev] THEN CmdTo(h, "KEY_REPLY", e.dev)
                         ELSE CmdTo(h, "KEY_NEG_REPLY", e.dev)
    [] e.t = "PIN_CODE_REQUEST" -> CmdTo(h, "PIN_REPLY", e.dev)
    [] e.t = "LINK_KEY_NOTIFICATION" -> [h EXCEPT !.key[e.dev] = TRUE]

\* One packet from the controller, whatever it is.
Received(h, p) == IF p.t \in {"SIG", "DATA"} THEN Acl(h, p) ELSE HciEvent(h, p)
-----------------------------------------------------------------------------
(* hid_get(), called from the main loop *)

Takes(h, i) == ~h.slot[i]

FirstFree(h) == CHOOSE i \in Slots : Takes(h, i) /\ \A j \in Slots : Takes(h, j) => i <= j

\* A report of a Wii remote without a slot gets it the first free one.
FindSlot(h, d) ==
  IF \/ d \notin WiiDev \/ h.hid[d].slot # NoSlot
     \/ \A i \in Slots : ~Takes(h, i)
  THEN h
  ELSE LET i == FirstFree(h)
           s == [h EXCEPT !.slot[i] = TRUE, !.hid[d].slot = i]
       IN  Send(Send(s, h.hid[d].interrupt, "led"), h.hid[d].interrupt, "led")

\* The answer to the SDP query is complete, or asks for the rest of it.
UpdateSdp(h, d) ==
  LET f == h.hid[d]  c == f.handler
  IN  IF ~Live(h, c) \/ h.sock[c].q = <<>> THEN h
      ELSE LET s == [h EXCEPT !.sock[c].q = Tail(@)]
           IN  IF Head(h.sock[c].q) = "last"
               THEN AuthenticationRequested(
                      [L2Close(s, f.sdp, TRUE) EXCEPT
                         !.hid[d].handler = 0, !.hid[d].sdp = 0,
                         !.hid[d].state = "AUTHENTICATING"], d)
               ELSE Send(s, c, "query")

\* One device's turn: at most one report, or the end of a dead channel.
GetFrom(r, d) ==
  LET h == r.h  c == h.hid[d].interrupt
      s == IF c # 0 /\ ~Live(h, c) THEN HidDisconnected(h, d) ELSE h
  IN  IF r.done THEN r
      ELSE IF Live(h, c) /\ h.sock[c].q # <<>>
      THEN [h |-> FindSlot([h EXCEPT !.sock[c].q = Tail(@)], d), done |-> TRUE]
      ELSE [h |-> IF s.hid[d].sdp # 0 THEN UpdateSdp(s, d) ELSE s, done |-> FALSE]

Get(h) ==
  LET upTo[n \in 0..Len(h.known)] == IF n = 0 THEN [h |-> h, done |-> FALSE]
                                     ELSE GetFrom(upTo[n - 1], h.known[n])
  IN  upTo[Len(h.known)].h
=============================================================================
