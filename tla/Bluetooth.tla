------------------------------ MODULE Bluetooth ------------------------------
(***************************************************************************)
(* The Bluetooth host of the Atom variant at work. Two threads of the      *)
(* program take part: the controller's task, which only puts packets into  *)
(* the queue _rx, and the main loop, which in each round sends what is in  *)
(* _tx while the controller takes it, handles what is in _rx until it is   *)
(* empty, and then fetches a report. The queues drop what does not fit, so *)
(* a main loop that is kept busy elsewhere, by the menu, loses packets.    *)
(*                                                                         *)
(* The controller and the devices are not in the repository: they are      *)
(* modelled as the code uses them, a controller that answers each command  *)
(* once and devices that follow the handshake, and what can go wrong       *)
(* between them is bounded by Trouble.                                     *)
(***************************************************************************)
EXTENDS BtHost

CONSTANTS
  RxSize,   \* QSIZE of the queue from the controller
  Trouble   \* bound: times something goes wrong, or a device acts by itself

ASSUME BluetoothAssumption == RxSize \in Nat \ {0} /\ Trouble \in Nat

VARIABLES
  host,     \* the state of the host, see BtHost
  pc,       \* the main loop: it still sends, or only handles
  rx,       \* _rx
  link,     \* the devices connected, as the controller knows them
  owed,     \* what the controller has yet to answer
  peer,     \* channels the devices have at their end, by the id at this end
  air,      \* what a device has sent and the controller not yet passed on
  trouble,  \* how many times something may still go wrong
  lost,     \* history: _rx was full when a packet came
  crossed   \* history: a page ended after the device had connected by itself

envVars == <<rx, link, owed, peer, air, trouble, lost, crossed>>
vars == <<host, pc, envVars>>

Owe(t, d) == [t |-> t, dev |-> d]
-----------------------------------------------------------------------------
(* The controller's task *)

\* Called when the controller is ready, for the first time only.
ReadyToSend ==
  /\ host.hci = {"off"}
  /\ host' = [Cmd(host, "RESET") EXCEPT !.hci = {}]
  /\ UNCHANGED <<pc, envVars>>

\* A step goes wrong a number of times; the bound is the only guard.
Goes(n) == trouble >= n /\ trouble' = trouble - n

\* A packet for the host is queued, or lost when the queue is full; n is what
\* goes wrong besides.
PostWrong(p, n) ==
  IF Len(rx) < RxSize THEN rx' = Append(rx, p) /\ Goes(n) /\ UNCHANGED lost
                      ELSE lost' = TRUE /\ Goes(n + 1) /\ UNCHANGED rx

Post(p) == PostWrong(p, 0)

\* The answer to a command or a page, the link being up or down after it.
Answer(o) ==
  /\ o \in owed
  /\ \E fails \in BOOLEAN :
       LET d == o.dev
           up == d \in link
           n == IF fails THEN 1 ELSE 0
           result == PostWrong([t |-> "CONNECTION", dev |-> d, ok |-> ~fails], n)
       IN  \/ /\ o.t = "PAGE" /\ (up => fails)
              /\ link' = IF fails THEN link ELSE link \cup {d}
              /\ owed' = owed \ {o}
              /\ result
           \/ /\ o.t = "ACCEPTING" /\ ~up
              /\ link' = IF fails THEN link ELSE link \cup {d}
              /\ owed' = owed \ {o}
              /\ result
           \/ /\ o.t = "LINK_KEY_NOTIFICATION" /\ ~fails
              /\ owed' = (owed \ {o}) \cup {Owe("AUTHENTICATION", d)}
              /\ Post(o) /\ UNCHANGED link
           \/ /\ o.t \notin {"PAGE", "ACCEPTING", "LINK_KEY_NOTIFICATION"} /\ ~fails
              /\ owed' = owed \ {o}
              /\ Post(o) /\ UNCHANGED link
  /\ crossed' = (crossed \/ (o.t = "PAGE" /\ o.dev \in link))
  /\ UNCHANGED <<host, pc, peer, air>>

\* A device in range answers the inquiry.
InquiryResult(d) ==
  /\ \E o \in owed : o.t = "INQUIRY_DONE"
  /\ ~Contains(host.known, d)
  /\ \A i \in DOMAIN rx : rx[i].t # "INQUIRY_RESULT" \/ rx[i].dev # d
  /\ Post([t |-> "INQUIRY_RESULT", dev |-> d])
  /\ UNCHANGED <<host, pc, link, owed, peer, air, crossed>>

\* A packet of a device comes in over the air.
Arrive(d) ==
  /\ d \in link /\ air[d] # <<>>
  /\ Post(Head(air[d]))
  /\ air' = [air EXCEPT ![d] = Tail(@)]
  /\ UNCHANGED <<host, pc, link, owed, peer, crossed>>
-----------------------------------------------------------------------------
(* Devices, by themselves *)

\* A device that was paired wants to connect again.
Request(d) ==
  /\ "INITED" \in host.hci /\ d \notin link /\ Owe("ACCEPTING", d) \notin owed
  /\ PostWrong([t |-> "CONNECTION_REQUEST", dev |-> d], 1)
  /\ UNCHANGED <<host, pc, link, owed, peer, air, crossed>>

Says(d, p) == air' = [air EXCEPT ![d] = Append(@, p)]

\* It opens its channels, one after the other,
Opens(d) ==
  /\ d \in link /\ Goes(1)
  /\ air' = [air EXCEPT ![d] = @ \o
       [i \in 1 .. 2 |-> [t |-> "SIG", dev |-> d, code |-> "CONN_REQ", scid |-> 0,
                          psm |-> <<"control", "interrupt">>[i],
                          dcid |-> MaxCid + i]]]
  /\ UNCHANGED <<host, pc, rx, link, owed, peer, lost, crossed>>

\* closes one of them,
Closes(d, c) ==
  /\ d \in link /\ Goes(1)
  /\ c \in peer[d]
  /\ peer' = [peer EXCEPT ![d] = @ \ {c}]
  /\ Says(d, [t |-> "SIG", dev |-> d, code |-> "DISCONN_REQ", scid |-> c])
  /\ UNCHANGED <<host, pc, rx, link, owed, lost, crossed>>

\* reports a key on the interrupt channel,
Reports(d, c) ==
  /\ d \in link /\ air[d] = <<>>
  /\ c \in peer[d]
  /\ Live(host, c) /\ host.sock[c].psm = "interrupt" /\ host.sock[c].q = <<>>
  /\ \A i \in DOMAIN rx : rx[i].t # "DATA"
  /\ Says(d, [t |-> "DATA", dev |-> d, scid |-> c, what |-> "report"])
  /\ UNCHANGED <<host, pc, rx, link, owed, peer, trouble, lost, crossed>>

\* or goes out of range, with what it had not yet said.
LinkLoss(d) ==
  /\ d \in link
  /\ link' = link \ {d}
  /\ air' = [air EXCEPT ![d] = <<>>]
  /\ peer' = [peer EXCEPT ![d] = {}]
  /\ owed' = {o \in owed : o.dev # d \/ o.t \in {"PAGE", "REMOTE_NAME", "AUTHENTICATION"}}
  /\ PostWrong([t |-> "DISCONNECTION", dev |-> d], 1)
  /\ UNCHANGED <<host, pc, crossed>>
-----------------------------------------------------------------------------
(* The main loop: HCI::update(), then hid_get() *)

\* What the controller and the device answer to a packet of the host.
Replies(p) ==
  LET d == p.dev
      sig(code) == [t |-> "SIG", dev |-> d, code |-> code, scid |-> p.scid,
                    dcid |-> p.scid, status |-> "ok"]
      connRsp(s) == [sig("CONN_RSP") EXCEPT !.status = s]
  IN  CASE p.t = "SIG" /\ p.code = "CONN_REQ" ->
             {<<connRsp("ok"), sig("CONF_REQ")>>, <<connRsp("refused")>>,
              <<connRsp("pending"), connRsp("ok"), sig("CONF_REQ")>>}
        [] p.t = "SIG" /\ p.code = "CONN_RSP" -> {<<sig("CONF_REQ")>>}
        [] p.t = "SIG" /\ p.code = "CONF_REQ" /\ p.scid \in peer[d] -> {<<sig("CONF_RSP")>>}
        [] p.t = "SIG" /\ p.code = "DISCONN_REQ" -> {<<sig("DISCONN_RSP")>>}
        [] p.t = "DATA" /\ p.what = "query" /\ p.scid \in peer[d] ->
             {<<[t |-> "DATA", dev |-> d, scid |-> p.scid, what |-> w]>> : w \in {"last", "more"}}
        [] OTHER -> {<<>>}

\* The channels of a device after its reply r.
PeerAfter(p, r) ==
  CASE p.t = "SIG" /\ p.code = "CONN_REQ" /\ Len(r) > 1 ->
         [peer EXCEPT ![p.dev] = @ \cup {p.scid}]
    [] p.t = "SIG" /\ p.code = "CONN_RSP" -> [peer EXCEPT ![p.dev] = @ \cup {p.scid}]
    [] p.t = "SIG" /\ p.code = "DISCONN_REQ" -> [peer EXCEPT ![p.dev] = @ \ {p.scid}]
    [] OTHER -> peer

\* Those of them that are trouble: a refusal, and an answer in parts.
Wrong(r) == \E i \in DOMAIN r : \/ r[i].t = "SIG" /\ r[i].status # "ok"
                                \/ r[i].t = "DATA" /\ r[i].what = "more"

\* What the controller owes for a command; answers the host does nothing
\* with are left out.
Owes(p) ==
  LET d == p.dev  up == d \in link
  IN  CASE p.c = "CREATE" -> IF up THEN {} ELSE {Owe("PAGE", d)}
        [] p.c = "ACCEPT" -> IF up THEN {} ELSE {Owe("ACCEPTING", d)}
        [] p.c = "NAME" -> {Owe("REMOTE_NAME", d)}
        [] p.c = "INQUIRY" -> {Owe("INQUIRY_DONE", "none")}
        [] p.c = "AUTH" -> IF up THEN {Owe("LINK_KEY_REQUEST", d)} ELSE {}
        [] p.c = "KEY_REPLY" -> IF up THEN {Owe("AUTHENTICATION", d)} ELSE {}
        [] p.c = "KEY_NEG_REPLY" -> IF up THEN {Owe("PIN_CODE_REQUEST", d)} ELSE {}
        [] p.c = "PIN_REPLY" -> IF up THEN {Owe("LINK_KEY_NOTIFICATION", d)} ELSE {}
        [] p.c \in {"WRITE_CLASS", "WRITE_AUTH_ENABLE"} -> {}
        [] OTHER -> {[t |-> "COMPLETE", c |-> p.c, dev |-> "none"]}

\* A packet of _tx goes out.
SendOne ==
  /\ pc = "send" /\ host.tx # <<>>
  /\ LET p == Head(host.tx)
     IN  /\ host' = [host EXCEPT !.tx = Tail(@)]
         /\ IF p.t = "CMD"
            THEN owed' = owed \cup Owes(p) /\ UNCHANGED <<peer, air, trouble>>
            ELSE /\ UNCHANGED owed
                 /\ IF p.handle \in link
                    THEN \E r \in Replies(p) :
                           /\ Goes(IF Wrong(r) THEN 1 ELSE 0)
                           /\ air' = [air EXCEPT ![p.dev] = @ \o r]
                           /\ peer' = PeerAfter(p, r)
                    ELSE UNCHANGED <<peer, air, trouble>>
  /\ UNCHANGED <<pc, rx, link, lost, crossed>>

\* The controller takes no more for now.
Refused ==
  /\ pc = "send" /\ host.tx # <<>> /\ Goes(1) /\ pc' = "handle"
  /\ UNCHANGED <<host, rx, link, owed, peer, air, lost, crossed>>

\* Nothing more goes out in this round.
SendingOver == pc = "handle" \/ host.tx = <<>>

\* A packet of _rx is handled.
HandleOne ==
  /\ SendingOver /\ rx # <<>>
  /\ host' = Received(host, Head(rx))
  /\ rx' = Tail(rx) /\ pc' = "handle"
  /\ UNCHANGED <<link, owed, peer, air, trouble, lost, crossed>>

\* _rx is empty: hid_get(), and the next round.
Fetch ==
  /\ SendingOver /\ rx = <<>>
  /\ host' = Get(host) /\ pc' = "send"
  /\ UNCHANGED envVars

-----------------------------------------------------------------------------
Init ==
  /\ \E keys \in [Dev -> BOOLEAN] : host = [HciStart EXCEPT !.key = keys]
  /\ pc = "send" /\ rx = <<>> /\ link = {} /\ owed = {}
  /\ peer = [d \in Dev |-> {}] /\ air = [d \in Dev |-> <<>>]
  /\ trouble = Trouble /\ lost = FALSE /\ crossed = FALSE

Controller ==
  \/ ReadyToSend
  \/ \E o \in owed : Answer(o)
  \/ \E d \in Dev : InquiryResult(d) \/ Arrive(d)

Device(d) ==
  \/ Request(d) \/ Opens(d) \/ LinkLoss(d)
  \/ \E c \in Cids : Closes(d, c) \/ Reports(d, c)

Main == SendOne \/ Refused \/ HandleOne \/ Fetch

Next == Controller \/ Main \/ \E d \in Dev : Device(d)

Spec == Init /\ [][Next]_vars

\* The main loop goes on, the controller now and then takes a packet and
\* answers; what devices do by themselves need never happen.
FairSpec ==
  /\ Spec
  /\ WF_vars(ReadyToSend) /\ WF_vars(SendOne \/ HandleOne \/ Fetch)
  /\ WF_vars(\E o \in owed : Answer(o))
  /\ \A d \in Dev : WF_vars(Arrive(d))
-----------------------------------------------------------------------------
(* Properties *)

\* A channel id that a HID device keeps is its own channel of that kind, or of
\* a channel that is gone: it never reads another's. The SDP id outlives its
\* channel (disconnection_complete() does not clear it).
IdsNameOwnChannels ==
  \A d \in Dev :
    LET f == host.hid[d]
        Own(c, psm) == Live(host, c) => host.sock[c].dev = d /\ host.sock[c].psm = psm
    IN  Own(f.sdp, "sdp") /\ Own(f.handler, "sdp")
        /\ Own(f.control, "control") /\ Own(f.interrupt, "interrupt")

\* Through losses, reconnections and late packets, no Wii slot is held by two
\* devices, none is in use without a device that can still give it back, and
\* a device that holds one has an interrupt channel, or had until just now.
SlotsHeld ==
  /\ \A d, e \in Dev : d # e /\ host.hid[d].slot # NoSlot => host.hid[d].slot # host.hid[e].slot
  /\ \A d \in Dev : host.hid[d].slot # NoSlot => host.hid[d].interrupt # 0
  /\ {i \in Slots : host.slot[i]} = {host.hid[d].slot : d \in Dev} \ {NoSlot}

\* Nothing has gone wrong, and no device has acted by itself.
Quiet == trouble = Trouble

\* While nothing goes wrong, the SDP query goes out on a channel that both ends
\* have configured (hid_server.cpp:811, "wait for sdp channel to be open before
\* sending query"); after a reconnection it may not.
SdpQueriesOpenChannel ==
  Quiet => \A d \in Dev : LET c == host.hid[d].handler
                          IN  Live(host, c) => Handshake \subseteq host.sock[c].got

\* As long as no packet was lost and no page crossed a device's own request,
\* once it has handled all there is, the host takes a device for connected if
\* and only if the controller does.
HostTracksLink ==
  ~lost /\ ~crossed /\ rx = <<>> => \A d \in Dev : host.handle[d] = d <=> d \in link

\* A device found by the inquiry gets its interrupt channel open, with or
\* without a link key, through name, query, PIN and handshakes.
Connects ==
  \A d \in Dev :
    host.hid[d].state = "CONNECT"
      ~> \/ ~Quiet
         \/ Live(host, host.hid[d].interrupt) /\ host.sock[host.hid[d].interrupt].st = "OPEN"
=============================================================================
