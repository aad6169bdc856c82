--------------------------- MODULE SdpQueryProofs ---------------------------
(***************************************************************************)
(* The SDP query of the Bluetooth host, for every set of devices and every *)
(* size of the queues: while nothing goes wrong it goes out on a channel   *)
(* that both ends have configured. check_open() takes what a device has    *)
(* sent of the handshake, on whichever channel, for the handshake of the   *)
(* channel at hand, so this rests on the device having no other channel,   *)
(* and on nothing of an earlier one being on its way.                      *)
(*                                                                         *)
(* QueryAt says so of a device: it is paged once and asked for its name    *)
(* once, the command, what is owed for it and its answer never being there *)
(* twice; until its answer is in, only signals of its one SDP channel are  *)
(* in _tx, owed, in _rx or on the air; and what has been seen of it came   *)
(* for that channel. Spares says of a step of the host that it is none of  *)
(* the query of d: most operators of BtHost are shown to spare it, those   *)
(* that page d, ask its name, open its SDP channel or end the query are    *)
(* taken one by one.                                                       *)
(***************************************************************************)
EXTENDS BluetoothProofs
-----------------------------------------------------------------------------
(* The SDP query while nothing goes wrong *)

\* No packet of q is p, or at most one is.
Nowhere(q, p) == \A i \in 1..Len(q) : q[i] # p
Once(q, p) == \A i, j \in 1..Len(q) : q[i] = p /\ q[j] = p => i = j

\* Of a command a in _tx, what the controller owes for it, o, and its answer b
\* in _rx, there is none, or one.
Unasked(tx, ow, q, a, o, b) == Nowhere(tx, a) /\ o \notin ow /\ Nowhere(q, b)
AskedOnce(tx, ow, q, a, o, b) ==
  /\ Once(tx, a) /\ Once(q, b)
  /\ o \in ow => Nowhere(tx, a) /\ Nowhere(q, b)
  /\ Nowhere(tx, a) \/ Nowhere(q, b)

Create(d) == [t |-> "CMD", c |-> "CREATE", dev |-> d]
Made(d) == [t |-> "CONNECTION", dev |-> d, ok |-> TRUE]
AskName(d) == [t |-> "CMD", c |-> "NAME", dev |-> d]
Named(d) == [t |-> "REMOTE_NAME", dev |-> d]

\* The query of a device is still to come or under way, or it is over, or left
\* out because there is a link key.
Phases == {"asking", "over"}

\* What may be in _tx: before its query is over, of a device nothing but the
\* page, its name, and signals of its SDP channel k.
MaySend(p, d, ph, k) ==
  /\ p.t = "CMD" => p.c # "ACCEPT"
  /\ p.t = "CMD" /\ p.dev = d => ph = "over" \/ p.c \in {"CREATE", "NAME"}
  /\ p.t = "SIG" /\ p.dev = d => ph = "over" \/ (p.scid = k /\ k # 0)

AuthEvents == {"AUTHENTICATION", "LINK_KEY_REQUEST", "PIN_CODE_REQUEST", "LINK_KEY_NOTIFICATION"}

\* What may be on its way to the host.
MayCome(p, d, ph, k) ==
  /\ p.t \notin {"CONNECTION_REQUEST", "DISCONNECTION", "ACCEPTING"}
  /\ p.t = "CONNECTION" => p.ok = TRUE
  /\ p.t \in AuthEvents /\ p.dev = d => ph = "over"
  /\ p.t = "SIG" => p.code # "CONN_REQ"
  /\ p.t = "SIG" /\ p.dev = d => ph = "over" \/ (p.scid = k /\ k # 0)

\* The host of device d: what has come from it since it is paged came for its SDP
\* channel, the only one it has.
Asking(h, d, ph) ==
  LET f == h.hid[d] IN
  /\ DOMAIN h.seen = Dev /\ h.held.t # "SIG"
  /\ f.reconnect = FALSE
  /\ f.handler \in {0, f.sdp}
  /\ Live(h, f.handler) => Handshake \subseteq h.sock[f.handler].got
  /\ ph = "over" => f.sdp = 0 /\ h.handle[d] = d
  /\ ph # "over" =>
       /\ f.control = 0 /\ f.interrupt = 0
       /\ \A c \in Cids : h.sock[c].dev = d => c = f.sdp
       /\ f.sdp = 0 => h.seen[d] = {} /\ h.handle[d] \in {"none", "paging", d}
       /\ f.sdp # 0 => h.handle[d] = d
       /\ Live(h, f.sdp) => h.seen[d] \subseteq h.sock[f.sdp].got
  /\ \A i \in 1..Len(h.tx) : MaySend(h.tx[i], d, ph, f.sdp)

\* It is paged once, and asked for its name once.
Stage(h, d, ph, ow, q) ==
  /\ IF h.handle[d] = "paging"
     THEN AskedOnce(h.tx, ow, q, Create(d), Owe("PAGE", d), Made(d))
     ELSE Unasked(h.tx, ow, q, Create(d), Owe("PAGE", d), Made(d))
  /\ IF h.handle[d] = d /\ h.hid[d].sdp = 0 /\ ph # "over"
     THEN AskedOnce(h.tx, ow, q, AskName(d), Owe("REMOTE_NAME", d), Named(d))
     ELSE Unasked(h.tx, ow, q, AskName(d), Owe("REMOTE_NAME", d), Named(d))

Coming(d, ph, k, ow, q, a) ==
  /\ \A o \in ow : MayCome(o, d, ph, k)
  /\ \A i \in 1..Len(q) : MayCome(q[i], d, ph, k)
  /\ \A e \in Dev : \A i \in 1..Len(a[e]) : MayCome(a[e][i], d, ph, k)

QueryAt(h, d, ph, ow, q, a) ==
  Asking(h, d, ph) /\ Stage(h, d, ph, ow, q) /\ Coming(d, ph, h.hid[d].sdp, ow, q, a)

QueryRight(h, d, ow, q, a) == \E ph \in Phases : QueryAt(h, d, ph, ow, q, a)

QuietInv ==
  /\ trouble \in 0..Trouble
  /\ Quiet => \A d \in Dev : QueryRight(host, d, owed, rx, air)

\* A step of the host that is none of the query of d: channels are closed, or have
\* heard more, or are others'.
Apart(h, s, d, ph) ==
  LET f == h.hid[d]  g == s.hid[d]  k == h.hid[d].sdp IN
  /\ DOMAIN s.seen = Dev
  /\ s.held.t = "SIG" => h.held.t = "SIG"
  /\ s.handle[d] = h.handle[d]
  /\ g.reconnect \in {f.reconnect, FALSE}
  /\ g.sdp = k
  /\ \/ g.handler = f.handler
     \/ g.handler = k /\ (Live(s, k) => Handshake \subseteq s.sock[k].got)
  /\ ph # "over" =>
       /\ g.control = f.control /\ g.interrupt = f.interrupt
       /\ k = 0 => s.seen[d] = h.seen[d]
       /\ Live(s, k) /\ h.seen[d] \subseteq h.sock[k].got => s.seen[d] \subseteq s.sock[k].got
  /\ \A c \in Cids : \/ s.sock[c] = NoSocket
                     \/ /\ h.sock[c] # NoSocket
                        /\ s.sock[c].dev = h.sock[c].dev /\ h.sock[c].got \subseteq s.sock[c].got
                     \/ c # k /\ (ph = "over" \/ s.sock[c].dev # d)
  /\ \A i \in 1..Len(s.tx) : \/ i \in 1..Len(h.tx) /\ s.tx[i] = h.tx[i]
                             \/ /\ MaySend(s.tx[i], d, ph, k)
                                /\ s.tx[i] # Create(d) /\ s.tx[i] # AskName(d)

Here(h, d, ph) == Good(h) /\ Asking(h, d, ph)
Spares(h, s, d, ph) == Good(s) /\ Asking(s, d, ph) /\ Apart(h, s, d, ph)

LEMMA ApartOn ==
  ASSUME NEW h, NEW s, NEW r, NEW d \in Dev, NEW ph, Apart(h, s, d, ph), Apart(s, r, d, ph)
  PROVE  Apart(h, r, d, ph)
<1> DEFINE k == h.hid[d].sdp
<1>1. s.hid[d].sdp = k /\ r.hid[d].sdp = k
  BY DEF Apart
<1>2. \A c \in Cids : \/ r.sock[c] = NoSocket
                      \/ /\ h.sock[c] # NoSocket
                         /\ r.sock[c].dev = h.sock[c].dev /\ h.sock[c].got \subseteq r.sock[c].got
                      \/ c # k /\ (ph = "over" \/ r.sock[c].dev # d)
  BY <1>1 DEF Apart
<1>3. \A i \in 1..Len(r.tx) : \/ i \in 1..Len(h.tx) /\ r.tx[i] = h.tx[i]
                              \/ /\ MaySend(r.tx[i], d, ph, k)
                                 /\ r.tx[i] # Create(d) /\ r.tx[i] # AskName(d)
  BY <1>1 DEF Apart
<1>4. Live(r, k) => /\ Live(s, k)
                    /\ s.sock[k].got \subseteq r.sock[k].got
  BY <1>1 DEF Apart, Live
<1>5. \/ r.hid[d].handler = h.hid[d].handler
      \/ r.hid[d].handler = k /\ (Live(r, k) => Handshake \subseteq r.sock[k].got)
  BY <1>1, <1>4 DEF Apart
<1>6. ph # "over" /\ Live(r, k) /\ h.seen[d] \subseteq h.sock[k].got => r.seen[d] \subseteq r.sock[k].got
  BY <1>1, <1>4 DEF Apart
<1>7. ph # "over" => /\ r.hid[d].control = h.hid[d].control /\ r.hid[d].interrupt = h.hid[d].interrupt
                     /\ k = 0 => r.seen[d] = h.seen[d]
  BY <1>1 DEF Apart
<1>8. /\ DOMAIN r.seen = Dev /\ r.held.t = "SIG" => h.held.t = "SIG"
      /\ r.handle[d] = h.handle[d] /\ r.hid[d].reconnect \in {h.hid[d].reconnect, FALSE}
  BY DEF Apart
<1>9. QED
  BY <1>1, <1>2, <1>3, <1>5, <1>6, <1>7, <1>8 DEF Apart

LEMMA ApartAsking ==
  ASSUME NEW h, NEW s, NEW d \in Dev, NEW ph, Asking(h, d, ph), Apart(h, s, d, ph)
  PROVE  Asking(s, d, ph)
<1> DEFINE k == h.hid[d].sdp
           x == s.hid[d].handler
<1>1. s.hid[d].sdp = k /\ s.handle[d] = h.handle[d] /\ DOMAIN s.seen = Dev
      /\ s.hid[d].reconnect = FALSE /\ s.held.t # "SIG"
  BY DEF Apart, Asking
<1>2. \A i \in 1..Len(s.tx) : MaySend(s.tx[i], d, ph, k)
  BY DEF Apart, Asking
<1>3. x \in {0, k}
  BY DEF Apart, Asking
<1>4. ASSUME Live(s, x) PROVE Handshake \subseteq s.sock[x].got
  <2>1. x = k
    BY <1>3, <1>4 DEF Live, Cids
  <2>2. Live(h, k) /\ h.sock[k].got \subseteq s.sock[k].got
    BY <1>4, <2>1 DEF Live, Apart
  <2>3. QED
    BY <1>4, <2>1, <2>2 DEF Apart, Asking
<1>5. ASSUME ph # "over"
      PROVE  /\ \A c \in Cids : s.sock[c].dev = d => c = k
             /\ Live(s, k) => s.seen[d] \subseteq s.sock[k].got
  <2>1. d # "none" /\ NoSocket.dev = "none"
    BY BtHostAssumption DEF NoSocket
  <2>2. \A c \in Cids : s.sock[c].dev = d => c = k
    BY <1>5, <2>1 DEF Apart, Asking
  <2>3. Live(s, k) => Live(h, k)
    BY DEF Live, Apart
  <2>4. QED
    BY <1>5, <2>2, <2>3 DEF Apart, Asking
<1>6. ph # "over" => /\ s.hid[d].control = 0 /\ s.hid[d].interrupt = 0
                     /\ k = 0 => s.seen[d] = {} /\ s.handle[d] \in {"none", "paging", d}
                     /\ k # 0 => s.handle[d] = d
  BY <1>1 DEF Apart, Asking
<1>7. ph = "over" => k = 0 /\ s.handle[d] = d
  BY <1>1 DEF Asking
<1>8. QED
  BY <1>1, <1>2, <1>3, <1>4, <1>5, <1>6, <1>7 DEF Asking

LEMMA ApartStage ==
  ASSUME NEW h, NEW s, NEW d \in Dev, NEW ph, NEW ow, NEW q,
         Stage(h, d, ph, ow, q), Apart(h, s, d, ph)
  PROVE  Stage(s, d, ph, ow, q)
<1>1. s.hid[d].sdp = h.hid[d].sdp /\ s.handle[d] = h.handle[d]
  BY DEF Apart
<1>2. ASSUME NEW a, a = Create(d) \/ a = AskName(d), NEW i \in 1..Len(s.tx), s.tx[i] = a
      PROVE  i \in 1..Len(h.tx) /\ h.tx[i] = a
  BY <1>2 DEF Apart
<1>3. ASSUME NEW a, a = Create(d) \/ a = AskName(d)
      PROVE  /\ Nowhere(h.tx, a) => Nowhere(s.tx, a)
             /\ Once(h.tx, a) => Once(s.tx, a)
  BY <1>2, <1>3 DEF Nowhere, Once
<1>4. ASSUME NEW a, a = Create(d) \/ a = AskName(d), NEW o, NEW b
      PROVE  /\ Unasked(h.tx, ow, q, a, o, b) => Unasked(s.tx, ow, q, a, o, b)
             /\ AskedOnce(h.tx, ow, q, a, o, b) => AskedOnce(s.tx, ow, q, a, o, b)
  BY <1>3, <1>4 DEF Unasked, AskedOnce
<1>5. QED
  BY <1>1, <1>4 DEF Stage

LEMMA SparesOn ==
  ASSUME NEW h, NEW s, NEW r, NEW d \in Dev, NEW ph, Spares(h, s, d, ph), Spares(s, r, d, ph)
  PROVE  Spares(h, r, d, ph)
  BY ApartOn DEF Spares

LEMMA ApartSpares ==
  ASSUME NEW h, NEW s, NEW d \in Dev, NEW ph, Here(h, d, ph), Good(s), Apart(h, s, d, ph)
  PROVE  Spares(h, s, d, ph)
  BY ApartAsking DEF Spares, Here

LEMMA SparesItself ==
  ASSUME NEW h, NEW d \in Dev, NEW ph, Here(h, d, ph)
  PROVE  Spares(h, h, d, ph)
<1>1. Apart(h, h, d, ph)
  BY DEF Apart, Here, Asking
<1>2. QED
  BY <1>1 DEF Spares, Here

LEMMA SparesHere ==
  ASSUME NEW h, NEW s, NEW d, NEW ph, Spares(h, s, d, ph)
  PROVE  Here(s, d, ph) /\ Good(s) /\ HostOK(s)
  BY DEF Spares, Here, Good


\* A step of the host that leaves all a query depends on.
LEMMA AsideSpares ==
  ASSUME NEW h, NEW s, NEW d \in Dev, NEW ph, Here(h, d, ph), Good(s),
         s.seen = h.seen, s.held = h.held, s.handle = h.handle, s.sock = h.sock, s.tx = h.tx,
         s.hid[d].sdp = h.hid[d].sdp, s.hid[d].handler = h.hid[d].handler,
         ph = "over" \/ (s.hid[d].control = h.hid[d].control /\ s.hid[d].interrupt = h.hid[d].interrupt),
         s.hid[d].reconnect \in {h.hid[d].reconnect, FALSE}
  PROVE  Spares(h, s, d, ph)
<1>1. Apart(h, s, d, ph)
  BY DEF Apart, Here, Asking, Live
<1>2. QED
  BY <1>1, ApartSpares

LEMMA WriteSpares ==
  ASSUME NEW h, NEW d \in Dev, NEW ph, Here(h, d, ph), NEW p \in Sent(KnownTo(h)),
         MaySend(p, d, ph, h.hid[d].sdp), p # Create(d), p # AskName(d)
  PROVE  Spares(h, Write(h, p), d, ph)
<1>1. CASE Len(h.tx) < TxSize
  <2> DEFINE s == [h EXCEPT !.tx = Append(@, p)]
  <2>1. HostOK(h) /\ h.tx \in Seq(Sent(KnownTo(h)))
    BY DEF Here, Good, HostOK
  <2>2. /\ s.tx = Append(h.tx, p) /\ s.seen = h.seen /\ s.held = h.held
        /\ s.handle = h.handle /\ s.sock = h.sock /\ s.hid = h.hid
    BY <2>1 DEF HostOK, HostFields
  <2>3. Write(h, p) = s
    BY <1>1 DEF Write
  <2> HIDE DEF s
  <2>4. Good(s)
    BY <2>1, <2>3, WriteWrites, WritesSteps DEF Here, Steps
  <2>5. \A i \in 1..Len(s.tx) : s.tx[i] = p \/ (i \in 1..Len(h.tx) /\ s.tx[i] = h.tx[i])
    BY <2>1, <2>2
  <2>6. \A i \in 1..Len(s.tx) : \/ i \in 1..Len(h.tx) /\ s.tx[i] = h.tx[i]
                                \/ /\ MaySend(s.tx[i], d, ph, h.hid[d].sdp)
                                   /\ s.tx[i] # Create(d) /\ s.tx[i] # AskName(d)
    BY <2>5
  <2>7. DOMAIN s.seen = Dev
    BY <2>2 DEF Here, Asking
  <2>8. Apart(h, s, d, ph)
    BY <2>2, <2>6, <2>7 DEF Apart
  <2>9. QED
    BY <2>3, <2>4, <2>8, ApartSpares
<1>2. CASE ~(Len(h.tx) < TxSize)
  BY <1>2, SparesItself DEF Write
<1>3. QED
  BY <1>1, <1>2

LEMMA CmdSpares ==
  ASSUME NEW h, NEW d \in Dev, NEW ph, Here(h, d, ph), NEW c \in HostCommands
  PROVE  Spares(h, Cmd(h, c), d, ph)
<1> DEFINE p == [t |-> "CMD", c |-> c, dev |-> "none"]
<1>1. p \in Sent(KnownTo(h)) /\ d # "none" /\ c # "ACCEPT"
  BY BtHostAssumption DEF Sent, HostCommands
<1>2. p.dev = "none" /\ Create(d).dev = d /\ AskName(d).dev = d
  BY DEF Create, AskName
<1>3. MaySend(p, d, ph, h.hid[d].sdp)
  BY <1>1 DEF MaySend
<1>4. Cmd(h, c) = Write(h, p)
  BY DEF Cmd
<1> HIDE DEF p
<1>5. QED
  BY <1>1, <1>2, <1>3, <1>4, WriteSpares

\* A command for another device, or for one whose query is over.
LEMMA CmdToSpares ==
  ASSUME NEW h, NEW d \in Dev, NEW ph, Here(h, d, ph), NEW e \in Dev, NEW c,
         c \in LinkCommands \/ (c = "CREATE" /\ e \in KnownTo(h)),
         e # d \/ (ph = "over" /\ c \notin {"CREATE", "NAME"})
  PROVE  Spares(h, CmdTo(h, c, e), d, ph)
<1> DEFINE p == [t |-> "CMD", c |-> c, dev |-> e]
<1>1. p \in Sent(KnownTo(h)) /\ c # "ACCEPT"
  BY DEF Sent, LinkCommands, PageCommands
<1>2. p.dev = e /\ p.c = c /\ p.t = "CMD"
  OBVIOUS
<1>3. /\ Create(d).dev = d /\ AskName(d).dev = d
      /\ Create(d).c = "CREATE" /\ AskName(d).c = "NAME"
  BY DEF Create, AskName
<1>4. CmdTo(h, c, e) = Write(h, p)
  BY DEF CmdTo
<1> HIDE DEF p
<1>5. MaySend(p, d, ph, h.hid[d].sdp) /\ p # Create(d) /\ p # AskName(d)
  BY <1>1, <1>2, <1>3 DEF MaySend
<1>6. QED
  BY <1>1, <1>4, <1>5, WriteSpares

\* A signal of another device, of one whose query is over, or of its SDP channel.
Mine(h, d, ph, e, c) == e # d \/ ph = "over" \/ (c = h.hid[d].sdp /\ c # 0)

LEMMA SignalSpares ==
  ASSUME NEW h, NEW d \in Dev, NEW ph, Here(h, d, ph), NEW e \in Dev, NEW code, NEW c \in Nat, NEW x,
         (code = "CONN_REQ" /\ x \in Psms) \/ (code \in Answers /\ x \in Nat),
         Mine(h, d, ph, e, c)
  PROVE  Spares(h, Signal(h, e, code, c, x), d, ph)
<1> DEFINE p == [t |-> "SIG", dev |-> e, handle |-> h.handle[e], code |-> code, scid |-> c, to |-> x]
<1>1. h.handle[e] \in Handles
  BY DEF Here, Good, HostOK
<1>2. p \in Sent(KnownTo(h))
  BY <1>1 DEF Sent
<1>3. p.t = "SIG" /\ p.dev = e /\ p.scid = c
  OBVIOUS
<1>4. Create(d).t = "CMD" /\ AskName(d).t = "CMD"
  BY DEF Create, AskName
<1>5. Signal(h, e, code, c, x) = Write(h, p)
  BY DEF Signal
<1> HIDE DEF p
<1>6. MaySend(p, d, ph, h.hid[d].sdp) /\ p # Create(d) /\ p # AskName(d)
  BY <1>3, <1>4 DEF MaySend, Mine
<1>7. QED
  BY <1>2, <1>5, <1>6, WriteSpares

LEMMA SendSpares ==
  ASSUME NEW h, NEW d \in Dev, NEW ph, Here(h, d, ph), NEW c, NEW what \in Requests
  PROVE  Spares(h, Send(h, c, what), d, ph)
<1>1. CASE Live(h, c)
  <2> DEFINE e == h.sock[c].dev
             p == [t |-> "DATA", dev |-> e, handle |-> h.handle[e], scid |-> c, what |-> what]
  <2>1. e \in Dev /\ c \in Nat /\ h.handle[e] \in Handles
    BY <1>1, LiveSocket DEF Here, Good, HostOK
  <2>2. p \in Sent(KnownTo(h))
    BY <2>1 DEF Sent
  <2>3. p.t = "DATA" /\ Create(d).t = "CMD" /\ AskName(d).t = "CMD"
    BY DEF Create, AskName
  <2>4. Send(h, c, what) = Write(h, p)
    BY <1>1 DEF Send
  <2> HIDE DEF p
  <2>5. MaySend(p, d, ph, h.hid[d].sdp) /\ p # Create(d) /\ p # AskName(d)
    BY <2>3 DEF MaySend
  <2>6. QED
    BY <2>2, <2>4, <2>5, WriteSpares
<1>2. CASE ~Live(h, c)
  BY <1>2, SparesItself DEF Send
<1>3. QED
  BY <1>1, <1>2

\* Only channel c is another, of the same device, and it has heard as much.
LEMMA SockSpares ==
  ASSUME NEW h, NEW s, NEW d \in Dev, NEW ph, Here(h, d, ph), Good(s), NEW c,
         s.seen = h.seen, SockOnly(h, s, c),
         c \in Cids => \/ s.sock[c] = NoSocket
                       \/ /\ h.sock[c] # NoSocket
                          /\ s.sock[c].dev = h.sock[c].dev /\ h.sock[c].got \subseteq s.sock[c].got
  PROVE  Spares(h, s, d, ph)
<1> DEFINE k == h.hid[d].sdp
<1>1. /\ s.held = h.held /\ s.handle = h.handle /\ s.tx = h.tx /\ s.hid = h.hid
      /\ \A e \in Cids : e # c => s.sock[e] = h.sock[e]
  BY DEF SockOnly
<1>2. \A e \in Cids : \/ s.sock[e] = NoSocket
                      \/ /\ h.sock[e] # NoSocket
                         /\ s.sock[e].dev = h.sock[e].dev /\ h.sock[e].got \subseteq s.sock[e].got
  BY <1>1
<1>3. Live(s, k) => h.sock[k].got \subseteq s.sock[k].got
  BY <1>2 DEF Live
<1>4. Apart(h, s, d, ph)
  BY <1>1, <1>2, <1>3 DEF Apart, Here, Asking
<1>5. QED
  BY <1>4, ApartSpares

\* Its state, the id at the other end, and its queue say nothing of what it heard.
LEMMA StSpares ==
  ASSUME NEW h, NEW d \in Dev, NEW ph, Here(h, d, ph), NEW c, NEW v
  PROVE  Spares(h, [h EXCEPT !.sock[c].st = v], d, ph)
<1> DEFINE s == [h EXCEPT !.sock[c].st = v]
<1>1. HostOK(h)
  BY DEF Here, Good
<1>2. Good(s)
  BY <1>1, StEdits, EditsSteps DEF Steps, Here
<1>3. SockOnly(h, s, c) /\ s.seen = h.seen
  BY <1>1 DEF SockOnly, HostOK, HostFields
<1>4. ASSUME c \in Cids
      PROVE  \/ h.sock[c] = NoSocket /\ s.sock[c] = NoSocket
             \/ /\ h.sock[c] # NoSocket
                /\ s.sock[c].dev = h.sock[c].dev /\ h.sock[c].got \subseteq s.sock[c].got
  <2>1. s.sock[c] = [h.sock[c] EXCEPT !.st = v] /\ SockOK(h.sock[c])
    BY <1>1, <1>4 DEF HostOK, HostFields
  <2> HIDE DEF s
  <2>2. QED
    BY <2>1, NoField DEF SockOK, SockFields
<1> HIDE DEF s
<1>5. Spares(h, s, d, ph)
  BY <1>2, <1>3, <1>4, SockSpares
<1>6. QED
  BY <1>5 DEF s

LEMMA DcidSpares ==
  ASSUME NEW h, NEW d \in Dev, NEW ph, Here(h, d, ph), NEW c, NEW v \in Nat
  PROVE  Spares(h, [h EXCEPT !.sock[c].dcid = v], d, ph)
<1> DEFINE s == [h EXCEPT !.sock[c].dcid = v]
<1>1. HostOK(h)
  BY DEF Here, Good
<1>2. Good(s)
  BY <1>1, DcidEdits, EditsSteps DEF Steps, Here
<1>3. SockOnly(h, s, c) /\ s.seen = h.seen
  BY <1>1 DEF SockOnly, HostOK, HostFields
<1>4. ASSUME c \in Cids
      PROVE  \/ h.sock[c] = NoSocket /\ s.sock[c] = NoSocket
             \/ /\ h.sock[c] # NoSocket
                /\ s.sock[c].dev = h.sock[c].dev /\ h.sock[c].got \subseteq s.sock[c].got
  <2>1. s.sock[c] = [h.sock[c] EXCEPT !.dcid = v] /\ SockOK(h.sock[c])
    BY <1>1, <1>4 DEF HostOK, HostFields
  <2> HIDE DEF s
  <2>2. QED
    BY <2>1, NoField DEF SockOK, SockFields
<1> HIDE DEF s
<1>5. Spares(h, s, d, ph)
  BY <1>2, <1>3, <1>4, SockSpares
<1>6. QED
  BY <1>5 DEF s

LEMMA QueueSpares ==
  ASSUME NEW h, NEW d \in Dev, NEW ph, Here(h, d, ph), NEW c, NEW v \in Seq(Replied)
  PROVE  Spares(h, [h EXCEPT !.sock[c].q = v], d, ph)
<1> DEFINE s == [h EXCEPT !.sock[c].q = v]
<1>1. HostOK(h)
  BY DEF Here, Good
<1>2. Good(s)
  BY <1>1, QueueEdits, EditsSteps DEF Steps, Here
<1>3. SockOnly(h, s, c) /\ s.seen = h.seen
  BY <1>1 DEF SockOnly, HostOK, HostFields
<1>4. ASSUME c \in Cids
      PROVE  \/ h.sock[c] = NoSocket /\ s.sock[c] = NoSocket
             \/ /\ h.sock[c] # NoSocket
                /\ s.sock[c].dev = h.sock[c].dev /\ h.sock[c].got \subseteq s.sock[c].got
  <2>1. s.sock[c] = [h.sock[c] EXCEPT !.q = v] /\ SockOK(h.sock[c])
    BY <1>1, <1>4 DEF HostOK, HostFields
  <2> HIDE DEF s
  <2>2. QED
    BY <2>1, NoField DEF SockOK, SockFields
<1> HIDE DEF s
<1>5. Spares(h, s, d, ph)
  BY <1>2, <1>3, <1>4, SockSpares
<1>6. QED
  BY <1>5 DEF s


LEMMA SetStateSpares ==
  ASSUME NEW h, NEW d \in Dev, NEW ph, Here(h, d, ph), NEW c, NEW st, st # "OPEN"
  PROVE  Spares(h, SetState(h, c, st), d, ph)
<1>1. SetState(h, c, st) = [h EXCEPT !.sock[c].st = st]
  BY DEF SetState
<1>2. Spares(h, [h EXCEPT !.sock[c].st = st], d, ph)
  BY StSpares
<1>3. QED
  BY <1>1, <1>2

\* The query goes out on a channel that both ends have configured.
\* The handler becomes the SDP channel that a device keeps.
LEMMA HandlerKept ==
  ASSUME NEW h, Good(h), NEW d \in Dev, NEW c, c = h.hid[d].sdp
  PROVE  Steps(h, [h EXCEPT !.hid[d].handler = c])
<1> DEFINE s == [h EXCEPT !.hid[d].handler = c]
<1>1. HidOnly(h, s, d)
  BY DEF HidOnly, Good, HostOK, HostFields, HidOK, HidFields
<1>2. /\ s.hid[d].sdp = h.hid[d].sdp /\ s.hid[d].handler = c
      /\ s.hid[d].control = h.hid[d].control /\ s.hid[d].interrupt = h.hid[d].interrupt
  BY DEF Good, HostOK, HostFields, HidOK, HidFields
<1>3. HidRight(h, d, h.hid[d])
  BY HidIsRight
<1> HIDE DEF s
<1>4. HidRight(h, d, s.hid[d])
  BY <1>1, <1>2, <1>3 DEF HidRight, HidOK, HidOnly
<1>5. Steps(h, s)
  BY <1>1, <1>4, HidOnlySteps
<1>6. QED
  BY <1>5 DEF s

LEMMA OpenSpares ==
  ASSUME NEW h, NEW d \in Dev, NEW ph, Here(h, d, ph), NEW c, Live(h, c),
         c = h.hid[d].sdp => Handshake \subseteq h.sock[c].got
  PROVE  Spares(h, SetState(h, c, "OPEN"), d, ph)
<1> DEFINE e == h.sock[c].dev
           s == [h EXCEPT !.sock[c].st = "OPEN"]
           r == [s EXCEPT !.hid[e].handler = c]
<1>1. HostOK(h) /\ Good(h) /\ e \in Dev /\ c \in Cids
  BY LiveSocket DEF Here, Good
<1>2. Spares(h, s, d, ph)
  BY StSpares
<1>3. CASE c = h.hid[e].sdp
  <2>1. /\ s.hid = h.hid /\ Edits(h, s)
    BY <1>1, StEdits DEF HostOK, HostFields
  <2>2. /\ s.sock[c].dev = e /\ Live(s, c)
        /\ h.sock[c].got \subseteq s.sock[c].got
    <3>1. s.sock[c] = [h.sock[c] EXCEPT !.st = "OPEN"] /\ SockOK(h.sock[c]) /\ h.sock[c] # NoSocket
      BY <1>1 DEF HostOK, HostFields, Live
    <3>2. s.sock[c].dev = h.sock[c].dev /\ s.sock[c].got = h.sock[c].got
      BY <3>1 DEF SockOK, SockFields
    <3> HIDE DEF s
    <3>3. QED
      BY <2>1, <3>2, EditsLive
  <2> HIDE DEF s, e
  <2>3. Here(s, d, ph) /\ HostOK(s) /\ Good(s)
    BY <1>2, SparesHere
  <2>4. Steps(s, r)
    BY <1>1, <1>3, <2>1, <2>2, <2>3, HandlerKept
  <2>5. /\ r.seen = s.seen /\ r.held = s.held /\ r.handle = s.handle /\ r.sock = s.sock /\ r.tx = s.tx
        /\ \A x \in Dev : x # e => r.hid[x] = s.hid[x]
        /\ r.hid[e].sdp = s.hid[e].sdp /\ r.hid[e].handler = c
        /\ r.hid[e].control = s.hid[e].control /\ r.hid[e].interrupt = s.hid[e].interrupt
        /\ r.hid[e].reconnect = s.hid[e].reconnect
    BY <1>1, <2>3 DEF HostOK, HostFields, HidOK, HidFields
  <2> HIDE DEF r
  <2>6. Spares(s, r, d, ph)
    <3>1. CASE e # d
      BY <2>3, <2>4, <2>5, <3>1, AsideSpares DEF Steps
    <3>2. CASE e = d
      <4>1. c = s.hid[d].sdp /\ Handshake \subseteq s.sock[c].got
        BY <1>3, <2>1, <2>2, <3>2
      <4>2. Apart(s, r, d, ph)
        BY <2>3, <2>5, <3>2, <4>1 DEF Apart, Here, Asking
      <4>3. QED
        BY <2>3, <2>4, <4>2, ApartSpares DEF Steps
    <3>3. QED
      BY <3>1, <3>2
  <2>7. Here(r, d, ph)
    BY <2>6, SparesHere
  <2>8. Spares(r, Send(r, c, "query"), d, ph)
    BY <2>7, SendSpares DEF Requests
  <2>9. SetState(h, c, "OPEN") = Send(r, c, "query")
    BY <1>3 DEF SetState, r, s, e
  <2>10. QED
    BY <1>2, <2>6, <2>8, <2>9, SparesOn
<1>4. CASE c # h.hid[e].sdp
  BY <1>2, <1>4 DEF SetState
<1>5. QED
  BY <1>3, <1>4

LEMMA CheckOpenSpares ==
  ASSUME NEW h, NEW d \in Dev, NEW ph, Here(h, d, ph), NEW c
  PROVE  Spares(h, CheckOpen(h, c), d, ph)
<1> DEFINE e == h.sock[c].dev
<1>1. CASE Live(h, c) /\ "CONN_REQ" \notin h.seen[e] /\ OpenMask \subseteq h.seen[e]
  <2>1. CheckOpen(h, c) = SetState(h, c, "OPEN")
    BY <1>1 DEF CheckOpen
  <2>2. ASSUME c = h.hid[d].sdp PROVE Handshake \subseteq h.sock[c].got
    <3>1. e = d /\ c # 0
      <4>1. Own(h, c, d, "sdp")
        BY <2>2 DEF Here, Good, OwnIds
      <4>2. QED
        BY <1>1, <4>1 DEF Own, Live, Cids
    <3>2. h.seen[d] \subseteq h.sock[c].got
      BY <1>1, <2>2, <3>1 DEF Here, Asking
    <3>3. QED
      BY <1>1, <3>1, <3>2 DEF OpenMask
  <2>3. QED
    BY <1>1, <2>1, <2>2, OpenSpares
<1>2. CASE ~(Live(h, c) /\ "CONN_REQ" \notin h.seen[e] /\ OpenMask \subseteq h.seen[e])
  BY <1>2, SparesItself DEF CheckOpen
<1>3. QED
  BY <1>1, <1>2

LEMMA L2OpenSpares ==
  ASSUME NEW h, NEW d \in Dev, NEW ph, Here(h, d, ph), NEW e \in Dev, NEW psm \in Psms, NEW listen,
         e # d \/ ph = "over"
  PROVE  Spares(h, L2Open(h, e, psm, listen), d, ph)
<1> DEFINE c == FreshCid(h)
           s == NewChannel(h, e, psm)
           r == Signal(s, e, "CONN_REQ", c, psm)
<1>1. /\ Steps(h, s) /\ s.seen = h.seen /\ s.held = h.held /\ s.tx = h.tx /\ s.hid = h.hid
      /\ \A x \in Cids : x # c => s.sock[x] = h.sock[x]
      /\ c \in Cids => s.sock[c].dev = e
      /\ c \in Nat
  <2>1. Good(h) /\ c = h.cid /\ h.cid \in Nat
    BY DEF Here, FreshCid, Good, HostOK
  <2> HIDE DEF c, s
  <2>2. /\ Steps(h, s) /\ s.seen = h.seen /\ s.held = h.held /\ s.tx = h.tx /\ s.hid = h.hid
        /\ \A x \in Cids : s.sock[x] = IF x = h.cid THEN [dev |-> e, psm |-> psm, st |-> "NONE",
                                        dcid |-> 0, q |-> <<>>, got |-> {}] ELSE h.sock[x]
    BY <2>1, ChannelAdded DEF s
  <2>3. QED
    BY <2>1, <2>2
<1>2. h.hid[d].sdp # c /\ h.hid[d].handler # c
  BY DEF Here, Good, HostOK, HidOK, FreshCid
<1>3. L2Open(h, e, psm, listen) = IF listen THEN SetState(s, c, "LISTENING") ELSE SetState(r, c, "OPENING")
  BY DEF L2Open, NewChannel
<1> HIDE DEF s, c
<1>4. Apart(h, s, d, ph)
  BY <1>1, <1>2 DEF Apart, Here, Asking, Steps, Live
<1>5. Spares(h, s, d, ph)
  BY <1>1, <1>4, ApartSpares DEF Steps
<1>6. Here(s, d, ph)
  BY <1>5, SparesHere
<1>7. Mine(s, d, ph, e, c)
  BY DEF Mine
<1>8. Spares(s, r, d, ph)
  BY <1>1, <1>6, <1>7, SignalSpares
<1> HIDE DEF r
<1>9. Here(r, d, ph)
  BY <1>8, SparesHere
<1>10. Spares(s, SetState(s, c, "LISTENING"), d, ph) /\ Spares(r, SetState(r, c, "OPENING"), d, ph)
  BY <1>6, <1>9, SetStateSpares
<1>11. Spares(h, SetState(s, c, "LISTENING"), d, ph) /\ Spares(h, SetState(r, c, "OPENING"), d, ph)
  BY <1>5, <1>8, <1>10, SparesOn
<1>12. QED
  BY <1>3, <1>11

LEMMA L2CloseSpares ==
  ASSUME NEW h, NEW d \in Dev, NEW ph, Here(h, d, ph), NEW c, NEW thisEnd
  PROVE  Spares(h, L2Close(h, c, thisEnd), d, ph)
<1>1. CASE ~Live(h, c)
  BY <1>1, SparesItself DEF L2Close
<1>2. CASE Live(h, c)
  <2> DEFINE x == h.sock[c].dev
             t == Signal(h, x, "DISCONN_REQ", c, h.sock[c].dcid)
             s == IF thisEnd /\ h.sock[c].st = "OPEN" THEN t ELSE h
             r == [s EXCEPT !.sock[c] = NoSocket]
  <2>1. x \in Dev /\ c \in Nat /\ c \in Cids /\ c # 0 /\ h.sock[c].dcid \in Nat /\ "DISCONN_REQ" \in Answers
    BY <1>2, LiveSocket DEF Answers, Here, Good, Live, Cids
  <2>2. Mine(h, d, ph, x, c)
    BY <2>1 DEF Here, Asking, Mine
  <2>3. Spares(h, t, d, ph)
    BY <2>1, <2>2, SignalSpares
  <2>4. Spares(h, h, d, ph)
    BY SparesItself
  <2> HIDE DEF t
  <2>5. Spares(h, s, d, ph)
    BY <2>3, <2>4
  <2>6. L2Close(h, c, thisEnd) = r
    BY <1>2 DEF L2Close, t
  <2>7. Good(r)
    BY <2>6, L2CloseSteps DEF Here, Steps
  <2> HIDE DEF s
  <2>8. Here(s, d, ph) /\ HostOK(s)
    BY <2>5, SparesHere
  <2>9. SockOnly(s, r, c) /\ r.seen = s.seen /\ r.sock[c] = NoSocket
    BY <2>1, <2>8 DEF SockOnly, HostOK, HostFields
  <2> HIDE DEF r
  <2>10. Spares(s, r, d, ph)
    BY <2>7, <2>8, <2>9, SockSpares
  <2>11. QED
    BY <2>5, <2>6, <2>10, SparesOn
<1>3. QED
  BY <1>1, <1>2


LEMMA MineOn ==
  ASSUME NEW h, NEW s, NEW d \in Dev, NEW ph, NEW e, NEW c, Mine(h, d, ph, e, c), Spares(h, s, d, ph)
  PROVE  Mine(s, d, ph, e, c)
  BY DEF Mine, Spares, Apart

\* A signal has come: it is remembered for its device, and for its channel.
LEMMA HeardSpares ==
  ASSUME NEW h, NEW d \in Dev, NEW ph, Here(h, d, ph), NEW e \in Dev, NEW c, NEW code,
         Mine(h, d, ph, e, c)
  PROVE  Spares(h, Got([h EXCEPT !.seen[e] = @ \cup {code}], c, code), d, ph)
<1> DEFINE q == [h EXCEPT !.seen[e] = @ \cup {code}]
           s == Got(q, c, code)
           k == h.hid[d].sdp
<1>1. HostOK(h) /\ Good(h) /\ h.held \in Said \union {NoPacket} /\ DOMAIN h.seen = Dev
  BY DEF Here, Good, HostOK, Asking
<1>2. /\ DOMAIN q = HostFields /\ q.handle = h.handle /\ q.sock = h.sock /\ q.cid = h.cid
      /\ q.tx = h.tx /\ q.known = h.known /\ q.slot = h.slot /\ q.hid = h.hid /\ q.held = h.held
      /\ q.seen = [h.seen EXCEPT ![e] = @ \cup {code}]
  BY <1>1 DEF HostOK, HostFields
<1>3. Steps(h, q)
  BY <1>1, <1>2, AsideSteps
<1> HIDE DEF q
<1>4. Good(q) /\ HostOK(q)
  BY <1>3 DEF Steps, Good
<1>5. Good(s)
  BY <1>4, GotKeeps, EditsSteps DEF Steps
<1>6. /\ s.handle = h.handle /\ s.tx = h.tx /\ s.hid = h.hid /\ s.held = h.held /\ s.seen = q.seen
  BY <1>2, <1>4 DEF Got, HostOK, HostFields
<1>7. ASSUME NEW x \in Cids
      PROVE  \/ h.sock[x] = NoSocket /\ s.sock[x] = NoSocket
             \/ /\ h.sock[x] # NoSocket
                /\ s.sock[x].dev = h.sock[x].dev /\ h.sock[x].got \subseteq s.sock[x].got
                /\ x = c => code \in s.sock[x].got
  <2>1. CASE x = c /\ Live(q, c)
    <3>1. s.sock[x] = [q.sock[c] EXCEPT !.got = @ \cup {code}]
      BY <1>2, <1>4, <1>7, <2>1 DEF Got, HostOK, HostFields
    <3>2. DOMAIN q.sock[c] = SockFields
      BY <1>4, <2>1, LiveSocket
    <3>3. s.sock[x].dev = q.sock[c].dev /\ s.sock[x].got = q.sock[c].got \cup {code}
      BY <3>1, <3>2 DEF SockFields
    <3>4. QED
      BY <1>2, <2>1, <3>3 DEF Live
  <2>2. CASE ~(x = c /\ Live(q, c))
    <3>1. s.sock[x] = q.sock[x]
      BY <1>2, <1>4, <1>7, <2>2 DEF Got, HostOK, HostFields
    <3>2. QED
      BY <1>2, <1>7, <2>2, <3>1 DEF Live
  <2>3. QED
    BY <2>1, <2>2
<1> HIDE DEF s
<1>8. e # d => s.seen[d] = h.seen[d]
  BY <1>1, <1>2, <1>6
<1>9. s.seen[d] \subseteq h.seen[d] \cup {code} /\ DOMAIN s.seen = Dev
  BY <1>1, <1>2, <1>6
<1>10. \A x \in Cids : \/ s.sock[x] = NoSocket
                       \/ /\ h.sock[x] # NoSocket
                          /\ s.sock[x].dev = h.sock[x].dev /\ h.sock[x].got \subseteq s.sock[x].got
  BY <1>7
<1>11. ASSUME ph # "over", Live(s, k), h.seen[d] \subseteq h.sock[k].got
       PROVE  s.seen[d] \subseteq s.sock[k].got
  <2>1. h.sock[k].got \subseteq s.sock[k].got /\ (k = c => code \in s.sock[k].got)
    BY <1>7, <1>11 DEF Live
  <2>2. CASE e # d
    BY <1>8, <1>11, <2>1, <2>2
  <2>3. CASE e = d
    BY <1>9, <1>11, <2>1, <2>3 DEF Mine
  <2>4. QED
    BY <2>2, <2>3
<1>12. ph # "over" /\ k = 0 => s.seen[d] = h.seen[d]
  BY <1>8 DEF Mine
<1>13. Apart(h, s, d, ph)
  BY <1>6, <1>9, <1>10, <1>11, <1>12 DEF Apart
<1>14. Spares(h, s, d, ph)
  BY <1>5, <1>13, ApartSpares
<1>15. QED
  BY <1>14 DEF s, q

LEMMA ConnRspSpares ==
  ASSUME NEW h, NEW d \in Dev, NEW ph, Here(h, d, ph), NEW e \in Dev, NEW p \in Said,
         p.t = "SIG", p.code = "CONN_RSP", Mine(h, d, ph, e, p.scid)
  PROVE  Spares(h, ConnRsp(h, e, p), d, ph)
<1>1. p.scid \in Nat /\ p.dcid \in Nat
  BY SaidFields
<1>2. CASE ~Live(h, p.scid) \/ p.status = "pending"
  BY <1>2, SparesItself DEF ConnRsp
<1>3. CASE Live(h, p.scid) /\ p.status # "pending" /\ p.status = "ok"
  <2> DEFINE s == [h EXCEPT !.sock[p.scid].dcid = p.dcid]
             r == Signal(s, e, "CONF_REQ", p.scid, p.dcid)
  <2>1. Spares(h, s, d, ph)
    BY <1>1, DcidSpares
  <2>2. ConnRsp(h, e, p) = r
    BY <1>3 DEF ConnRsp
  <2> HIDE DEF s
  <2>3. Here(s, d, ph) /\ Mine(s, d, ph, e, p.scid) /\ "CONF_REQ" \in Answers
    BY <2>1, SparesHere, MineOn DEF Answers
  <2>4. Spares(s, r, d, ph)
    BY <1>1, <2>3, SignalSpares
  <2>5. QED
    BY <2>1, <2>2, <2>4, SparesOn
<1>4. CASE Live(h, p.scid) /\ p.status # "pending" /\ p.status # "ok"
  <2>1. ConnRsp(h, e, p) = SetState(h, p.scid, "CLOSED")
    BY <1>4 DEF ConnRsp
  <2>2. QED
    BY <2>1, SetStateSpares
<1>5. QED
  BY <1>2, <1>3, <1>4

LEMMA ControlSpares ==
  ASSUME NEW h, NEW d \in Dev, NEW ph, Here(h, d, ph), NEW e \in Dev, NEW p \in Said,
         p.t = "SIG", p.code # "CONN_REQ", Mine(h, d, ph, e, p.scid)
  PROVE  Spares(h, Control(h, e, p), d, ph)
<1> DEFINE s == Got([h EXCEPT !.seen[e] = @ \cup {p.code}], p.scid, p.code)
<1>1. p.scid \in Nat /\ p.code \in Answers
  BY SaidFields
<1>2. Spares(h, s, d, ph)
  BY HeardSpares
<1>3. /\ p.code = "CONN_RSP" => Control(h, e, p) = ConnRsp(s, e, p)
      /\ p.code = "CONF_RSP" => Control(h, e, p) = CheckOpen(s, p.scid)
      /\ p.code = "CONF_REQ" =>
           Control(h, e, p) = IF Live(s, p.scid)
             THEN CheckOpen(Signal(s, e, "CONF_RSP", p.scid, s.sock[p.scid].dcid), p.scid) ELSE s
      /\ p.code = "DISCONN_REQ" =>
           Control(h, e, p) = Signal(L2Close(s, p.scid, FALSE), e, "DISCONN_RSP", p.scid, 0)
      /\ p.code = "DISCONN_RSP" => Control(h, e, p) = L2Close(s, p.scid, TRUE)
  BY DEF Control
<1> HIDE DEF s
<1>4. Here(s, d, ph) /\ HostOK(s) /\ Mine(s, d, ph, e, p.scid)
  BY <1>2, SparesHere, MineOn
<1>5. \A r : Spares(s, r, d, ph) => Spares(h, r, d, ph)
  BY <1>2, SparesOn
<1>6. CASE p.code = "CONN_RSP"
  BY <1>3, <1>4, <1>5, <1>6, ConnRspSpares
<1>7. CASE p.code = "CONF_RSP"
  BY <1>3, <1>4, <1>5, <1>7, CheckOpenSpares
<1>8. CASE p.code = "CONF_REQ"
  <2> DEFINE x == s.sock[p.scid].dcid
             r == Signal(s, e, "CONF_RSP", p.scid, x)
  <2>1. CASE Live(s, p.scid)
    <3>1. x \in Nat /\ "CONF_RSP" \in Answers
      BY <1>4, <2>1, LiveSocket DEF Answers
    <3>2. Control(h, e, p) = CheckOpen(r, p.scid)
      BY <1>3, <1>8, <2>1
    <3> HIDE DEF x
    <3>3. Spares(s, r, d, ph)
      BY <1>1, <1>4, <3>1, SignalSpares
    <3> HIDE DEF r
    <3>4. Spares(r, CheckOpen(r, p.scid), d, ph)
      BY <3>3, SparesHere, CheckOpenSpares
    <3>5. QED
      BY <1>5, <3>2, <3>3, <3>4, SparesOn
  <2>2. CASE ~Live(s, p.scid)
    BY <1>2, <1>3, <1>8, <2>2
  <2>3. QED
    BY <2>1, <2>2
<1>9. CASE p.code = "DISCONN_REQ"
  <2> DEFINE r == L2Close(s, p.scid, FALSE)
  <2>1. Spares(s, r, d, ph)
    BY <1>4, L2CloseSpares
  <2>2. Control(h, e, p) = Signal(r, e, "DISCONN_RSP", p.scid, 0)
    BY <1>3, <1>9
  <2> HIDE DEF r
  <2>3. Here(r, d, ph) /\ Mine(r, d, ph, e, p.scid) /\ "DISCONN_RSP" \in Answers
    BY <1>4, <2>1, SparesHere, MineOn DEF Answers
  <2>4. Spares(r, Signal(r, e, "DISCONN_RSP", p.scid, 0), d, ph)
    BY <1>1, <2>3, SignalSpares
  <2>5. QED
    BY <1>5, <2>1, <2>2, <2>4, SparesOn
<1>10. CASE p.code = "DISCONN_RSP"
  BY <1>3, <1>4, <1>5, <1>10, L2CloseSpares
<1>11. QED
  BY <1>1, <1>6, <1>7, <1>8, <1>9, <1>10 DEF Answers

LEMMA DataSpares ==
  ASSUME NEW h, NEW d \in Dev, NEW ph, Here(h, d, ph), NEW e \in Dev, NEW p \in Said,
         p.t = "SIG" => p.code # "CONN_REQ" /\ Mine(h, d, ph, e, p.scid)
  PROVE  Spares(h, Data(h, e, p), d, ph)
<1>1. CASE p.t = "SIG"
  BY <1>1, ControlSpares DEF Data
<1>2. CASE p.t # "SIG"
  <2>1. p.what \in Replied
    BY <1>2, SaidFields
  <2>2. CASE Live(h, p.scid) /\ Len(h.sock[p.scid].q) < SockSize
    <3> DEFINE v == Append(h.sock[p.scid].q, p.what)
    <3>1. Data(h, e, p) = [h EXCEPT !.sock[p.scid].q = v]
      BY <1>2, <2>2 DEF Data
    <3>2. v \in Seq(Replied)
      BY <2>1, <2>2, LiveSocket DEF Here, Good
    <3> HIDE DEF v
    <3>3. Spares(h, [h EXCEPT !.sock[p.scid].q = v], d, ph)
      BY <3>2, QueueSpares
    <3>4. QED
      BY <3>1, <3>3
  <2>3. CASE ~(Live(h, p.scid) /\ Len(h.sock[p.scid].q) < SockSize)
    BY <1>2, <2>3, SparesItself DEF Data
  <2>4. QED
    BY <2>2, <2>3
<1>3. QED
  BY <1>1, <1>2

\* Only data is held for a device that is not connected.
LEMMA HeldSpares ==
  ASSUME NEW h, NEW d \in Dev, NEW ph, Here(h, d, ph), NEW p \in Said \union {NoPacket}, p.t # "SIG"
  PROVE  Spares(h, [h EXCEPT !.held = p], d, ph)
<1> DEFINE q == [h EXCEPT !.held = p]
<1>1. /\ q.seen = h.seen /\ q.handle = h.handle /\ q.sock = h.sock /\ q.tx = h.tx
      /\ q.hid = h.hid /\ q.held = p
  BY DEF Here, Good, HostOK, HostFields
<1>2. Good(q)
  BY HeldSteps DEF Here, Steps
<1> HIDE DEF q
<1>3. Apart(h, q, d, ph)
  BY <1>1 DEF Apart, Here, Asking, Live
<1>4. Spares(h, q, d, ph)
  BY <1>2, <1>3, ApartSpares
<1>5. QED
  BY <1>4 DEF q

\* A packet that has come.
LEMMA AclSpares ==
  ASSUME NEW h, NEW d \in Dev, NEW ph, Here(h, d, ph), NEW p \in Said,
         p.t = "SIG" => p.code # "CONN_REQ" /\ Mine(h, d, ph, p.dev, p.scid) /\ Connected(h, p.dev)
  PROVE  Spares(h, Acl(h, p), d, ph)
<1>1. p.dev \in Dev
  BY SaidFields
<1>2. QED
  BY <1>1, DataSpares, HeldSpares DEF Acl

LEMMA DongleBugSpares ==
  ASSUME NEW h, NEW d \in Dev, NEW ph, Here(h, d, ph)
  PROVE  Spares(h, DongleBug(h), d, ph)
<1>1. CASE h.held = NoPacket
  BY <1>1, SparesItself DEF DongleBug
<1>2. CASE h.held # NoPacket
  <2> DEFINE s == Acl(h, h.held)
  <2>1. h.held \in Said /\ h.held.t # "SIG"
    BY <1>2 DEF Here, Good, HostOK, Asking
  <2>2. Spares(h, s, d, ph)
    BY <2>1, AclSpares
  <2>3. DongleBug(h) = [s EXCEPT !.held = NoPacket]
    BY <1>2 DEF DongleBug
  <2> HIDE DEF s
  <2>4. NoPacket.t # "SIG"
    BY DEF NoPacket
  <2>5. Spares(s, [s EXCEPT !.held = NoPacket], d, ph)
    BY <2>2, <2>4, SparesHere, HeldSpares
  <2>6. QED
    BY <2>2, <2>3, <2>5, SparesOn
<1>3. QED
  BY <1>1, <1>2
-----------------------------------------------------------------------------
(* Devices, and the query of another *)

\* What a device keeps is another's, or says nothing of the query.
Beside(h, s, d, ph, e) ==
  /\ DOMAIN s.hid = Dev /\ \A x \in Dev : x # e => s.hid[x] = h.hid[x]
  /\ s.seen = h.seen /\ s.held = h.held /\ s.handle = h.handle /\ s.sock = h.sock /\ s.tx = h.tx
  /\ e = d => /\ s.hid[d].sdp = h.hid[d].sdp /\ s.hid[d].handler = h.hid[d].handler
              /\ s.hid[d].reconnect \in {h.hid[d].reconnect, FALSE}
              /\ \/ ph = "over"
                 \/ s.hid[d].control = h.hid[d].control /\ s.hid[d].interrupt = h.hid[d].interrupt

LEMMA BesideSpares ==
  ASSUME NEW h, NEW s, NEW d \in Dev, NEW ph, Here(h, d, ph), Good(s), NEW e \in Dev,
         Beside(h, s, d, ph, e)
  PROVE  Spares(h, s, d, ph)
<1>1. /\ s.seen = h.seen /\ s.held = h.held /\ s.handle = h.handle /\ s.sock = h.sock /\ s.tx = h.tx
      /\ s.hid[d].sdp = h.hid[d].sdp /\ s.hid[d].handler = h.hid[d].handler
      /\ s.hid[d].reconnect \in {h.hid[d].reconnect, FALSE}
      /\ \/ ph = "over"
         \/ s.hid[d].control = h.hid[d].control /\ s.hid[d].interrupt = h.hid[d].interrupt
  BY DEF Beside
<1>2. QED
  BY <1>1, AsideSpares

\* The fields of a device that may be assigned to.
LEMMA FieldsBeside ==
  ASSUME NEW h, HostOK(h), NEW d \in Dev, NEW ph, NEW e \in Dev, NEW v
  PROVE  /\ Beside(h, [h EXCEPT !.hid[e].state = v], d, ph, e)
         /\ Beside(h, [h EXCEPT !.hid[e].reconnect = FALSE, !.hid[e].state = v], d, ph, e)
         /\ e # d \/ ph = "over" => /\ Beside(h, [h EXCEPT !.hid[e].control = v], d, ph, e)
                                    /\ Beside(h, [h EXCEPT !.hid[e].interrupt = v], d, ph, e)
         /\ e # d => /\ \A c : Beside(h, [h EXCEPT !.hid[e].sdp = c, !.hid[e].state = v], d, ph, e)
<1>1. DOMAIN h = HostFields /\ DOMAIN h.hid = Dev /\ DOMAIN h.hid[e] = HidFields
  BY DEF HostOK, HidOK
<1>2. Beside(h, [h EXCEPT !.hid[e].state = v], d, ph, e)
  BY <1>1 DEF Beside, HostFields, HidFields
<1>3. Beside(h, [h EXCEPT !.hid[e].reconnect = FALSE, !.hid[e].state = v], d, ph, e)
  BY <1>1 DEF Beside, HostFields, HidFields
<1>4. e # d \/ ph = "over" => Beside(h, [h EXCEPT !.hid[e].control = v], d, ph, e)
  BY <1>1 DEF Beside, HostFields, HidFields
<1>5. e # d \/ ph = "over" => Beside(h, [h EXCEPT !.hid[e].interrupt = v], d, ph, e)
  BY <1>1 DEF Beside, HostFields, HidFields
<1>6. e # d => \A c : Beside(h, [h EXCEPT !.hid[e].sdp = c, !.hid[e].state = v], d, ph, e)
  BY <1>1 DEF Beside, HostFields, HidFields
<1>7. QED
  BY <1>2, <1>3, <1>4, <1>5, <1>6

LEMMA StateSpares ==
  ASSUME NEW h, NEW d \in Dev, NEW ph, Here(h, d, ph), NEW e \in Dev, NEW v
  PROVE  Spares(h, [h EXCEPT !.hid[e].state = v], d, ph)
<1> DEFINE s == [h EXCEPT !.hid[e].state = v]
<1>1. Good(s)
  BY StateSteps DEF Here, Steps
<1>2. Beside(h, s, d, ph, e)
  BY FieldsBeside DEF Here, Good
<1> HIDE DEF s
<1>3. Spares(h, s, d, ph)
  BY <1>1, <1>2, BesideSpares
<1>4. QED
  BY <1>3 DEF s

LEMMA OpenChannelsSpares ==
  ASSUME NEW h, NEW d \in Dev, NEW ph, Here(h, d, ph), NEW e \in Dev, NEW listen, e # d \/ ph = "over"
  PROVE  Spares(h, OpenChannels(h, e, listen), d, ph)
<1> DEFINE a == L2Open(h, e, "control", listen)
           s == [a EXCEPT !.hid[e].control = h.cid]
           b == L2Open(s, e, "interrupt", listen)
           r == [b EXCEPT !.hid[e].interrupt = s.cid]
<1>1. OpenChannels(h, e, listen) = r
  BY DEF OpenChannels, FreshCid
<1>2. Good(h) /\ h.cid \in Nat \ {0} /\ "control" \in Psms /\ "interrupt" \in Psms
  BY DEF Here, Good, HostOK, Psms
<1>3. L2Opened(h, a, e, "control") /\ Spares(h, a, d, ph)
  BY <1>2, L2OpenOpens, L2OpenSpares
<1> HIDE DEF a
<1>4. h.cid \in 0..(a.cid - 1) /\ Own(a, h.cid, e, "control") /\ Good(a) /\ Here(a, d, ph) /\ HostOK(a)
  BY <1>2, <1>3, SparesHere DEF L2Opened
<1>5. Good(s)
  BY <1>4, ControlKept DEF Steps
<1>6. Beside(a, s, d, ph, e)
  BY <1>4, FieldsBeside
<1> HIDE DEF s
<1>7. Spares(a, s, d, ph)
  BY <1>4, <1>5, <1>6, BesideSpares
<1>8. Here(s, d, ph) /\ s.cid \in Nat \ {0}
  BY <1>5, <1>7, SparesHere DEF Good, HostOK
<1>9. L2Opened(s, b, e, "interrupt") /\ Spares(s, b, d, ph)
  BY <1>2, <1>5, <1>8, L2OpenOpens, L2OpenSpares
<1> HIDE DEF b
<1>10. s.cid \in 1..(b.cid - 1) /\ Own(b, s.cid, e, "interrupt") /\ Good(b) /\ Here(b, d, ph) /\ HostOK(b)
  BY <1>8, <1>9, SparesHere DEF L2Opened
<1>11. Good(r)
  BY <1>10, InterruptKept DEF Steps
<1>12. Beside(b, r, d, ph, e)
  BY <1>10, FieldsBeside
<1> HIDE DEF r
<1>13. Spares(b, r, d, ph)
  BY <1>10, <1>11, <1>12, BesideSpares
<1>14. QED
  BY <1>1, <1>3, <1>7, <1>9, <1>13, SparesOn

LEMMA HidConnectedSpares ==
  ASSUME NEW h, NEW d \in Dev, NEW ph, Here(h, d, ph), NEW e \in Dev, e # d
  PROVE  Spares(h, HidConnected(h, e), d, ph)
<1> DEFINE s == IF h.hid[e].reconnect THEN OpenChannels(h, e, TRUE) ELSE h
           r == CmdTo(s, "NAME", e)
<1>1. HidConnected(h, e) = [r EXCEPT !.hid[e].state = "READING_NAME"]
  BY DEF HidConnected
<1>2. Spares(h, h, d, ph) /\ Spares(h, OpenChannels(h, e, TRUE), d, ph)
  BY SparesItself, OpenChannelsSpares
<1>3. Spares(h, s, d, ph)
  BY <1>2
<1> HIDE DEF s
<1>4. Spares(s, r, d, ph)
  BY <1>3, SparesHere, CmdToSpares DEF LinkCommands
<1> HIDE DEF r
<1>5. Spares(r, [r EXCEPT !.hid[e].state = "READING_NAME"], d, ph)
  BY <1>4, SparesHere, StateSpares
<1>6. QED
  BY <1>1, <1>3, <1>4, <1>5, SparesOn

LEMMA AuthenticationRequestedSpares ==
  ASSUME NEW h, NEW d \in Dev, NEW ph, Here(h, d, ph), NEW e \in Dev, e # d \/ ph = "over"
  PROVE  Spares(h, AuthenticationRequested(h, e), d, ph)
<1>1. Spares(h, h, d, ph)
  BY SparesItself
<1>2. Spares(h, CmdTo(h, "AUTH", e), d, ph)
  BY CmdToSpares DEF LinkCommands
<1>3. QED
  BY <1>1, <1>2 DEF AuthenticationRequested

LEMMA RemoteNameSpares ==
  ASSUME NEW h, NEW d \in Dev, NEW ph, Here(h, d, ph), NEW e \in Dev, e # d
  PROVE  Spares(h, RemoteName(h, e), d, ph)
<1>1. CASE h.hid[e].reconnect
  <2>1. RemoteName(h, e) = [h EXCEPT !.hid[e].state = "OPENING"]
    BY <1>1 DEF RemoteName
  <2>2. Spares(h, [h EXCEPT !.hid[e].state = "OPENING"], d, ph)
    BY StateSpares
  <2>3. QED
    BY <2>1, <2>2
<1>2. CASE ~h.hid[e].reconnect /\ h.key[e]
  <2> DEFINE s == AuthenticationRequested(h, e)
  <2>1. RemoteName(h, e) = [s EXCEPT !.hid[e].state = "AUTHENTICATING"]
    BY <1>2 DEF RemoteName
  <2>2. Spares(h, s, d, ph)
    BY AuthenticationRequestedSpares
  <2> HIDE DEF s
  <2>3. Spares(s, [s EXCEPT !.hid[e].state = "AUTHENTICATING"], d, ph)
    BY <2>2, SparesHere, StateSpares
  <2>4. QED
    BY <2>1, <2>2, <2>3, SparesOn
<1>3. CASE ~h.hid[e].reconnect /\ ~h.key[e]
  <2> DEFINE a == L2Open(h, e, "sdp", FALSE)
             s == [a EXCEPT !.hid[e].sdp = h.cid, !.hid[e].state = "READING_SDP"]
  <2>1. RemoteName(h, e) = s
    BY <1>3 DEF RemoteName, FreshCid
  <2>2. Good(h) /\ h.cid \in Nat \ {0} /\ "sdp" \in Psms
    BY DEF Here, Good, HostOK, Psms
  <2>3. L2Opened(h, a, e, "sdp") /\ Spares(h, a, d, ph)
    BY <2>2, L2OpenOpens, L2OpenSpares
  <2> HIDE DEF a
  <2>4. h.cid \in 0..(a.cid - 1) /\ Own(a, h.cid, e, "sdp") /\ Good(a) /\ Here(a, d, ph) /\ HostOK(a)
    BY <2>2, <2>3, SparesHere DEF L2Opened
  <2>5. Good(s)
    BY <2>4, SdpKept DEF Steps
  <2>6. Beside(a, s, d, ph, e)
    BY <2>4, FieldsBeside
  <2> HIDE DEF s
  <2>7. Spares(a, s, d, ph)
    BY <2>4, <2>5, <2>6, BesideSpares
  <2>8. QED
    BY <2>1, <2>3, <2>7, SparesOn
<1>4. QED
  BY <1>1, <1>2, <1>3

LEMMA HidDisconnectedSpares ==
  ASSUME NEW h, NEW d \in Dev, NEW ph, Here(h, d, ph), NEW e \in Dev, e # d \/ ph = "over"
  PROVE  Spares(h, HidDisconnected(h, e), d, ph)
<1> DEFINE f == h.hid[e]
           a == L2Close(h, f.sdp, TRUE)
           b == L2Close(a, f.control, TRUE)
           s == L2Close(b, f.interrupt, TRUE)
           g == [f EXCEPT !.reconnect = FALSE, !.interrupt = 0, !.control = 0,
                          !.state = "CLOSED", !.slot = NoSlot]
           r == [s EXCEPT !.hid[e] = g, !.slot = SlotsFreed(h, e)]
<1>1. HidDisconnected(h, e) = r
  BY DEF HidDisconnected
<1>2. DOMAIN f = HidFields /\ HostOK(h)
  BY DEF Here, Good, HostOK, HidOK
<1>3. g.sdp = f.sdp /\ g.handler = f.handler /\ g.reconnect = FALSE
  BY <1>2 DEF HidFields
<1>4. Spares(h, a, d, ph) /\ Keeps(h, a)
  BY <1>2, L2CloseSpares, L2CloseKeeps
<1> HIDE DEF a
<1>5. Spares(a, b, d, ph) /\ Keeps(a, b)
  BY <1>4, SparesHere, L2CloseSpares, L2CloseKeeps
<1> HIDE DEF b
<1>6. Spares(b, s, d, ph) /\ Keeps(b, s)
  BY <1>5, SparesHere, L2CloseSpares, L2CloseKeeps
<1> HIDE DEF s, g
<1>7. s.hid = h.hid /\ HostOK(s)
  BY <1>4, <1>5, <1>6, SparesHere DEF Keeps
<1>8. /\ r.seen = s.seen /\ r.held = s.held /\ r.handle = s.handle /\ r.sock = s.sock /\ r.tx = s.tx
      /\ DOMAIN r.hid = Dev /\ \A x \in Dev : r.hid[x] = IF x = e THEN g ELSE s.hid[x]
  BY <1>7 DEF HostOK, HostFields
<1> HIDE DEF r
<1>9. Beside(s, r, d, ph, e)
  BY <1>3, <1>7, <1>8 DEF Beside
<1>10. Good(r)
  BY <1>1, HidDisconnectedSteps DEF Here, Steps
<1>11. Spares(s, r, d, ph)
  BY <1>6, <1>9, <1>10, SparesHere, BesideSpares
<1>12. QED
  BY <1>1, <1>4, <1>5, <1>6, <1>11, SparesOn


LEMMA AddDeviceSpares ==
  ASSUME NEW h, NEW d \in Dev, NEW ph, Here(h, d, ph), NEW e \in Dev
  PROVE  Spares(h, AddDevice(h, e), d, ph)
<1>1. Good(AddDevice(h, e))
  BY AddDeviceMoves DEF Here, Moves
<1>2. CASE Contains(h.known, e)
  BY <1>2, SparesItself DEF AddDevice
<1>3. CASE ~Contains(h.known, e)
  <2> DEFINE s == [h EXCEPT !.known = Append(@, e)]
  <2>1. /\ s.seen = h.seen /\ s.held = h.held /\ s.handle = h.handle /\ s.sock = h.sock
        /\ s.tx = h.tx /\ s.hid = h.hid
    BY DEF Here, Good, HostOK, HostFields
  <2>2. AddDevice(h, e) = s
    BY <1>3 DEF AddDevice
  <2> HIDE DEF s
  <2>3. QED
    BY <1>1, <2>1, <2>2, AsideSpares
<1>4. QED
  BY <1>2, <1>3

\* A device that is not yet is paged.
Paging(h, e) == [h EXCEPT !.seen[e] = {}, !.handle[e] = "paging"]

LEMMA PagingGood ==
  ASSUME NEW h, Good(h), NEW e \in Dev
  PROVE  /\ Good(Paging(h, e)) /\ KnownTo(Paging(h, e)) = KnownTo(h)
         /\ Paging(h, e).tx = h.tx /\ Paging(h, e).hid = h.hid /\ Paging(h, e).sock = h.sock
         /\ Paging(h, e).held = h.held
         /\ Paging(h, e).handle = [h.handle EXCEPT ![e] = "paging"]
         /\ Paging(h, e).seen = [h.seen EXCEPT ![e] = {}]
<1> DEFINE s == Paging(h, e)
<1>1. /\ DOMAIN s = HostFields /\ s.handle = [h.handle EXCEPT ![e] = "paging"]
      /\ s.seen = [h.seen EXCEPT ![e] = {}]
      /\ s.sock = h.sock /\ s.cid = h.cid /\ s.known = h.known
      /\ s.tx = h.tx /\ s.held = h.held /\ s.slot = h.slot /\ s.hid = h.hid
  BY DEF Good, HostOK, HostFields, Paging
<1> HIDE DEF s
<1>2. h.handle \in [Dev -> Handles] /\ h.known \in Seq(Dev)
  BY DEF Good, HostOK
<1>3. s.handle \in [Dev -> Handles] /\ s.known \in Seq(Dev) /\ KnownTo(s) = KnownTo(h)
  BY <1>1, <1>2 DEF Handles, KnownTo
<1>4. Good(s)
  BY <1>1, <1>3, PartsGood
<1>5. QED
  BY <1>1, <1>3, <1>4 DEF s

LEMMA CreateConnectionSpares ==
  ASSUME NEW h, NEW d \in Dev, NEW ph, Here(h, d, ph), NEW e \in Dev, e \in KnownTo(h),
         e # d \/ h.handle[d] # "none"
  PROVE  Spares(h, CreateConnection(h, e), d, ph)
<1>1. CASE h.handle[e] # "none"
  BY <1>1, SparesItself DEF CreateConnection
<1>2. CASE h.handle[e] = "none"
  <2> DEFINE s == Paging(h, e)
  <2>1. CreateConnection(h, e) = CmdTo(s, "CREATE", e)
    BY <1>2 DEF CreateConnection, Paging
  <2>2. e # d /\ DOMAIN h.seen = Dev
    BY <1>2 DEF Here, Asking
  <2>3. /\ Good(s) /\ KnownTo(s) = KnownTo(h) /\ s.tx = h.tx /\ s.hid = h.hid /\ s.sock = h.sock
        /\ s.held = h.held /\ s.handle[d] = h.handle[d] /\ s.seen[d] = h.seen[d] /\ DOMAIN s.seen = Dev
    <3>1. Good(h) /\ h.handle \in [Dev -> Handles]
      BY DEF Here, Good, HostOK
    <3> HIDE DEF s
    <3>2. /\ Good(s) /\ KnownTo(s) = KnownTo(h) /\ s.tx = h.tx /\ s.hid = h.hid /\ s.sock = h.sock
          /\ s.held = h.held /\ s.handle = [h.handle EXCEPT ![e] = "paging"]
          /\ s.seen = [h.seen EXCEPT ![e] = {}]
      BY <3>1, PagingGood DEF s
    <3>3. QED
      BY <2>2, <3>1, <3>2
  <2> HIDE DEF s
  <2>4. Apart(h, s, d, ph)
    BY <2>3 DEF Apart, Here, Asking, Live
  <2>5. Spares(h, s, d, ph)
    BY <2>3, <2>4, ApartSpares
  <2>6. Spares(s, CmdTo(s, "CREATE", e), d, ph)
    BY <2>2, <2>3, <2>5, SparesHere, CmdToSpares
  <2>7. QED
    BY <2>1, <2>5, <2>6, SparesOn
<1>3. QED
  BY <1>1, <1>2

\* The device is to be connected: at first only what it keeps changes.
ToConnect(h, e) == [h EXCEPT !.hid[e].reconnect = FALSE, !.hid[e].state = "CONNECT"]

LEMMA ToConnectSpares ==
  ASSUME NEW h, NEW d \in Dev, NEW ph, Here(h, d, ph), NEW e \in Dev
  PROVE  /\ Spares(h, ToConnect(h, e), d, ph)
         /\ ToConnect(h, e).known = h.known /\ ToConnect(h, e).handle = h.handle
<1> DEFINE s == ToConnect(h, e)
<1>1. HidOnly(h, s, e)
  BY DEF HidOnly, Here, Good, HostOK, HostFields, HidOK, HidFields, ToConnect
<1>2. /\ s.hid[e].sdp = h.hid[e].sdp /\ s.hid[e].handler = h.hid[e].handler
      /\ s.hid[e].control = h.hid[e].control /\ s.hid[e].interrupt = h.hid[e].interrupt
  BY DEF Here, Good, HostOK, HostFields, HidOK, HidFields, ToConnect
<1>3. Beside(h, s, d, ph, e)
  BY FieldsBeside DEF Here, Good, ToConnect
<1> HIDE DEF s
<1>4. Steps(h, s)
  BY <1>1, <1>2, FlagSteps DEF Here
<1>5. Spares(h, s, d, ph)
  BY <1>3, <1>4, BesideSpares DEF Steps
<1>6. QED
  BY <1>4, <1>5 DEF s, Steps

LEMMA HciSpares ==
  ASSUME NEW h, NEW d \in Dev, NEW ph, Here(h, d, ph), NEW v
  PROVE  Spares(h, [h EXCEPT !.hci = v], d, ph)
<1> DEFINE q == [h EXCEPT !.hci = v]
<1>1. /\ q.seen = h.seen /\ q.held = h.held /\ q.handle = h.handle /\ q.sock = h.sock
      /\ q.tx = h.tx /\ q.hid = h.hid
  BY DEF Here, Good, HostOK, HostFields
<1>2. Good(q)
  BY HciSteps DEF Here, Steps
<1> HIDE DEF q
<1>3. Spares(h, q, d, ph)
  BY <1>1, <1>2, AsideSpares
<1>4. QED
  BY <1>3 DEF q

LEMMA StartInquirySpares ==
  ASSUME NEW h, NEW d \in Dev, NEW ph, Here(h, d, ph)
  PROVE  Spares(h, StartInquiry(h), d, ph)
<1>1. CASE "INQUIRY" \in h.hci
  BY <1>1, SparesItself DEF StartInquiry
<1>2. CASE "INQUIRY" \notin h.hci
  <2> DEFINE v == h.hci \cup {"INQUIRY"}
             s == [h EXCEPT !.hci = v]
  <2>1. StartInquiry(h) = Cmd(s, "INQUIRY")
    BY <1>2 DEF StartInquiry, Here, Good, HostOK, HostFields
  <2> HIDE DEF v
  <2>2. Spares(h, s, d, ph)
    BY HciSpares
  <2> HIDE DEF s
  <2>3. Spares(s, Cmd(s, "INQUIRY"), d, ph)
    BY <2>2, SparesHere, CmdSpares DEF HostCommands
  <2>4. QED
    BY <2>1, <2>2, <2>3, SparesOn
<1>3. QED
  BY <1>1, <1>2

LEMMA CommandCompleteSpares ==
  ASSUME NEW h, NEW d \in Dev, NEW ph, Here(h, d, ph), NEW c \in HostCommands
  PROVE  Spares(h, CommandComplete(h, c), d, ph)
<1>1. \A s : Here(s, d, ph) => /\ \A x \in HostCommands : Spares(s, Cmd(s, x), d, ph)
                               /\ \A v : Spares(s, [s EXCEPT !.hci = v], d, ph)
  BY CmdSpares, HciSpares
<1>2. CASE c = "RESET"
  <2> DEFINE s == Cmd(h, "READ_BUFFER_SIZE")
             v == s.hci \cup {"RESET"}
  <2>1. Spares(h, s, d, ph) /\ Here(s, d, ph)
    BY <1>1, SparesHere DEF HostCommands
  <2>2. CommandComplete(h, c) = [s EXCEPT !.hci = v]
    BY <1>2, <2>1 DEF CommandComplete, Here, Good, HostOK, HostFields
  <2> HIDE DEF s, v
  <2>3. Spares(s, [s EXCEPT !.hci = v], d, ph)
    BY <1>1, <2>1
  <2>4. QED
    BY <2>1, <2>2, <2>3, SparesOn
<1>3. CASE c = "READ_BUFFER_SIZE"
  <2> DEFINE s == Cmd(h, "READ_BD_ADDR")
             v == s.hci \cup {"READ_BUFFER_SIZE"}
  <2>1. Spares(h, s, d, ph) /\ Here(s, d, ph)
    BY <1>1, SparesHere DEF HostCommands
  <2>2. CommandComplete(h, c) = [s EXCEPT !.hci = v]
    BY <1>3, <2>1 DEF CommandComplete, Here, Good, HostOK, HostFields
  <2> HIDE DEF s, v
  <2>3. Spares(s, [s EXCEPT !.hci = v], d, ph)
    BY <1>1, <2>1
  <2>4. QED
    BY <2>1, <2>2, <2>3, SparesOn
<1>4. CASE c = "READ_BD_ADDR"
  <2> DEFINE a == Cmd(h, "WRITE_CLASS")
             s == Cmd(a, "WRITE_SCAN_ENABLE")
             v == s.hci \cup {"READ_BD_ADDR"}
  <2>1. Spares(h, a, d, ph) /\ Here(a, d, ph)
    BY <1>1, SparesHere DEF HostCommands
  <2>2. Spares(a, s, d, ph) /\ Here(s, d, ph)
    BY <1>1, <2>1, SparesHere DEF HostCommands
  <2>3. CommandComplete(h, c) = [s EXCEPT !.hci = v]
    BY <1>4, <2>2 DEF CommandComplete, Here, Good, HostOK, HostFields
  <2> HIDE DEF a, s, v
  <2>4. Spares(s, [s EXCEPT !.hci = v], d, ph)
    BY <1>1, <2>2
  <2>5. QED
    BY <2>1, <2>2, <2>3, <2>4, SparesOn
<1>5. CASE c = "WRITE_SCAN_ENABLE"
  <2> DEFINE v == h.hci \cup {"INITED"}
             s == [h EXCEPT !.hci = v]
             r == StartInquiry(s)
  <2>1. CommandComplete(h, c) = Cmd(r, "WRITE_AUTH_ENABLE")
    BY <1>5 DEF CommandComplete, Here, Good, HostOK, HostFields
  <2> HIDE DEF v
  <2>2. Spares(h, s, d, ph)
    BY HciSpares
  <2> HIDE DEF s
  <2>3. Spares(s, r, d, ph)
    BY <2>2, SparesHere, StartInquirySpares
  <2> HIDE DEF r
  <2>4. Spares(r, Cmd(r, "WRITE_AUTH_ENABLE"), d, ph)
    BY <1>1, <2>3, SparesHere DEF HostCommands
  <2>5. QED
    BY <2>1, <2>2, <2>3, <2>4, SparesOn
<1>6. CASE c \notin {"RESET", "READ_BUFFER_SIZE", "READ_BD_ADDR", "WRITE_SCAN_ENABLE"}
  BY <1>6, SparesItself DEF CommandComplete
<1>7. QED
  BY <1>2, <1>3, <1>4, <1>5, <1>6

LEMMA ConnectionCompleteSpares ==
  ASSUME NEW h, NEW d \in Dev, NEW ph, Here(h, d, ph), NEW e \in Dev, e # d
  PROVE  Spares(h, ConnectionComplete(h, e, TRUE), d, ph)
<1> DEFINE on == [h EXCEPT !.handle[e] = e]
           s == IF Contains(h.known, e) THEN HidConnected(on, e) ELSE h
<1>1. /\ on.seen = h.seen /\ on.held = h.held /\ on.sock = h.sock /\ on.tx = h.tx
      /\ on.hid = h.hid /\ on.handle[d] = h.handle[d]
  BY DEF Here, Good, HostOK, HostFields
<1>2. Good(on)
  BY HandleLinked DEF Here, Linked, Handles
<1>3. ConnectionComplete(h, e, TRUE) = DongleBug(s)
  BY DEF ConnectionComplete
<1> HIDE DEF on
<1>4. Apart(h, on, d, ph)
  BY <1>1 DEF Apart, Here, Asking, Live
<1>5. Spares(h, on, d, ph)
  BY <1>2, <1>4, ApartSpares
<1>6. Spares(on, HidConnected(on, e), d, ph)
  BY <1>5, SparesHere, HidConnectedSpares
<1>7. Spares(h, HidConnected(on, e), d, ph) /\ Spares(h, h, d, ph)
  BY <1>5, <1>6, SparesOn, SparesItself
<1>8. Spares(h, s, d, ph)
  BY <1>7
<1> HIDE DEF s
<1>9. Spares(s, DongleBug(s), d, ph)
  BY <1>8, SparesHere, DongleBugSpares
<1>10. QED
  BY <1>3, <1>8, <1>9, SparesOn
-----------------------------------------------------------------------------
(* The query of a device itself *)

LEMMA SparesQuery ==
  ASSUME NEW h, NEW s, NEW d \in Dev, NEW ph, NEW ow, NEW q, NEW a,
         QueryAt(h, d, ph, ow, q, a), Spares(h, s, d, ph)
  PROVE  QueryAt(s, d, ph, ow, q, a)
<1>1. s.hid[d].sdp = h.hid[d].sdp
  BY DEF Spares, Apart
<1>2. Stage(s, d, ph, ow, q)
  BY ApartStage DEF QueryAt, Spares
<1>3. QED
  BY <1>1, <1>2 DEF QueryAt, Spares

\* A packet written is the last, if it was.
LEMMA WriteLast ==
  ASSUME NEW h, HostOK(h), NEW p
  PROVE  LET s == Write(h, p) IN
         /\ s.handle = h.handle /\ s.seen = h.seen /\ s.sock = h.sock /\ s.hid = h.hid
         /\ s.held = h.held /\ s.cid = h.cid /\ s.known = h.known
         /\ \A i \in 1..Len(s.tx) : \/ i \in 1..Len(h.tx) /\ s.tx[i] = h.tx[i]
                                    \/ i = Len(h.tx) + 1 /\ s.tx[i] = p
<1>1. CASE Len(h.tx) < TxSize
  <2> DEFINE s == [h EXCEPT !.tx = Append(@, p)]
  <2>1. h.tx \in Seq(Sent(KnownTo(h)))
    BY DEF HostOK
  <2>2. /\ s.tx = Append(h.tx, p)
        /\ s.handle = h.handle /\ s.seen = h.seen /\ s.sock = h.sock /\ s.hid = h.hid
        /\ s.held = h.held /\ s.cid = h.cid /\ s.known = h.known
    BY DEF HostOK, HostFields
  <2>3. Write(h, p) = s
    BY <1>1 DEF Write
  <2> HIDE DEF s
  <2>4. \A i \in 1..Len(s.tx) : \/ i \in 1..Len(h.tx) /\ s.tx[i] = h.tx[i]
                                \/ i = Len(h.tx) + 1 /\ s.tx[i] = p
    BY <2>1, <2>2
  <2>5. QED
    BY <2>2, <2>3, <2>4
<1>2. CASE ~(Len(h.tx) < TxSize)
  BY <1>2 DEF Write
<1>3. QED
  BY <1>1, <1>2

\* The queue u is t, with p behind it if there was room.
OneMore(t, u, p) ==
  \A i \in 1..Len(u) : \/ i \in 1..Len(t) /\ u[i] = t[i]
                       \/ i = Len(t) + 1 /\ u[i] = p

\* A command asked nowhere may be asked once, or another be sent.
LEMMA AskedFirst ==
  ASSUME NEW t, NEW u, NEW ow, NEW q, NEW a, NEW o, NEW b, Unasked(t, ow, q, a, o, b), NEW p,
         OneMore(t, u, p)
  PROVE  AskedOnce(u, ow, q, a, o, b)
<1>1. \A i \in 1..Len(u) : u[i] = a => i = Len(t) + 1 /\ p = a
  BY DEF OneMore, Unasked, Nowhere
<1>2. Once(u, a)
  BY <1>1 DEF Once
<1>3. Nowhere(q, b) /\ o \notin ow
  BY DEF Unasked
<1>4. Once(q, b)
  BY <1>3 DEF Nowhere, Once
<1>5. QED
  BY <1>2, <1>3, <1>4 DEF AskedOnce

LEMMA OtherAsked ==
  ASSUME NEW t, NEW u, NEW ow, NEW q, NEW a, NEW o, NEW b, Unasked(t, ow, q, a, o, b), NEW p, p # a,
         OneMore(t, u, p)
  PROVE  Unasked(u, ow, q, a, o, b)
<1>1. Nowhere(u, a)
  BY DEF OneMore, Nowhere, Unasked
<1>2. QED
  BY <1>1 DEF Unasked

LEMMA UnaskedOnce ==
  ASSUME NEW t, NEW ow, NEW q, NEW a, NEW o, NEW b, Unasked(t, ow, q, a, o, b)
  PROVE  AskedOnce(t, ow, q, a, o, b)
  BY DEF Unasked, AskedOnce, Nowhere, Once

LEMMA Unlike ==
  ASSUME NEW d \in Dev
  PROVE  /\ Create(d) # AskName(d) /\ d # "none" /\ d # "paging"
         /\ \A ph, k : MaySend(Create(d), d, ph, k) /\ MaySend(AskName(d), d, ph, k)
<1>1. Create(d).c = "CREATE" /\ AskName(d).c = "NAME" /\ Create(d).t = "CMD" /\ AskName(d).t = "CMD"
  BY DEF Create, AskName
<1>2. QED
  BY <1>1, BtHostAssumption DEF MaySend

\* It is paged.
LEMMA PagedQuery ==
  ASSUME NEW h, Good(h), NEW d \in Dev, NEW ph, NEW ow, NEW q, NEW a,
         QueryAt(h, d, ph, ow, q, a), h.handle[d] = "none"
  PROVE  QueryAt(CreateConnection(h, d), d, ph, ow, q, a)
<1> DEFINE s == Paging(h, d)
           r == Write(s, Create(d))
           k == h.hid[d].sdp
<1>1. CreateConnection(h, d) = r
  BY DEF CreateConnection, Paging, CmdTo, Create
<1>2. d # "none" /\ d # "paging" /\ Asking(h, d, ph) /\ Create(d) # AskName(d)
  BY Unlike DEF QueryAt
<1>3. ph # "over" /\ k = 0 /\ DOMAIN h.seen = Dev
  BY <1>2 DEF Asking
<1>4. h.handle \in [Dev -> Handles]
  BY DEF Good, HostOK
<1>5. /\ HostOK(s) /\ s.handle[d] = "paging" /\ s.seen[d] = {} /\ DOMAIN s.seen = Dev
      /\ s.tx = h.tx /\ s.hid = h.hid /\ s.sock = h.sock /\ s.held = h.held
  <2>1. /\ Good(s) /\ s.tx = h.tx /\ s.hid = h.hid /\ s.sock = h.sock /\ s.held = h.held
        /\ s.handle = [h.handle EXCEPT ![d] = "paging"] /\ s.seen = [h.seen EXCEPT ![d] = {}]
    BY PagingGood
  <2> HIDE DEF s
  <2>2. QED
    BY <1>3, <1>4, <2>1 DEF Good
<1> HIDE DEF s
<1>6. /\ r.handle = s.handle /\ r.seen = s.seen /\ r.sock = s.sock /\ r.hid = s.hid /\ r.held = s.held
      /\ \A i \in 1..Len(r.tx) : \/ i \in 1..Len(h.tx) /\ r.tx[i] = h.tx[i]
                                 \/ i = Len(h.tx) + 1 /\ r.tx[i] = Create(d)
  BY <1>5, WriteLast
<1> HIDE DEF r
<1>7. MaySend(Create(d), d, ph, k)
  BY Unlike
<1>8. \A i \in 1..Len(r.tx) : MaySend(r.tx[i], d, ph, k)
  BY <1>2, <1>6, <1>7 DEF Asking
<1>9. Asking(r, d, ph)
  BY <1>2, <1>3, <1>5, <1>6, <1>8 DEF Asking, Live
<1>10. Stage(r, d, ph, ow, q)
  <2>1. Unasked(h.tx, ow, q, Create(d), Owe("PAGE", d), Made(d))
    BY <1>2 DEF QueryAt, Stage
  <2>2. Unasked(h.tx, ow, q, AskName(d), Owe("REMOTE_NAME", d), Named(d))
    BY <1>2 DEF QueryAt, Stage
  <2>3. OneMore(h.tx, r.tx, Create(d))
    BY <1>6 DEF OneMore
  <2>4. Create(d) # AskName(d)
    BY DEF Create, AskName
  <2>5. AskedOnce(r.tx, ow, q, Create(d), Owe("PAGE", d), Made(d))
    BY <2>1, <2>3, AskedFirst
  <2>6. Unasked(r.tx, ow, q, AskName(d), Owe("REMOTE_NAME", d), Named(d))
    BY <2>2, <2>3, <2>4, OtherAsked
  <2>7. QED
    BY <1>2, <1>5, <1>6, <2>5, <2>6 DEF Stage
<1>11. r.hid[d].sdp = k
  BY <1>5, <1>6
<1>12. QED
  BY <1>1, <1>9, <1>10, <1>11 DEF QueryAt

LEMMA HidConnectQuery ==
  ASSUME NEW h, Good(h), NEW d \in Dev, NEW ph, NEW ow, NEW q, NEW a,
         QueryAt(h, d, ph, ow, q, a), NEW e \in Dev, e \in KnownTo(h)
  PROVE  QueryAt(HidConnect(h, e), d, ph, ow, q, a)
<1> DEFINE s == ToConnect(h, e)
<1>1. HidConnect(h, e) = CreateConnection(s, e)
  BY DEF HidConnect, ToConnect
<1>2. Here(h, d, ph)
  BY DEF Here, QueryAt
<1>3. Spares(h, s, d, ph) /\ s.known = h.known /\ s.handle = h.handle
  BY <1>2, ToConnectSpares
<1> HIDE DEF s
<1>4. Here(s, d, ph) /\ Good(s) /\ QueryAt(s, d, ph, ow, q, a) /\ e \in KnownTo(s)
  BY <1>3, SparesHere, SparesQuery DEF KnownTo
<1>5. CASE e # d \/ s.handle[d] # "none"
  <2>1. Spares(s, CreateConnection(s, e), d, ph)
    BY <1>4, <1>5, CreateConnectionSpares
  <2>2. QED
    BY <1>1, <1>4, <2>1, SparesQuery
<1>6. CASE e = d /\ s.handle[d] = "none"
  BY <1>1, <1>4, <1>6, PagedQuery
<1>7. QED
  BY <1>5, <1>6

LEMMA InquiryDoneQuery ==
  ASSUME NEW h, Good(h), NEW d \in Dev, NEW ph, NEW ow, NEW q, NEW a, QueryAt(h, d, ph, ow, q, a)
  PROVE  QueryAt(InquiryDone(h), d, ph, ow, q, a)
<1> DEFINE N == Len(h.known)
           v == h.hci \ {"INQUIRY"}
           start == [h EXCEPT !.hci = v]
           Right(s) == Moves(h, s) /\ QueryAt(s, d, ph, ow, q, a)
<1>1. N \in Nat /\ \A n \in 1..N : h.known[n] \in Dev /\ h.known[n] \in KnownTo(h)
  BY DEF Good, HostOK, KnownTo
<1>2. PICK upTo : /\ upTo[0] = start
                  /\ \A n \in 1..N : upTo[n] = HidConnect(upTo[n - 1], h.known[n])
                  /\ InquiryDone(h) = upTo[N]
  BY InquiryTurns
<1> HIDE DEF v
<1>3. Right(start)
  <2>1. Here(h, d, ph)
    BY DEF Here, QueryAt
  <2>2. Spares(h, start, d, ph) /\ Moves(h, start)
    BY <2>1, HciSpares, HciSteps, StepsMoves
  <2> HIDE DEF start
  <2>3. QED
    BY <2>2, SparesQuery
<1>4. ASSUME NEW s, NEW n \in 1..N, Right(s) PROVE Right(HidConnect(s, h.known[n]))
  <2> DEFINE e == h.known[n]
  <2>1. Good(s) /\ e \in Dev /\ e \in KnownTo(s)
    BY <1>1, <1>4 DEF Moves
  <2> HIDE DEF e
  <2>2. Moves(s, HidConnect(s, e)) /\ QueryAt(HidConnect(s, e), d, ph, ow, q, a)
    BY <1>4, <2>1, HidConnectMoves, HidConnectQuery
  <2>3. QED
    BY <1>4, <2>2, MovesOn DEF e
<1> HIDE DEF Right, start, N
<1>5. \A n \in 0..N : Right(upTo[n])
  <2> DEFINE T == {n \in 0..N : ~Right(upTo[n])}
  <2>1. SUFFICES ASSUME T # {} PROVE FALSE
    OBVIOUS
  <2>2. T \in SUBSET Nat
    BY <1>1
  <2> HIDE DEF T
  <2>3. PICK m \in T : \A k \in T : m <= k
    BY <2>1, <2>2, Smallest
  <2> USE DEF T
  <2>4. m \in 0..N /\ m # 0
    BY <1>2, <1>3, <2>3
  <2>5. m \in 1..N /\ m - 1 \in 0..N
    BY <1>1, <2>4
  <2>6. m - 1 \notin T
    BY <2>2, <2>3, <2>5
  <2>7. Right(upTo[m - 1])
    BY <2>5, <2>6
  <2>8. Right(upTo[m])
    BY <1>2, <1>4, <2>5, <2>7
  <2>9. QED
    BY <2>3, <2>8
<1>6. QED
  BY <1>1, <1>2, <1>5 DEF Right, N

\* Its connection is made, and it is asked for its name.
LEMMA ConnectedQuery ==
  ASSUME NEW h, Good(h), NEW d \in Dev, d \in KnownTo(h), NEW ph, NEW ow, NEW q, NEW a,
         QueryAt(h, d, ph, ow, q, a), h.handle[d] = "paging",
         Unasked(h.tx, ow, q, Create(d), Owe("PAGE", d), Made(d))
  PROVE  QueryAt(ConnectionComplete(h, d, TRUE), d, ph, ow, q, a)
<1> DEFINE on == [h EXCEPT !.handle[d] = d]
           r == Write(on, AskName(d))
           s == [r EXCEPT !.hid[d].state = "READING_NAME"]
<1>1. /\ Asking(h, d, ph) /\ d # "paging" /\ Create(d) # AskName(d)
      /\ Unasked(h.tx, ow, q, AskName(d), Owe("REMOTE_NAME", d), Named(d))
  BY Unlike DEF QueryAt, Stage
<1>2. ph # "over" /\ h.hid[d].sdp = 0 /\ h.hid[d].reconnect = FALSE
  BY <1>1 DEF Asking
<1>3. /\ on.seen = h.seen /\ on.held = h.held /\ on.sock = h.sock /\ on.tx = h.tx
      /\ on.hid = h.hid /\ on.handle[d] = d
  BY DEF Good, HostOK, HostFields
<1>4. Good(on) /\ HostOK(on)
  BY HandleLinked DEF Linked, Handles, Good
<1>5. ConnectionComplete(h, d, TRUE) = DongleBug(s)
  <2>1. HidConnected(on, d) = s
    BY <1>2, <1>3 DEF HidConnected, CmdTo, AskName
  <2>2. QED
    BY <2>1, ContainsKnown DEF ConnectionComplete
<1> HIDE DEF on
<1>6. /\ r.handle = on.handle /\ r.seen = on.seen /\ r.sock = on.sock /\ r.hid = on.hid /\ r.held = on.held
      /\ \A i \in 1..Len(r.tx) : \/ i \in 1..Len(on.tx) /\ r.tx[i] = on.tx[i]
                                 \/ i = Len(on.tx) + 1 /\ r.tx[i] = AskName(d)
  BY <1>4, WriteLast
<1>7. Good(r)
  <2>1. Steps(on, CmdTo(on, "NAME", d))
    BY <1>4, CmdToSteps DEF LinkCommands
  <2>2. QED
    BY <2>1 DEF Steps, CmdTo, AskName
<1> HIDE DEF r
<1>8. MaySend(AskName(d), d, ph, 0)
  BY Unlike
<1>9. \A i \in 1..Len(r.tx) : MaySend(r.tx[i], d, ph, 0)
  BY <1>1, <1>2, <1>3, <1>6, <1>8 DEF Asking
<1>10. Asking(r, d, ph)
  BY <1>1, <1>2, <1>3, <1>6, <1>9 DEF Asking, Live
<1>11. Stage(r, d, ph, ow, q)
  <2>1. OneMore(h.tx, r.tx, AskName(d))
    BY <1>3, <1>6 DEF OneMore
  <2>2. AskName(d) # Create(d)
    BY DEF Create, AskName
  <2>3. AskedOnce(r.tx, ow, q, AskName(d), Owe("REMOTE_NAME", d), Named(d))
    BY <1>1, <2>1, AskedFirst
  <2>4. Unasked(r.tx, ow, q, Create(d), Owe("PAGE", d), Made(d))
    BY <1>1, <2>1, <2>2, OtherAsked
  <2>5. QED
    BY <1>1, <1>2, <1>3, <1>6, <2>3, <2>4 DEF Stage
<1>12. QueryAt(r, d, ph, ow, q, a) /\ Here(r, d, ph)
  BY <1>3, <1>6, <1>7, <1>10, <1>11 DEF QueryAt, Here
<1>13. Spares(r, s, d, ph)
  BY <1>12, StateSpares
<1> HIDE DEF s
<1>14. Spares(r, DongleBug(s), d, ph)
  BY <1>13, SparesHere, DongleBugSpares, SparesOn
<1>15. QED
  BY <1>5, <1>12, <1>14, SparesQuery

\* A query left out, or answered, is over.
LEMMA QueryOver ==
  ASSUME NEW h, NEW d \in Dev, NEW ph, NEW ow, NEW q, NEW a,
         QueryAt(h, d, ph, ow, q, a), h.handle[d] = d, h.hid[d].sdp = 0,
         Unasked(h.tx, ow, q, AskName(d), Owe("REMOTE_NAME", d), Named(d))
  PROVE  QueryAt(h, d, "over", ow, q, a)
<1>1. d # "paging" /\ Asking(h, d, ph) /\ Stage(h, d, ph, ow, q) /\ Coming(d, ph, 0, ow, q, a)
  BY Unlike DEF QueryAt
<1>2. \A p : MaySend(p, d, ph, 0) => MaySend(p, d, "over", 0)
  BY DEF MaySend
<1>3. \A p : MayCome(p, d, ph, 0) => MayCome(p, d, "over", 0)
  BY DEF MayCome
<1>4. Asking(h, d, "over")
  BY <1>1, <1>2 DEF Asking
<1>5. Stage(h, d, "over", ow, q)
  BY <1>1 DEF Stage
<1>6. Coming(d, "over", 0, ow, q, a)
  BY <1>1, <1>3 DEF Coming
<1>7. QED
  BY <1>4, <1>5, <1>6 DEF QueryAt

\* It has a link key: there is no query.
LEMMA KeyQuery ==
  ASSUME NEW h, Good(h), NEW d \in Dev, NEW ph, NEW ow, NEW q, NEW a,
         QueryAt(h, d, ph, ow, q, a), h.handle[d] = d, h.hid[d].sdp = 0, h.key[d],
         Unasked(h.tx, ow, q, AskName(d), Owe("REMOTE_NAME", d), Named(d))
  PROVE  QueryAt(RemoteName(h, d), d, "over", ow, q, a)
<1> DEFINE s == AuthenticationRequested(h, d)
           r == [s EXCEPT !.hid[d].state = "AUTHENTICATING"]
<1>1. h.hid[d].reconnect = FALSE
  BY DEF QueryAt, Asking
<1>2. RemoteName(h, d) = r
  BY <1>1 DEF RemoteName
<1>3. QueryAt(h, d, "over", ow, q, a)
  BY QueryOver
<1>4. Here(h, d, "over")
  BY <1>3 DEF QueryAt, Here
<1>5. Spares(h, s, d, "over")
  BY <1>4, AuthenticationRequestedSpares
<1> HIDE DEF s
<1>6. Spares(s, r, d, "over")
  BY <1>5, SparesHere, StateSpares
<1> HIDE DEF r
<1>7. QED
  BY <1>2, <1>3, <1>5, <1>6, SparesOn, SparesQuery

\* It has none: its SDP channel is opened.
LEMMA SdpQuery ==
  ASSUME NEW h, Good(h), NEW d \in Dev, NEW ph, NEW ow, NEW q, NEW a,
         QueryAt(h, d, ph, ow, q, a), h.handle[d] = d, h.hid[d].sdp = 0, ph # "over", ~h.key[d],
         Unasked(h.tx, ow, q, AskName(d), Owe("REMOTE_NAME", d), Named(d))
  PROVE  QueryAt(RemoteName(h, d), d, ph, ow, q, a)
<1> DEFINE c == h.cid
           s == NewChannel(h, d, "sdp")
           p == [t |-> "SIG", dev |-> d, handle |-> s.handle[d], code |-> "CONN_REQ",
                 scid |-> c, to |-> "sdp"]
           r == Write(s, p)
           t == [r EXCEPT !.sock[c].st = "OPENING"]
           z == [t EXCEPT !.hid[d].sdp = c, !.hid[d].state = "READING_SDP"]
<1>1. Asking(h, d, ph) /\ d # "paging" /\ d # "none" /\ c \in Nat \ {0} /\ "sdp" \in Psms
  BY Unlike DEF QueryAt, Good, HostOK, Psms
<1>2. RemoteName(h, d) = z
  <2>1. h.hid[d].reconnect = FALSE
    BY <1>1 DEF Asking
  <2>2. Signal(s, d, "CONN_REQ", c, "sdp") = r
    BY DEF Signal
  <2>3. L2Open(h, d, "sdp", FALSE) = SetState(r, c, "OPENING")
    BY <2>2 DEF L2Open, FreshCid, NewChannel
  <2>4. SetState(r, c, "OPENING") = t
    BY DEF SetState
  <2> HIDE DEF t, r, s
  <2>5. QED
    BY <2>1, <2>3, <2>4 DEF RemoteName, FreshCid
<1>3. /\ Good(s) /\ HostOK(s) /\ s.handle = h.handle /\ s.tx = h.tx /\ s.hid = h.hid
      /\ s.seen = h.seen /\ s.held = h.held
      /\ \A e \in Cids : e # c => s.sock[e] = h.sock[e]
  <2>1. /\ Steps(h, s) /\ s.tx = h.tx /\ s.hid = h.hid /\ s.seen = h.seen /\ s.held = h.held
        /\ \A e \in Cids : s.sock[e] = IF e = h.cid THEN [dev |-> d, psm |-> "sdp", st |-> "NONE",
                                        dcid |-> 0, q |-> <<>>, got |-> {}] ELSE h.sock[e]
    BY <1>1, ChannelAdded
  <2> HIDE DEF s
  <2>2. QED
    BY <2>1 DEF Steps, Good
<1>4. p.t = "SIG" /\ p.dev = d /\ p.scid = c /\ p # Create(d) /\ p # AskName(d)
  BY DEF Create, AskName
<1>5. Good(r)
  <2>1. Writes(s, Signal(s, d, "CONN_REQ", c, "sdp"))
    <3> HIDE DEF s
    <3>1. QED
      BY <1>1, <1>3, SignalWrites
  <2>2. Signal(s, d, "CONN_REQ", c, "sdp") = r
    BY DEF Signal
  <2> HIDE DEF r, s
  <2>3. QED
    BY <1>3, <2>1, <2>2, WritesSteps DEF Steps
<1> HIDE DEF s, p
<1>6. /\ r.handle = s.handle /\ r.seen = s.seen /\ r.sock = s.sock /\ r.hid = s.hid /\ r.held = s.held
      /\ \A i \in 1..Len(r.tx) : \/ i \in 1..Len(s.tx) /\ r.tx[i] = s.tx[i]
                                 \/ i = Len(s.tx) + 1 /\ r.tx[i] = p
  BY <1>3, WriteLast
<1> HIDE DEF r
<1>7. /\ t.handle = r.handle /\ t.seen = r.seen /\ t.hid = r.hid /\ t.held = r.held /\ t.tx = r.tx
      /\ DOMAIN t = HostFields /\ \A e \in Cids : e # c => t.sock[e] = r.sock[e]
  BY <1>5 DEF Good, HostOK, HostFields
<1>8. HostOK(r)
  BY <1>5 DEF Good
<1> HIDE DEF t
<1>9. /\ z.handle = t.handle /\ z.seen = t.seen /\ z.held = t.held /\ z.tx = t.tx /\ z.sock = t.sock
      /\ z.hid[d].sdp = c /\ z.hid[d].handler = h.hid[d].handler
      /\ z.hid[d].reconnect = h.hid[d].reconnect
      /\ z.hid[d].control = h.hid[d].control /\ z.hid[d].interrupt = h.hid[d].interrupt
  <2>1. t.hid = h.hid /\ DOMAIN h.hid = Dev /\ DOMAIN h.hid[d] = HidFields
    BY <1>3, <1>6, <1>7 DEF Good, HostOK, HidOK
  <2>2. QED
    BY <1>7, <2>1 DEF HostFields, HidFields
<1> HIDE DEF z
<1>10. \A i \in 1..Len(z.tx) : \/ i \in 1..Len(h.tx) /\ z.tx[i] = h.tx[i]
                               \/ i = Len(h.tx) + 1 /\ z.tx[i] = p
  BY <1>3, <1>6, <1>7, <1>9
<1>11. Asking(z, d, ph)
  <2>1. \A i \in 1..Len(z.tx) : MaySend(z.tx[i], d, ph, c)
    <3>1. \A x : MaySend(x, d, ph, 0) => MaySend(x, d, ph, c)
      BY DEF MaySend
    <3>2. MaySend(p, d, ph, c)
      BY <1>1, <1>4 DEF MaySend
    <3>3. QED
      BY <1>1, <1>10, <3>1, <3>2 DEF Asking
  <2>2. \A e \in Cids : z.sock[e].dev = d => e = c
    <3>1. \A e \in Cids : h.sock[e].dev # d
      BY <1>1 DEF Asking, Cids
    <3>2. QED
      BY <1>3, <1>6, <1>7, <1>9, <3>1
  <2>3. z.seen = h.seen /\ h.seen[d] = {} /\ z.handle = h.handle /\ z.held = h.held
    BY <1>1, <1>3, <1>6, <1>7, <1>9 DEF Asking
  <2>4. z.hid[d].handler = 0
    BY <1>1, <1>9 DEF Asking
  <2>5. ~Live(z, 0)
    BY DEF Live, Cids
  <2>6. QED
    BY <1>1, <1>9, <2>1, <2>2, <2>3, <2>4, <2>5 DEF Asking
<1>12. Stage(z, d, ph, ow, q)
  <2>1. z.handle[d] = d /\ z.hid[d].sdp # 0
    BY <1>1, <1>3, <1>6, <1>7, <1>9
  <2>2. Unasked(h.tx, ow, q, Create(d), Owe("PAGE", d), Made(d))
    BY <1>1 DEF QueryAt, Stage
  <2>3. Unasked(z.tx, ow, q, Create(d), Owe("PAGE", d), Made(d))
    <3>1. p # Create(d)
      BY <1>4
    <3> HIDE DEF p
    <3>2. OneMore(h.tx, z.tx, p)
      BY <1>10 DEF OneMore
    <3>3. QED
      BY <2>2, <3>1, <3>2, OtherAsked
  <2>4. Unasked(z.tx, ow, q, AskName(d), Owe("REMOTE_NAME", d), Named(d))
    <3>1. p # AskName(d)
      BY <1>4
    <3> HIDE DEF p
    <3>2. OneMore(h.tx, z.tx, p)
      BY <1>10 DEF OneMore
    <3>3. QED
      BY <1>10, <3>1, <3>2, OtherAsked
  <2>5. QED
    BY <1>1, <2>1, <2>3, <2>4 DEF Stage
<1>13. Coming(d, ph, c, ow, q, a)
  <2>1. \A x : MayCome(x, d, ph, 0) => MayCome(x, d, ph, c)
    BY DEF MayCome
  <2>2. Coming(d, ph, 0, ow, q, a)
    BY DEF QueryAt
  <2>3. QED
    BY <2>1, <2>2 DEF Coming
<1>14. QED
  BY <1>2, <1>9, <1>11, <1>12, <1>13 DEF QueryAt
-----------------------------------------------------------------------------
(* The query of a device when a packet is handled *)

LEMMA TailAsked ==
  ASSUME NEW S, NEW q \in Seq(S), q # <<>>, NEW t, NEW ow, NEW a, NEW o, NEW b
  PROVE  /\ Unasked(t, ow, q, a, o, b) => Unasked(t, ow, Tail(q), a, o, b) /\ Head(q) # b
         /\ AskedOnce(t, ow, q, a, o, b) =>
              /\ AskedOnce(t, ow, Tail(q), a, o, b)
              /\ Head(q) = b => Unasked(t, ow, Tail(q), a, o, b)
<1> DEFINE r == Tail(q)
<1>1. /\ Len(q) \in Nat \ {0} /\ Len(r) = Len(q) - 1 /\ Head(q) = q[1] /\ 1 \in 1..Len(q)
      /\ \A i \in 1..(Len(q) - 1) : r[i] = q[i + 1]
  OBVIOUS
<1> HIDE DEF r
<1>2. \A i \in 1..Len(r) : i + 1 \in 1..Len(q) /\ r[i] = q[i + 1] /\ i \in Nat
  BY <1>1
<1>3. Nowhere(q, b) => Nowhere(r, b) /\ Head(q) # b
  BY <1>1, <1>2 DEF Nowhere
<1>4. ASSUME Once(q, b) PROVE Once(r, b) /\ (Head(q) = b => Nowhere(r, b))
  <2>1. ASSUME NEW i \in 1..Len(r), NEW j \in 1..Len(r), r[i] = b, r[j] = b PROVE i = j
    <3>1. i + 1 = j + 1
      BY <1>2, <1>4, <2>1 DEF Once
    <3>2. QED
      BY <1>2, <3>1
  <2>2. ASSUME NEW i \in 1..Len(r), r[i] = b, Head(q) = b PROVE FALSE
    <3>1. i + 1 = 1
      BY <1>1, <1>2, <1>4, <2>2 DEF Once
    <3>2. QED
      BY <1>1, <3>1
  <2>3. QED
    BY <2>1, <2>2 DEF Once, Nowhere
<1>5. Unasked(t, ow, q, a, o, b) => Unasked(t, ow, r, a, o, b) /\ Head(q) # b
  BY <1>3 DEF Unasked
<1>6. ASSUME AskedOnce(t, ow, q, a, o, b)
      PROVE  /\ AskedOnce(t, ow, r, a, o, b)
             /\ Head(q) = b => Unasked(t, ow, r, a, o, b)
  <2>1. Once(t, a) /\ Once(r, b)
    BY <1>4, <1>6 DEF AskedOnce
  <2>2. Head(q) = b => Nowhere(r, b) /\ ~Nowhere(q, b)
    BY <1>3, <1>4, <1>6 DEF AskedOnce
  <2>3. QED
    BY <1>3, <1>6, <2>1, <2>2 DEF AskedOnce, Unasked
<1>7. QED
  BY <1>5, <1>6 DEF r

\* What packet p tells of the page of d, or its name, is not told again.
Popped(h, d, ph, ow, q, p) ==
  /\ MayCome(p, d, ph, h.hid[d].sdp)
  /\ p = Made(d) => /\ h.handle[d] = "paging"
                    /\ Unasked(h.tx, ow, q, Create(d), Owe("PAGE", d), Made(d))
  /\ p = Named(d) => /\ h.handle[d] = d /\ h.hid[d].sdp = 0
                     /\ Unasked(h.tx, ow, q, AskName(d), Owe("REMOTE_NAME", d), Named(d))
                     /\ ph # "over"

LEMMA PoppedQuery ==
  ASSUME NEW h, NEW d \in Dev, NEW ph, NEW ow, NEW S, NEW q \in Seq(S), q # <<>>, NEW a,
         QueryAt(h, d, ph, ow, q, a)
  PROVE  QueryAt(h, d, ph, ow, Tail(q), a) /\ Popped(h, d, ph, ow, Tail(q), Head(q))
<1> DEFINE r == Tail(q)
           p == Head(q)
<1>1. /\ \A i \in 1..Len(r) : i + 1 \in 1..Len(q) /\ r[i] = q[i + 1]
      /\ p = q[1] /\ 1 \in 1..Len(q)
  OBVIOUS
<1>2. \A c, o, b : /\ Unasked(h.tx, ow, q, c, o, b) => Unasked(h.tx, ow, r, c, o, b) /\ p # b
                   /\ AskedOnce(h.tx, ow, q, c, o, b) =>
                        /\ AskedOnce(h.tx, ow, r, c, o, b)
                        /\ p = b => Unasked(h.tx, ow, r, c, o, b)
  BY TailAsked
<1> HIDE DEF r, p
<1>3. Coming(d, ph, h.hid[d].sdp, ow, r, a) /\ MayCome(p, d, ph, h.hid[d].sdp)
  BY <1>1 DEF QueryAt, Coming
<1>4. Stage(h, d, ph, ow, r)
  BY <1>2 DEF QueryAt, Stage
<1>5. p = Made(d) => /\ h.handle[d] = "paging"
                     /\ Unasked(h.tx, ow, r, Create(d), Owe("PAGE", d), Made(d))
  BY <1>2 DEF QueryAt, Stage
<1>6. p = Named(d) => /\ h.handle[d] = d /\ h.hid[d].sdp = 0
                      /\ Unasked(h.tx, ow, r, AskName(d), Owe("REMOTE_NAME", d), Named(d))
                      /\ ph # "over"
  BY <1>2 DEF QueryAt, Stage
<1>7. QueryAt(h, d, ph, ow, r, a) /\ Popped(h, d, ph, ow, r, p)
  BY <1>3, <1>4, <1>5, <1>6 DEF QueryAt, Popped
<1>8. QED
  BY <1>7 DEF r, p

\* An event of the controller.
LEMMA EventQuery ==
  ASSUME NEW h, Good(h), NEW d \in Dev, NEW ph \in Phases, NEW ow, NEW q, NEW a,
         QueryAt(h, d, ph, ow, q, a), NEW p \in Told(KnownTo(h)), Popped(h, d, ph, ow, q, p)
  PROVE  QueryRight(HciEvent(h, p), d, ow, q, a)
<1> DEFINE e == p.dev
           s == HciEvent(h, p)
<1>1. Here(h, d, ph) /\ KnownTo(h) \subseteq Dev /\ MayCome(p, d, ph, h.hid[d].sdp)
  BY DEF QueryAt, Here, Good, HostOK, KnownTo, Popped
<1>2. ASSUME Spares(h, s, d, ph) PROVE QueryRight(s, d, ow, q, a)
  BY <1>2, SparesQuery DEF QueryRight
<1>3. CASE p.t = "COMPLETE"
  <2>1. s = CommandComplete(h, p.c) /\ p.c \in HostCommands
    BY <1>3, ToldFields DEF HciEvent, LinkEvents
  <2>2. QED
    BY <1>1, <1>2, <2>1, CommandCompleteSpares
<1>4. CASE p.t = "INQUIRY_DONE"
  <2>1. s = InquiryDone(h)
    BY <1>4 DEF HciEvent
  <2>2. QED
    BY <2>1, InquiryDoneQuery DEF QueryRight
<1>5. CASE p.t = "CONNECTION"
  <2>1. e \in KnownTo(h) /\ p.ok = TRUE /\ e \in Dev
    BY <1>1, <1>5, ToldFields DEF LinkEvents, MayCome
  <2>2. s = ConnectionComplete(h, e, TRUE)
    BY <1>5, <2>1 DEF HciEvent
  <2>3. CASE e # d
    BY <1>1, <1>2, <2>1, <2>2, <2>3, ConnectionCompleteSpares
  <2>4. CASE e = d
    <3>1. p = Made(d)
      BY <1>5, <2>1, <2>4 DEF Told, Made, LinkEvents
    <3>2. /\ h.handle[d] = "paging"
          /\ Unasked(h.tx, ow, q, Create(d), Owe("PAGE", d), Made(d))
      BY <3>1 DEF Popped
    <3>3. QueryAt(ConnectionComplete(h, d, TRUE), d, ph, ow, q, a)
      BY <2>1, <2>4, <3>2, ConnectedQuery
    <3>4. QED
      BY <2>2, <2>4, <3>3 DEF QueryRight
  <2>5. QED
    BY <2>3, <2>4
<1>6. CASE p.t = "REMOTE_NAME"
  <2>1. e \in Dev
    BY <1>6, ToldFields DEF LinkEvents
  <2>2. s = IF Contains(h.known, e) THEN RemoteName(h, e) ELSE h
    BY <1>6 DEF HciEvent
  <2>3. Spares(h, h, d, ph)
    BY <1>1, SparesItself
  <2>4. CASE ~Contains(h.known, e)
    BY <1>2, <2>2, <2>3, <2>4
  <2>5. CASE Contains(h.known, e) /\ e # d
    BY <1>1, <1>2, <2>1, <2>2, <2>5, RemoteNameSpares
  <2>6. CASE Contains(h.known, e) /\ e = d
    <3>1. p = Named(d)
      BY <1>6, <2>6 DEF Told, Named, LinkEvents
    <3>2. /\ h.handle[d] = d /\ h.hid[d].sdp = 0 /\ ph # "over"
          /\ Unasked(h.tx, ow, q, AskName(d), Owe("REMOTE_NAME", d), Named(d))
      BY <3>1 DEF Popped
    <3>3. h.key[d] => QueryAt(RemoteName(h, d), d, "over", ow, q, a)
      BY <3>2, KeyQuery
    <3>4. ~h.key[d] => QueryAt(RemoteName(h, d), d, ph, ow, q, a)
      BY <3>2, SdpQuery
    <3>5. QED
      BY <2>2, <2>6, <3>3, <3>4 DEF QueryRight, Phases
  <2>7. QED
    BY <2>4, <2>5, <2>6
<1>7. CASE p.t = "INQUIRY_RESULT"
  <2>1. s = AddDevice(h, e) /\ e \in Dev
    BY <1>7, ToldFields DEF HciEvent
  <2>2. QED
    BY <1>1, <1>2, <2>1, AddDeviceSpares
<1>8. CASE p.t \in AuthEvents
  <2>1. e \in Dev /\ (e # d \/ ph = "over")
    BY <1>1, <1>8, ToldFields DEF LinkEvents, AuthEvents, MayCome
  <2>2. Spares(h, h, d, ph)
    BY <1>1, SparesItself
  <2>3. CASE p.t = "AUTHENTICATION"
    <3>1. s = h \/ s = OpenChannels(h, e, FALSE)
      BY <2>3 DEF HciEvent, AuthenticationComplete
    <3>2. Spares(h, OpenChannels(h, e, FALSE), d, ph)
      BY <1>1, <2>1, OpenChannelsSpares
    <3>3. QED
      BY <1>2, <2>2, <3>1, <3>2
  <2>4. CASE p.t = "LINK_KEY_REQUEST"
    <3>1. s = CmdTo(h, "KEY_REPLY", e) \/ s = CmdTo(h, "KEY_NEG_REPLY", e)
      BY <2>4 DEF HciEvent
    <3>2. Spares(h, CmdTo(h, "KEY_REPLY", e), d, ph) /\ Spares(h, CmdTo(h, "KEY_NEG_REPLY", e), d, ph)
      BY <1>1, <2>1, CmdToSpares DEF LinkCommands
    <3>3. QED
      BY <1>2, <3>1, <3>2
  <2>5. CASE p.t = "PIN_CODE_REQUEST"
    <3>1. s = CmdTo(h, "PIN_REPLY", e)
      BY <2>5 DEF HciEvent
    <3>2. Spares(h, CmdTo(h, "PIN_REPLY", e), d, ph)
      BY <1>1, <2>1, CmdToSpares DEF LinkCommands
    <3>3. QED
      BY <1>2, <3>1, <3>2
  <2>6. CASE p.t = "LINK_KEY_NOTIFICATION"
    <3>1. /\ s.seen = h.seen /\ s.held = h.held /\ s.handle = h.handle /\ s.sock = h.sock
          /\ s.tx = h.tx /\ s.hid = h.hid
      BY <2>6 DEF HciEvent, Good, HostOK, HostFields
    <3>2. Moves(h, s)
      BY <2>6, EventHears DEF Hears
    <3> HIDE DEF s
    <3>3. Spares(h, s, d, ph)
      BY <1>1, <3>1, <3>2, AsideSpares DEF Moves
    <3>4. QED
      BY <1>2, <3>3 DEF s
  <2>7. QED
    BY <1>8, <2>3, <2>4, <2>5, <2>6 DEF AuthEvents
<1>9. QED
  BY <1>1, <1>3, <1>4, <1>5, <1>6, <1>7, <1>8, ToldFields DEF LinkEvents, AuthEvents, MayCome

\* Any packet: a signal comes from a device that is connected.
LEMMA ReceivedQuery ==
  ASSUME NEW h, Good(h), NEW ow, NEW q, NEW a, NEW p \in Packets(KnownTo(h)),
         \A d \in Dev : \E ph \in Phases : QueryAt(h, d, ph, ow, q, a) /\ Popped(h, d, ph, ow, q, p)
  PROVE  \A d \in Dev : QueryRight(Received(h, p), d, ow, q, a)
<1>1. ASSUME NEW d \in Dev PROVE QueryRight(Received(h, p), d, ow, q, a)
  <2>1. PICK ph \in Phases : QueryAt(h, d, ph, ow, q, a) /\ Popped(h, d, ph, ow, q, p)
    OBVIOUS
  <2>2. CASE p \in Told(KnownTo(h))
    <3>1. Received(h, p) = HciEvent(h, p)
      BY <2>2, ToldFields DEF Received
    <3>2. QED
      BY <2>1, <2>2, <3>1, EventQuery
  <2>3. CASE p \in Said
    <3> DEFINE e == p.dev
    <3>1. p.t \in {"SIG", "DATA"} /\ e \in Dev
      BY <2>3, SaidFields
    <3>2. p.t = "SIG" => Connected(h, e)
      <4>1. PICK x \in Phases : QueryAt(h, e, x, ow, q, a) /\ Popped(h, e, x, ow, q, p)
        BY <3>1
      <4>2. Asking(h, e, x) /\ MayCome(p, e, x, h.hid[e].sdp)
        BY <4>1 DEF QueryAt, Popped
      <4>3. QED
        BY <4>2 DEF Asking, MayCome, Connected
    <3>3. p.t = "SIG" => p.code # "CONN_REQ" /\ Mine(h, d, ph, e, p.scid)
      BY <2>1 DEF Popped, MayCome, Mine
    <3>4. Here(h, d, ph)
      BY <2>1 DEF QueryAt, Here
    <3>5. Spares(h, Acl(h, p), d, ph)
      BY <2>3, <3>2, <3>3, <3>4, AclSpares
    <3>6. Received(h, p) = Acl(h, p)
      BY <3>1 DEF Received
    <3>7. QED
      BY <2>1, <3>5, <3>6, SparesQuery DEF QueryRight
  <2>4. QED
    BY <2>2, <2>3 DEF Packets
<1>2. QED
  BY <1>1
-----------------------------------------------------------------------------
(* The query of a device when reports are fetched *)

LEMMA FindSlotSpares ==
  ASSUME NEW h, NEW d \in Dev, NEW ph, Here(h, d, ph), NEW e \in Dev, h.hid[e].interrupt # 0
  PROVE  Spares(h, FindSlot(h, e), d, ph)
<1> DEFINE none == \/ e \notin WiiDev \/ h.hid[e].slot # NoSlot
                   \/ \A i \in Slots : ~Takes(h, i)
<1>1. CASE none
  BY <1>1, SparesItself DEF FindSlot
<1>2. CASE ~none
  <2> DEFINE i == FirstFree(h)
             s == [h EXCEPT !.slot[i] = TRUE, !.hid[e].slot = i]
             c == h.hid[e].interrupt
             r == Send(s, c, "led")
  <2>1. i \in Slots /\ Takes(h, i)
    BY <1>2, FirstFreeTaken
  <2>2. FindSlot(h, e) = Send(r, c, "led")
    BY <1>2 DEF FindSlot
  <2> HIDE DEF i
  <2>3. Good(s)
    BY <1>2, <2>1, SlotTaken DEF Steps, Here
  <2>4. Beside(h, s, d, ph, e)
    <3>1. /\ DOMAIN s.hid = Dev /\ s.hid = [h.hid EXCEPT ![e].slot = i]
          /\ s.seen = h.seen /\ s.held = h.held /\ s.handle = h.handle
          /\ s.sock = h.sock /\ s.tx = h.tx
      BY DEF Here, Good, HostOK, HostFields
    <3>2. DOMAIN h.hid = Dev /\ DOMAIN h.hid[e] = HidFields
      BY DEF Here, Good, HostOK, HidOK
    <3> HIDE DEF s
    <3>3. \A x \in Dev : x # e => s.hid[x] = h.hid[x]
      BY <3>1, <3>2
    <3>4. \A f \in HidFields \ {"slot"} : s.hid[e][f] = h.hid[e][f]
      BY <3>1, <3>2
    <3>5. /\ s.hid[e].sdp = h.hid[e].sdp /\ s.hid[e].handler = h.hid[e].handler
          /\ s.hid[e].reconnect = h.hid[e].reconnect
          /\ s.hid[e].control = h.hid[e].control /\ s.hid[e].interrupt = h.hid[e].interrupt
      BY <3>4 DEF HidFields
    <3>6. QED
      BY <3>1, <3>3, <3>5 DEF Beside
  <2> HIDE DEF s, c
  <2>5. Spares(h, s, d, ph)
    BY <2>3, <2>4, BesideSpares
  <2>6. Spares(s, r, d, ph) /\ "led" \in Requests
    BY <2>5, SparesHere, SendSpares DEF Requests
  <2> HIDE DEF r
  <2>7. Spares(r, Send(r, c, "led"), d, ph)
    BY <2>6, SparesHere, SendSpares
  <2>8. QED
    BY <2>2, <2>5, <2>6, <2>7, SparesOn
<1>3. QED
  BY <1>1, <1>2

\* Its answer is complete: the query is over.
LEMMA SdpDoneQuery ==
  ASSUME NEW h, Good(h), NEW d \in Dev, NEW ph, NEW ow, NEW q, NEW a, NEW v,
         QueryAt(h, d, ph, ow, q, a), h.hid[d].sdp # 0
  PROVE  QueryAt([h EXCEPT !.hid[d].handler = 0, !.hid[d].sdp = 0, !.hid[d].state = v],
                 d, "over", ow, q, a)
<1> DEFINE s == [h EXCEPT !.hid[d].handler = 0, !.hid[d].sdp = 0, !.hid[d].state = v]
           k == h.hid[d].sdp
<1>1. /\ s.seen = h.seen /\ s.held = h.held /\ s.handle = h.handle /\ s.sock = h.sock /\ s.tx = h.tx
      /\ s.hid[d].sdp = 0 /\ s.hid[d].handler = 0 /\ s.hid[d].reconnect = h.hid[d].reconnect
  BY DEF Good, HostOK, HostFields, HidOK, HidFields
<1>2. d # "paging" /\ Asking(h, d, ph) /\ Stage(h, d, ph, ow, q) /\ Coming(d, ph, k, ow, q, a)
  BY Unlike DEF QueryAt
<1> HIDE DEF s
<1>3. h.handle[d] = d /\ ph # "over" /\ ~Live(s, 0)
  BY <1>2 DEF Asking, Live, Cids
<1>4. \A p : MaySend(p, d, ph, k) => MaySend(p, d, "over", 0)
  BY DEF MaySend
<1>5. \A p : MayCome(p, d, ph, k) => MayCome(p, d, "over", 0)
  BY DEF MayCome
<1>6. Asking(s, d, "over")
  BY <1>1, <1>2, <1>3, <1>4 DEF Asking
<1>7. Stage(s, d, "over", ow, q)
  BY <1>1, <1>2, <1>3 DEF Stage
<1>8. Coming(d, "over", 0, ow, q, a)
  BY <1>2, <1>5 DEF Coming
<1>9. QueryAt(s, d, "over", ow, q, a)
  BY <1>1, <1>6, <1>7, <1>8 DEF QueryAt
<1>10. QED
  BY <1>9 DEF s

LEMMA UpdateSdpQuery ==
  ASSUME NEW h, Good(h), NEW d \in Dev, NEW ph \in Phases, NEW ow, NEW q, NEW a,
         QueryAt(h, d, ph, ow, q, a), NEW e \in Dev
  PROVE  QueryRight(UpdateSdp(h, e), d, ow, q, a)
<1> DEFINE c == h.hid[e].handler
           k == h.hid[e].sdp
           rest == Tail(h.sock[c].q)
           s == [h EXCEPT !.sock[c].q = rest]
<1>1. Here(h, d, ph)
  BY DEF QueryAt, Here
<1>2. CASE ~Live(h, c) \/ h.sock[c].q = <<>>
  BY <1>2 DEF UpdateSdp, QueryRight
<1>3. CASE Live(h, c) /\ h.sock[c].q # <<>>
  <2> DEFINE b == L2Close(s, k, TRUE)
             z == [b EXCEPT !.hid[e].handler = 0, !.hid[e].sdp = 0, !.hid[e].state = "AUTHENTICATING"]
             f == Head(h.sock[c].q) = "last"
  <2>1. UpdateSdp(h, e) = IF f THEN AuthenticationRequested(z, e) ELSE Send(s, c, "query")
    BY <1>3 DEF UpdateSdp
  <2>2. rest \in Seq(Replied)
    BY <1>3, TailOfQueue
  <2>3. e = d => k # 0 /\ c = k
    BY <1>3 DEF QueryAt, Asking, Live, Cids
  <2> HIDE DEF rest, c, k, f
  <2>4. Spares(h, s, d, ph)
    BY <1>1, <2>2, QueueSpares
  <2> HIDE DEF s
  <2>5. Here(s, d, ph)
    BY <2>4, SparesHere
  <2>6. Spares(h, Send(s, c, "query"), d, ph)
    BY <2>4, <2>5, SendSpares, SparesOn DEF Requests
  <2>7. Spares(h, b, d, ph)
    BY <2>4, <2>5, L2CloseSpares, SparesOn
  <2> HIDE DEF b
  <2>8. Good(b) /\ QueryAt(b, d, ph, ow, q, a) /\ Here(b, d, ph) /\ HostOK(b)
    BY <2>7, SparesHere, SparesQuery
  <2>9. Good(z)
    BY <2>8, SdpDone DEF Steps
  <2>10. \E x \in Phases : QueryAt(z, d, x, ow, q, a) /\ (e # d \/ x = "over")
    <3>1. CASE e = d
      <4>1. b.hid[d].sdp # 0
        BY <2>3, <2>7, <3>1 DEF Spares, Apart, k
      <4>2. QueryAt(z, d, "over", ow, q, a)
        BY <2>8, <3>1, <4>1, SdpDoneQuery
      <4> HIDE DEF z
      <4>3. QED
        BY <4>2 DEF Phases
    <3>2. CASE e # d
      <4>1. Beside(b, z, d, ph, e)
        BY <2>8, <3>2 DEF Beside, HostOK, HostFields
      <4> HIDE DEF z
      <4>2. Spares(b, z, d, ph)
        BY <2>8, <2>9, <4>1, BesideSpares
      <4>3. QED
        BY <2>8, <3>2, <4>2, SparesQuery
    <3>3. QED
      BY <3>1, <3>2
  <2> HIDE DEF z
  <2>11. PICK x \in Phases : QueryAt(z, d, x, ow, q, a) /\ (e # d \/ x = "over")
    BY <2>10
  <2>12. Spares(z, AuthenticationRequested(z, e), d, x)
    BY <2>9, <2>11, AuthenticationRequestedSpares DEF QueryAt, Here
  <2>13. QueryAt(AuthenticationRequested(z, e), d, x, ow, q, a)
    BY <2>11, <2>12, SparesQuery
  <2>14. QueryAt(Send(s, c, "query"), d, ph, ow, q, a)
    BY <2>6, SparesQuery
  <2>15. QED
    BY <2>1, <2>13, <2>14 DEF QueryRight
<1>4. QED
  BY <1>2, <1>3

LEMMA GetFromQuery ==
  ASSUME NEW r, Good(r.h), NEW d \in Dev, NEW ow, NEW q, NEW a,
         QueryRight(r.h, d, ow, q, a), NEW e \in Dev
  PROVE  QueryRight(GetFrom(r, e).h, d, ow, q, a)
<1> DEFINE h == r.h
           c == h.hid[e].interrupt
           s == IF c # 0 /\ ~Live(h, c) THEN HidDisconnected(h, e) ELSE h
<1>1. PICK ph \in Phases : QueryAt(h, d, ph, ow, q, a)
  BY DEF QueryRight
<1>2. Here(h, d, ph)
  BY <1>1 DEF QueryAt, Here
<1>3. CASE r.done
  BY <1>3 DEF GetFrom
<1>4. CASE ~r.done /\ Live(h, c) /\ h.sock[c].q # <<>>
  <2> DEFINE rest == Tail(h.sock[c].q)
             x == [h EXCEPT !.sock[c].q = rest]
  <2>1. GetFrom(r, e).h = FindSlot(x, e)
    BY <1>4 DEF GetFrom
  <2>2. rest \in Seq(Replied) /\ c # 0
    BY <1>4, TailOfQueue DEF Live, Cids
  <2> HIDE DEF rest
  <2>3. Spares(h, x, d, ph) /\ Edits(h, x)
    BY <1>2, <2>2, QueueSpares, QueueEdits DEF Good
  <2> HIDE DEF x
  <2>4. x.hid[e].interrupt # 0 /\ Here(x, d, ph)
    BY <2>2, <2>3, SparesHere DEF Edits, Keeps
  <2>5. Spares(h, FindSlot(x, e), d, ph)
    BY <2>3, <2>4, FindSlotSpares, SparesOn
  <2>6. QueryAt(FindSlot(x, e), d, ph, ow, q, a)
    BY <1>1, <2>5, SparesQuery
  <2>7. QED
    BY <2>1, <2>6 DEF QueryRight
<1>5. CASE ~r.done /\ ~(Live(h, c) /\ h.sock[c].q # <<>>)
  <2>1. GetFrom(r, e).h = IF s.hid[e].sdp # 0 THEN UpdateSdp(s, e) ELSE s
    BY <1>5 DEF GetFrom
  <2>2. c # 0 => e # d \/ ph = "over"
    BY <1>1 DEF QueryAt, Asking
  <2>3. Spares(h, h, d, ph) /\ (c # 0 => Spares(h, HidDisconnected(h, e), d, ph))
    BY <1>2, <2>2, SparesItself, HidDisconnectedSpares
  <2>4. Spares(h, s, d, ph)
    BY <2>3
  <2> HIDE DEF s
  <2>5. Good(s) /\ QueryAt(s, d, ph, ow, q, a)
    BY <1>1, <2>4, SparesHere, SparesQuery
  <2>6. QueryRight(UpdateSdp(s, e), d, ow, q, a) /\ QueryRight(s, d, ow, q, a)
    BY <2>5, UpdateSdpQuery DEF QueryRight
  <2>7. QED
    BY <2>1, <2>6
<1>6. QED
  BY <1>3, <1>4, <1>5

LEMMA GetQuery ==
  ASSUME NEW h, Good(h), NEW d \in Dev, NEW ow, NEW q, NEW a, QueryRight(h, d, ow, q, a)
  PROVE  QueryRight(Get(h), d, ow, q, a)
<1> DEFINE N == Len(h.known)
           Goal(r) == Steps(h, r.h) /\ QueryRight(r.h, d, ow, q, a)
           start == [h |-> h, done |-> FALSE]
<1>1. N \in Nat /\ \A n \in 1..N : h.known[n] \in Dev
  BY DEF Good, HostOK
<1>2. PICK upTo : /\ upTo[0] = start
                  /\ \A n \in 1..N : upTo[n] = GetFrom(upTo[n - 1], h.known[n])
                  /\ Get(h) = upTo[N].h
  BY GetTurns
<1>3. Goal(start)
  BY DEF Steps
<1>4. ASSUME NEW r, NEW n \in 1..N, Goal(r) PROVE Goal(GetFrom(r, h.known[n]))
  <2>1. Good(r.h) /\ h.known[n] \in Dev
    BY <1>1, <1>4 DEF Steps
  <2>2. Steps(r.h, GetFrom(r, h.known[n]).h)
    BY <2>1, GetFromSteps
  <2>3. QueryRight(GetFrom(r, h.known[n]).h, d, ow, q, a)
    BY <1>4, <2>1, GetFromQuery
  <2>4. QED
    BY <1>4, <2>2, <2>3, StepsOn
<1> HIDE DEF Goal, start, N
<1>5. \A n \in 0..N : Goal(upTo[n])
  <2> DEFINE T == {n \in 0..N : ~Goal(upTo[n])}
  <2>1. SUFFICES ASSUME T # {} PROVE FALSE
    OBVIOUS
  <2>2. T \in SUBSET Nat
    BY <1>1
  <2> HIDE DEF T
  <2>3. PICK m \in T : \A k \in T : m <= k
    BY <2>1, <2>2, Smallest
  <2> USE DEF T
  <2>4. m \in 0..N /\ m # 0
    BY <1>2, <1>3, <2>3
  <2>5. m \in 1..N /\ m - 1 \in 0..N
    BY <1>1, <2>4
  <2>6. m - 1 \notin T
    BY <2>2, <2>3, <2>5
  <2>7. Goal(upTo[m - 1])
    BY <2>5, <2>6
  <2>8. Goal(upTo[m])
    BY <1>2, <1>4, <2>5, <2>7
  <2>9. QED
    BY <2>3, <2>8
<1>6. QED
  BY <1>1, <1>2, <1>5 DEF Goal, N
-----------------------------------------------------------------------------
(* The query of a device while the controller and the devices go on *)

\* A command goes out, and O is owed for it.
LEMMA SentAsked ==
  ASSUME NEW S, NEW t \in Seq(S), t # <<>>, NEW ow, NEW q, NEW a, NEW o, NEW b, NEW O,
         o \in O => Head(t) = a
  PROVE  /\ Unasked(t, ow, q, a, o, b) => Unasked(Tail(t), ow \cup O, q, a, o, b)
         /\ AskedOnce(t, ow, q, a, o, b) => AskedOnce(Tail(t), ow \cup O, q, a, o, b)
<1> DEFINE u == Tail(t)
<1>1. /\ Len(t) \in Nat \ {0} /\ Len(u) = Len(t) - 1 /\ Head(t) = t[1] /\ 1 \in 1..Len(t)
      /\ \A i \in 1..(Len(t) - 1) : u[i] = t[i + 1]
  OBVIOUS
<1> HIDE DEF u
<1>2. \A i \in 1..Len(u) : i + 1 \in 1..Len(t) /\ u[i] = t[i + 1] /\ i \in Nat
  BY <1>1
<1>3. Nowhere(t, a) => Nowhere(u, a) /\ Head(t) # a
  BY <1>1, <1>2 DEF Nowhere
<1>4. ASSUME Once(t, a) PROVE Once(u, a) /\ (Head(t) = a => Nowhere(u, a))
  <2>1. ASSUME NEW i \in 1..Len(u), NEW j \in 1..Len(u), u[i] = a, u[j] = a PROVE i = j
    <3>1. i + 1 = j + 1
      BY <1>2, <1>4, <2>1 DEF Once
    <3>2. QED
      BY <1>2, <3>1
  <2>2. ASSUME NEW i \in 1..Len(u), u[i] = a, Head(t) = a PROVE FALSE
    <3>1. i + 1 = 1
      BY <1>1, <1>2, <1>4, <2>2 DEF Once
    <3>2. QED
      BY <1>1, <3>1
  <2>3. QED
    BY <2>1, <2>2 DEF Once, Nowhere
<1>5. Unasked(t, ow, q, a, o, b) => Unasked(u, ow \cup O, q, a, o, b)
  BY <1>3 DEF Unasked
<1>6. ASSUME AskedOnce(t, ow, q, a, o, b) PROVE AskedOnce(u, ow \cup O, q, a, o, b)
  <2>1. Once(u, a) /\ Once(q, b) /\ (Nowhere(u, a) \/ Nowhere(q, b))
    BY <1>3, <1>4, <1>6 DEF AskedOnce
  <2>2. CASE Head(t) = a
    BY <1>3, <1>4, <1>6, <2>1, <2>2 DEF AskedOnce
  <2>3. CASE Head(t) # a
    BY <1>3, <1>6, <2>1, <2>3 DEF AskedOnce
  <2>4. QED
    BY <2>2, <2>3
<1>7. QED
  BY <1>5, <1>6 DEF u

\* A packet p comes, and v is owed.
LEMMA ToldAsked ==
  ASSUME NEW S, NEW q \in Seq(S), NEW p \in S, NEW t, NEW ow, NEW v, NEW a, NEW o, NEW b,
         o \in v => o \in ow, p = b => o \in ow /\ o \notin v
  PROVE  /\ Unasked(t, ow, q, a, o, b) => Unasked(t, v, Append(q, p), a, o, b)
         /\ AskedOnce(t, ow, q, a, o, b) => AskedOnce(t, v, Append(q, p), a, o, b)
<1> DEFINE r == Append(q, p)
<1>1. \A i \in 1..Len(r) : \/ i \in 1..Len(q) /\ r[i] = q[i]
                           \/ i = Len(q) + 1 /\ r[i] = p
  OBVIOUS
<1> HIDE DEF r
<1>2. p # b => (Nowhere(q, b) => Nowhere(r, b)) /\ (Once(q, b) => Once(r, b))
  BY <1>1 DEF Nowhere, Once
<1>3. Nowhere(q, b) => Once(r, b)
  BY <1>1 DEF Nowhere, Once
<1>4. Unasked(t, ow, q, a, o, b) => Unasked(t, v, r, a, o, b)
  BY <1>2 DEF Unasked
<1>5. ASSUME AskedOnce(t, ow, q, a, o, b) PROVE AskedOnce(t, v, r, a, o, b)
  <2>1. CASE p = b
    BY <1>3, <1>5, <2>1 DEF AskedOnce
  <2>2. CASE p # b
    BY <1>2, <1>5, <2>2 DEF AskedOnce
  <2>3. QED
    BY <2>1, <2>2
<1>6. QED
  BY <1>4, <1>5 DEF r

\* What the page of d, and its name, make of it.
LEMMA ToldQuery ==
  ASSUME NEW h, NEW d \in Dev, NEW ph, NEW ow, NEW v, NEW S, NEW q \in Seq(S), NEW p \in S, NEW a, NEW b,
         QueryAt(h, d, ph, ow, q, a),
         Owe("PAGE", d) \in v => Owe("PAGE", d) \in ow,
         p = Made(d) => Owe("PAGE", d) \in ow /\ Owe("PAGE", d) \notin v,
         Owe("REMOTE_NAME", d) \in v => Owe("REMOTE_NAME", d) \in ow,
         p = Named(d) => Owe("REMOTE_NAME", d) \in ow /\ Owe("REMOTE_NAME", d) \notin v,
         MayCome(p, d, ph, h.hid[d].sdp), \A o \in v : MayCome(o, d, ph, h.hid[d].sdp),
         \A e \in Dev : \A i \in 1..Len(b[e]) : MayCome(b[e][i], d, ph, h.hid[d].sdp)
  PROVE  QueryAt(h, d, ph, v, Append(q, p), b)
<1> DEFINE r == Append(q, p)
           k == h.hid[d].sdp
<1>1. \A i \in 1..Len(r) : (i \in 1..Len(q) /\ r[i] = q[i]) \/ r[i] = p
  OBVIOUS
<1>2. /\ Unasked(h.tx, ow, q, Create(d), Owe("PAGE", d), Made(d))
           => Unasked(h.tx, v, r, Create(d), Owe("PAGE", d), Made(d))
      /\ AskedOnce(h.tx, ow, q, Create(d), Owe("PAGE", d), Made(d))
           => AskedOnce(h.tx, v, r, Create(d), Owe("PAGE", d), Made(d))
  BY ToldAsked
<1>3. /\ Unasked(h.tx, ow, q, AskName(d), Owe("REMOTE_NAME", d), Named(d))
           => Unasked(h.tx, v, r, AskName(d), Owe("REMOTE_NAME", d), Named(d))
      /\ AskedOnce(h.tx, ow, q, AskName(d), Owe("REMOTE_NAME", d), Named(d))
           => AskedOnce(h.tx, v, r, AskName(d), Owe("REMOTE_NAME", d), Named(d))
  BY ToldAsked
<1> HIDE DEF r
<1>4. Stage(h, d, ph, v, r)
  BY <1>2, <1>3 DEF QueryAt, Stage
<1>5. \A i \in 1..Len(q) : MayCome(q[i], d, ph, k)
  BY DEF QueryAt, Coming
<1>6. Coming(d, ph, k, v, r, b)
  BY <1>1, <1>5 DEF Coming
<1>7. QueryAt(h, d, ph, v, r, b)
  BY <1>4, <1>6 DEF QueryAt
<1>8. QED
  BY <1>7 DEF r

\* No step makes trouble less than none, and one that makes some is not quiet.
LEMMA GoesQuiet ==
  ASSUME QuietInv, NEW n \in Nat, Goes(n)
  PROVE  trouble' \in 0..Trouble /\ (trouble' = Trouble => Quiet /\ n = 0)
  BY BluetoothAssumption DEF QuietInv, Goes, Quiet

LEMMA PostQuiet ==
  ASSUME QuietInv, NEW n \in Nat, NEW p, PostWrong(p, n)
  PROVE  /\ trouble' \in 0..Trouble
         /\ trouble' = Trouble => Quiet /\ n = 0 /\ rx' = Append(rx, p)
<1>1. CASE Len(rx) < RxSize
  BY <1>1, GoesQuiet DEF PostWrong
<1>2. CASE ~(Len(rx) < RxSize)
  <2>1. n + 1 \in Nat /\ Goes(n + 1) /\ n + 1 # 0
    BY <1>2 DEF PostWrong
  <2>2. QED
    BY <2>1, GoesQuiet
<1>3. QED
  BY <1>1, <1>2

\* What there is to show of a step.
LEMMA QuietStays ==
  ASSUME trouble' \in 0..Trouble,
         trouble' = Trouble => \A d \in Dev : QueryRight(host', d, owed', rx', air')
  PROVE  QuietInv'
  BY DEF QuietInv, Quiet

LEMMA QuietQuery ==
  ASSUME QuietInv, Quiet
  PROVE  \A d \in Dev : \E ph \in Phases : QueryAt(host, d, ph, owed, rx, air)
  BY DEF QuietInv, QueryRight

LEMMA AnswerQuiet ==
  ASSUME BluetoothInv, QuietInv, NEW o \in owed, Answer(o)
  PROVE  QuietInv'
<1> DEFINE K == KnownTo(host)
           e == o.dev
<1>1. /\ owed \subseteq Owed(K) /\ o \in Owed(K) /\ rx \in Seq(Packets(K))
  BY DEF BluetoothInv
<1>2. host' = host /\ air' = air
  BY DEF Answer
<1>3. PICK fails \in BOOLEAN :
        LET up == e \in link
            n == IF fails THEN 1 ELSE 0
            result == PostWrong([t |-> "CONNECTION", dev |-> e, ok |-> ~fails], n)
        IN  \/ /\ o.t = "PAGE" /\ (up => fails)
               /\ link' = IF fails THEN link ELSE link \cup {e}
               /\ owed' = owed \ {o}
               /\ result
            \/ /\ o.t = "ACCEPTING" /\ ~up
               /\ link' = IF fails THEN link ELSE link \cup {e}
               /\ owed' = owed \ {o}
               /\ result
            \/ /\ o.t = "LINK_KEY_NOTIFICATION" /\ ~fails
               /\ owed' = (owed \ {o}) \cup {Owe("AUTHENTICATION", e)}
               /\ Post(o) /\ UNCHANGED link
            \/ /\ o.t \notin {"PAGE", "ACCEPTING", "LINK_KEY_NOTIFICATION"} /\ ~fails
               /\ owed' = owed \ {o}
               /\ Post(o) /\ UNCHANGED link
  BY DEF Answer
<1> DEFINE n == IF fails THEN 1 ELSE 0
           p == IF o.t \in {"PAGE", "ACCEPTING"} THEN [t |-> "CONNECTION", dev |-> e, ok |-> ~fails] ELSE o
<1>4. /\ PostWrong(p, n) /\ n \in Nat
      /\ owed' = (owed \ {o}) \cup (IF o.t = "LINK_KEY_NOTIFICATION" THEN {Owe("AUTHENTICATION", e)} ELSE {})
  BY <1>3 DEF Post
<1>5. p \in Packets(K)
  BY <1>1, OwedTold DEF Packets, Told
<1>6. /\ trouble' \in 0..Trouble
      /\ trouble' = Trouble => Quiet /\ n = 0 /\ rx' = Append(rx, p)
  <2> HIDE DEF n, p
  <2>1. QED
    BY <1>4, PostQuiet
<1>7. ASSUME trouble' = Trouble, NEW d \in Dev
      PROVE  QueryRight(host', d, owed', rx', air')
  <2>1. Quiet /\ ~fails
    BY <1>6, <1>7
  <2>2. PICK ph \in Phases : QueryAt(host, d, ph, owed, rx, air)
    BY <2>1, QuietQuery
  <2> DEFINE k == host.hid[d].sdp
  <2>3. /\ \A x \in owed : MayCome(x, d, ph, k)
        /\ \A x \in Dev : \A i \in 1..Len(air[x]) : MayCome(air[x][i], d, ph, k)
    BY <2>2 DEF QueryAt, Coming
  <2>4. MayCome(o, d, ph, k)
    BY <2>3
  <2>5. o.t # "ACCEPTING"
    BY <2>4 DEF MayCome
  <2> HIDE DEF k
  <2>6. MayCome(p, d, ph, k)
    BY <2>1, <2>4 DEF MayCome, AuthEvents
  <2>7. ASSUME NEW x \in owed' PROVE MayCome(x, d, ph, k)
    <3>1. CASE x \in owed
      BY <2>3, <3>1
    <3>2. CASE x \notin owed
      <4>1. x = Owe("AUTHENTICATION", e) /\ o.t = "LINK_KEY_NOTIFICATION"
        BY <1>4, <3>2
      <4>2. QED
        BY <2>4, <4>1 DEF MayCome, Owe, AuthEvents
    <3>3. QED
      BY <3>1, <3>2
  <2>8. /\ Owe("PAGE", d) \in owed' => Owe("PAGE", d) \in owed
        /\ Owe("REMOTE_NAME", d) \in owed' => Owe("REMOTE_NAME", d) \in owed
    BY <1>4 DEF Owe
  <2>9. ASSUME p = Made(d) PROVE o = Owe("PAGE", d)
    <3>1. p.t = "CONNECTION" /\ p.dev = d
      BY <2>9 DEF Made
    <3>2. o.t = "PAGE" /\ e = d
      BY <1>1, <2>5, <3>1, OwedTold
    <3>3. QED
      BY <1>1, <3>2 DEF Owed, Owe, LinkEvents
  <2>10. ASSUME p = Named(d) PROVE o = Owe("REMOTE_NAME", d)
    <3>1. p.t = "REMOTE_NAME" /\ p.dev = d
      BY <2>10 DEF Named
    <3>2. p = o
      BY <3>1
    <3>3. QED
      BY <2>10, <3>2 DEF Named, Owe
  <2>11. /\ p = Made(d) => Owe("PAGE", d) \in owed /\ Owe("PAGE", d) \notin owed'
         /\ p = Named(d) => Owe("REMOTE_NAME", d) \in owed /\ Owe("REMOTE_NAME", d) \notin owed'
    BY <1>4, <2>9, <2>10 DEF Owe
  <2> HIDE DEF p
  <2>12. QueryAt(host, d, ph, owed', Append(rx, p), air)
    BY <1>1, <1>5, <2>2, <2>3, <2>6, <2>7, <2>8, <2>11, ToldQuery DEF k
  <2>13. QED
    BY <1>2, <1>6, <1>7, <2>12 DEF QueryRight
<1>8. QED
  BY <1>6, <1>7, QuietStays

\* A packet comes that is no answer, and what is on the air gets no worse.
LEMMA PostedQuiet ==
  ASSUME BluetoothInv, QuietInv, NEW p \in Packets(KnownTo(host)), PostWrong(p, 0),
         UNCHANGED <<host, owed>>, p.t \notin {"CONNECTION", "REMOTE_NAME"},
         \A d \in Dev, ph \in Phases : QueryAt(host, d, ph, owed, rx, air) =>
            /\ MayCome(p, d, ph, host.hid[d].sdp)
            /\ \A e \in Dev : \A i \in 1..Len(air'[e]) : MayCome(air'[e][i], d, ph, host.hid[d].sdp)
  PROVE  QuietInv'
<1>1. /\ trouble' \in 0..Trouble
      /\ trouble' = Trouble => Quiet /\ rx' = Append(rx, p)
  BY PostQuiet
<1>2. rx \in Seq(Packets(KnownTo(host)))
  BY DEF BluetoothInv
<1>3. ASSUME trouble' = Trouble, NEW d \in Dev
      PROVE  QueryRight(host', d, owed', rx', air')
  <2>1. PICK ph \in Phases : QueryAt(host, d, ph, owed, rx, air)
    BY <1>1, <1>3, QuietQuery
  <2>2. /\ MayCome(p, d, ph, host.hid[d].sdp)
        /\ \A e \in Dev : \A i \in 1..Len(air'[e]) : MayCome(air'[e][i], d, ph, host.hid[d].sdp)
    BY <2>1
  <2>3. p # Made(d) /\ p # Named(d)
    BY DEF Made, Named
  <2>4. \A o \in owed : MayCome(o, d, ph, host.hid[d].sdp)
    BY <2>1 DEF QueryAt, Coming
  <2>5. QueryAt(host, d, ph, owed, Append(rx, p), air')
    BY <1>2, <2>1, <2>2, <2>3, <2>4, ToldQuery
  <2>6. QED
    BY <1>1, <1>3, <2>5 DEF QueryRight
<1>4. QED
  BY <1>1, <1>3, QuietStays

LEMMA InquiryResultQuiet ==
  ASSUME BluetoothInv, QuietInv, NEW e \in Dev, InquiryResult(e)
  PROVE  QuietInv'
<1> DEFINE p == [t |-> "INQUIRY_RESULT", dev |-> e]
<1>1. p \in Packets(KnownTo(host)) /\ p.t = "INQUIRY_RESULT"
  BY DEF Packets, Told
<1>2. PostWrong(p, 0) /\ UNCHANGED <<host, owed, air>>
  BY DEF InquiryResult, Post
<1> HIDE DEF p
<1>3. \A d \in Dev : \A ph, k : MayCome(p, d, ph, k)
  BY <1>1 DEF MayCome, AuthEvents
<1>4. ASSUME NEW d \in Dev, NEW ph \in Phases, QueryAt(host, d, ph, owed, rx, air)
      PROVE  \A x \in Dev : \A i \in 1..Len(air'[x]) : MayCome(air'[x][i], d, ph, host.hid[d].sdp)
  BY <1>2, <1>4 DEF QueryAt, Coming
<1>5. QED
  BY <1>1, <1>2, <1>3, <1>4, PostedQuiet

LEMMA ArriveQuiet ==
  ASSUME BluetoothInv, QuietInv, NEW e \in Dev, Arrive(e)
  PROVE  QuietInv'
<1> DEFINE p == Head(air[e])
<1>1. air \in [Dev -> Seq(Said)] /\ air[e] \in Seq(Said) /\ air[e] # <<>>
  BY Parts DEF Arrive
<1>2. /\ p \in Said /\ p = air[e][1] /\ 1 \in 1..Len(air[e])
      /\ \A i \in 1..Len(Tail(air[e])) : i + 1 \in 1..Len(air[e]) /\ Tail(air[e])[i] = air[e][i + 1]
  BY <1>1
<1>3. PostWrong(p, 0) /\ UNCHANGED <<host, owed>> /\ air' = [air EXCEPT ![e] = Tail(@)]
  BY DEF Arrive, Post
<1> HIDE DEF p
<1>4. p \in Packets(KnownTo(host)) /\ p.t \notin {"CONNECTION", "REMOTE_NAME"}
  BY <1>2, SaidFields DEF Packets
<1>5. ASSUME NEW d \in Dev, NEW ph \in Phases, QueryAt(host, d, ph, owed, rx, air)
      PROVE  /\ MayCome(p, d, ph, host.hid[d].sdp)
             /\ \A x \in Dev : \A i \in 1..Len(air'[x]) : MayCome(air'[x][i], d, ph, host.hid[d].sdp)
  <2>1. \A x \in Dev : \A i \in 1..Len(air[x]) : MayCome(air[x][i], d, ph, host.hid[d].sdp)
    BY <1>5 DEF QueryAt, Coming
  <2>2. \A x \in Dev : air'[x] = IF x = e THEN Tail(air[e]) ELSE air[x]
    BY <1>1, <1>3
  <2>3. QED
    BY <1>2, <2>1, <2>2
<1>6. QED
  BY <1>3, <1>4, <1>5, PostedQuiet

LEMMA ReportsQuiet ==
  ASSUME BluetoothInv, QuietInv, NEW e \in Dev, NEW c \in Cids, Reports(e, c)
  PROVE  QuietInv'
<1> DEFINE p == [t |-> "DATA", dev |-> e, scid |-> c, what |-> "report"]
<1>1. Says(e, p) /\ UNCHANGED <<host, rx, owed, trouble>>
  BY DEF Reports
<1>2. \A d \in Dev : \A ph, k : MayCome(p, d, ph, k)
  BY DEF MayCome, AuthEvents
<1> HIDE DEF p
<1>3. air \in [Dev -> Seq(Said)] /\ air' = [air EXCEPT ![e] = Append(@, p)]
  BY <1>1, Parts DEF Says
<1>4. ASSUME NEW x \in Dev, NEW i \in 1..Len(air'[x])
      PROVE  (i \in 1..Len(air[x]) /\ air'[x][i] = air[x][i]) \/ air'[x][i] = p
  <2>1. air[e] \in Seq(Said) /\ air'[x] = IF x = e THEN Append(air[e], p) ELSE air[x]
    BY <1>3
  <2>2. QED
    BY <2>1
<1>5. ASSUME NEW d \in Dev, NEW ph \in Phases, QueryAt(host, d, ph, owed, rx, air)
      PROVE  QueryAt(host, d, ph, owed, rx, air')
  BY <1>2, <1>4, <1>5 DEF QueryAt, Coming
<1>6. \A d \in Dev : QueryRight(host, d, owed, rx, air) => QueryRight(host, d, owed, rx, air')
  BY <1>5 DEF QueryRight
<1>7. QED
  BY <1>1, <1>6 DEF QuietInv, Quiet

\* A packet has gone out, o is owed for it, and the devices have answered.
LEMMA SentQuery ==
  ASSUME NEW h, Good(h), h.tx # <<>>, NEW d \in Dev, NEW ph, NEW ow, NEW q, NEW a, NEW O, NEW b,
         QueryAt(h, d, ph, ow, q, a),
         Owe("PAGE", d) \in O => Head(h.tx) = Create(d),
         Owe("REMOTE_NAME", d) \in O => Head(h.tx) = AskName(d),
         \A o \in O : MayCome(o, d, ph, h.hid[d].sdp),
         \A e \in Dev : \A i \in 1..Len(b[e]) : MayCome(b[e][i], d, ph, h.hid[d].sdp)
  PROVE  QueryAt([h EXCEPT !.tx = Tail(@)], d, ph, ow \cup O, q, b)
<1> DEFINE t == h.tx
           u == Tail(t)
           s == [h EXCEPT !.tx = u]
           k == h.hid[d].sdp
<1>1. /\ s.seen = h.seen /\ s.held = h.held /\ s.handle = h.handle /\ s.sock = h.sock
      /\ s.hid = h.hid /\ s.tx = u
  BY DEF Good, HostOK, HostFields
<1>2. t \in Seq(Sent(KnownTo(h))) /\ t # <<>>
  BY DEF Good, HostOK
<1> HIDE DEF s
<1>3. \A i \in 1..Len(u) : i + 1 \in 1..Len(t) /\ u[i] = t[i + 1]
  <2> HIDE DEF t
  <2>1. QED
    BY <1>2
<1>4. /\ Unasked(t, ow, q, Create(d), Owe("PAGE", d), Made(d))
           => Unasked(u, ow \cup O, q, Create(d), Owe("PAGE", d), Made(d))
      /\ AskedOnce(t, ow, q, Create(d), Owe("PAGE", d), Made(d))
           => AskedOnce(u, ow \cup O, q, Create(d), Owe("PAGE", d), Made(d))
  BY <1>2, SentAsked
<1>5. /\ Unasked(t, ow, q, AskName(d), Owe("REMOTE_NAME", d), Named(d))
           => Unasked(u, ow \cup O, q, AskName(d), Owe("REMOTE_NAME", d), Named(d))
      /\ AskedOnce(t, ow, q, AskName(d), Owe("REMOTE_NAME", d), Named(d))
           => AskedOnce(u, ow \cup O, q, AskName(d), Owe("REMOTE_NAME", d), Named(d))
  BY <1>2, SentAsked
<1> HIDE DEF u
<1>6. Stage(s, d, ph, ow \cup O, q)
  BY <1>1, <1>4, <1>5 DEF QueryAt, Stage
<1>7. \A i \in 1..Len(u) : MaySend(u[i], d, ph, k)
  BY <1>3 DEF QueryAt, Asking
<1>8. Asking(s, d, ph)
  BY <1>1, <1>7 DEF QueryAt, Asking, Live
<1>9. Coming(d, ph, k, ow \cup O, q, b)
  BY DEF QueryAt, Coming
<1>10. QueryAt(s, d, ph, ow \cup O, q, b)
  BY <1>1, <1>6, <1>8, <1>9 DEF QueryAt
<1>11. QED
  BY <1>10 DEF s, u

\* What is owed for a command.
LEMMA OwesQuery ==
  ASSUME NEW K, NEW p \in Sent(K), p.t = "CMD", NEW d \in Dev, NEW ph, NEW k, MaySend(p, d, ph, k)
  PROVE  /\ \A o \in Owes(p) : MayCome(o, d, ph, k)
         /\ Owe("PAGE", d) \in Owes(p) => p = Create(d)
         /\ Owe("REMOTE_NAME", d) \in Owes(p) => p = AskName(d)
<1>1. p.c # "ACCEPT" /\ (p.dev = d => ph = "over" \/ p.c \in {"CREATE", "NAME"})
  BY DEF MaySend
<1>2. \A o \in Owes(p) : MayCome(o, d, ph, k)
  BY <1>1 DEF Owes, Owe, MayCome, AuthEvents
<1>3. Owe("PAGE", d) \in Owes(p) => p.c = "CREATE" /\ p.dev = d
  BY <1>1 DEF Owes, Owe
<1>4. Owe("REMOTE_NAME", d) \in Owes(p) => p.c = "NAME" /\ p.dev = d
  BY <1>1 DEF Owes, Owe
<1>5. p.c = "CREATE" /\ p.dev = d => p = Create(d)
  BY DEF Sent, Create, LinkCommands, HostCommands
<1>6. p.c = "NAME" /\ p.dev = d => p = AskName(d)
  BY DEF Sent, AskName, PageCommands, HostCommands
<1>7. QED
  BY <1>2, <1>3, <1>4, <1>5, <1>6

\* What is answered to a packet.
LEMMA RepliesQuery ==
  ASSUME NEW K, NEW p \in Sent(K), p.t # "CMD", NEW d \in Dev, NEW ph, NEW k, MaySend(p, d, ph, k),
         NEW r \in Replies(p)
  PROVE  \A i \in 1..Len(r) : MayCome(r[i], d, ph, k)
<1> DEFINE e == p.dev
           sig(code, s) == [t |-> "SIG", dev |-> e, code |-> code, scid |-> p.scid,
                            dcid |-> p.scid, status |-> s]
           data(w) == [t |-> "DATA", dev |-> e, scid |-> p.scid, what |-> w]
           Fine(x) == MayCome(x, d, ph, k)
<1>1. \A w : Fine(data(w))
  BY DEF MayCome, AuthEvents
<1>2. ASSUME p.t = "SIG", NEW code, code # "CONN_REQ", NEW s PROVE Fine(sig(code, s))
  BY <1>2 DEF MayCome, MaySend, AuthEvents
<1>3. p.t = "SIG" => /\ Fine(sig("CONN_RSP", "ok")) /\ Fine(sig("CONN_RSP", "refused"))
                     /\ Fine(sig("CONN_RSP", "pending")) /\ Fine(sig("CONF_REQ", "ok"))
                     /\ Fine(sig("CONF_RSP", "ok")) /\ Fine(sig("DISCONN_RSP", "ok"))
  BY <1>2
<1>4. \/ r \in {<<data("last")>>, <<data("more")>>, <<>>}
      \/ /\ p.t = "SIG"
         /\ r \in {<<sig("CONN_RSP", "ok"), sig("CONF_REQ", "ok")>>, <<sig("CONN_RSP", "refused")>>,
             <<sig("CONN_RSP", "pending"), sig("CONN_RSP", "ok"), sig("CONF_REQ", "ok")>>,
             <<sig("CONF_REQ", "ok")>>, <<sig("CONF_RSP", "ok")>>, <<sig("DISCONN_RSP", "ok")>>}
  BY DEF Replies
<1> HIDE DEF sig, data, Fine
<1>5. \A i \in 1..Len(r) : Fine(r[i])
  BY <1>1, <1>3, <1>4
<1>6. QED
  BY <1>5 DEF Fine

LEMMA SendOneQuiet ==
  ASSUME BluetoothInv, QuietInv, SendOne
  PROVE  QuietInv'
<1> DEFINE p == Head(host.tx)
           K == KnownTo(host)
<1>1. /\ host.tx \in Seq(Sent(K)) /\ host.tx # <<>> /\ Good(host)
      /\ air \in [Dev -> Seq(Said)]
  BY Parts DEF SendOne, Good, HostOK
<1>2. p \in Sent(K) /\ p = host.tx[1] /\ 1 \in 1..Len(host.tx)
  BY <1>1
<1>3. /\ host' = [host EXCEPT !.tx = Tail(@)] /\ UNCHANGED rx
      /\ p.t = "CMD" => owed' = owed \cup Owes(p) /\ UNCHANGED <<air, trouble>>
      /\ p.t # "CMD" => UNCHANGED owed /\ \/ UNCHANGED <<air, trouble>>
                                          \/ \E r \in Replies(p) : /\ Goes(IF Wrong(r) THEN 1 ELSE 0)
                                                                   /\ air' = [air EXCEPT ![p.dev] = @ \o r]
  BY DEF SendOne
<1> HIDE DEF p
<1>4. trouble' \in 0..Trouble /\ (trouble' = Trouble => Quiet)
  <2>1. CASE UNCHANGED trouble
    BY <2>1 DEF QuietInv, Quiet
  <2>2. ASSUME NEW r, Goes(IF Wrong(r) THEN 1 ELSE 0)
        PROVE  trouble' \in 0..Trouble /\ (trouble' = Trouble => Quiet)
    <3>1. Goes(0) \/ Goes(1)
      BY <2>2
    <3>2. QED
      BY <3>1, GoesQuiet
  <2>3. QED
    BY <1>3, <2>1, <2>2
<1>5. ASSUME trouble' = Trouble, NEW d \in Dev
      PROVE  QueryRight(host', d, owed', rx', air')
  <2>1. PICK ph \in Phases : QueryAt(host, d, ph, owed, rx, air)
    BY <1>4, <1>5, QuietQuery
  <2> DEFINE k == host.hid[d].sdp
  <2>2. MaySend(p, d, ph, k) /\ \A x \in Dev : \A i \in 1..Len(air[x]) : MayCome(air[x][i], d, ph, k)
    BY <1>2, <2>1 DEF QueryAt, Asking, Coming
  <2> DEFINE O == IF p.t = "CMD" THEN Owes(p) ELSE {}
  <2>3. owed' = owed \cup O
    BY <1>3
  <2>4. /\ \A o \in O : MayCome(o, d, ph, k)
        /\ Owe("PAGE", d) \in O => p = Create(d)
        /\ Owe("REMOTE_NAME", d) \in O => p = AskName(d)
    <3> HIDE DEF k
    <3>1. CASE p.t = "CMD"
      BY <1>2, <2>2, <3>1, OwesQuery
    <3>2. CASE p.t # "CMD"
      BY <3>2
    <3>3. QED
      BY <3>1, <3>2
  <2>5. \A x \in Dev : \A i \in 1..Len(air'[x]) : MayCome(air'[x][i], d, ph, k)
    <3> HIDE DEF k, O
    <3>1. CASE UNCHANGED air
      BY <2>2, <3>1
    <3>2. CASE ~UNCHANGED air
      <4>1. p.t # "CMD" /\ p.dev \in Dev
        BY <1>2, <1>3, <3>2, SentFields
      <4>2. PICK r \in Replies(p) : air' = [air EXCEPT ![p.dev] = @ \o r]
        BY <1>3, <3>2, <4>1
      <4>3. r \in Seq(Said) /\ \A i \in 1..Len(r) : MayCome(r[i], d, ph, k)
        BY <1>2, <2>2, <4>1, RepliesSaid, RepliesQuery
      <4>4. ASSUME NEW x \in Dev, NEW i \in 1..Len(air'[x]) PROVE MayCome(air'[x][i], d, ph, k)
        <5>1. CASE x # p.dev
          <6>1. air'[x] = air[x]
            BY <1>1, <4>1, <4>2, <5>1
          <6>2. QED
            BY <2>2, <6>1
        <5>2. CASE x = p.dev
          <6> DEFINE y == air[x]
          <6>1. air'[x] = y \o r /\ y \in Seq(Said)
            BY <1>1, <4>1, <4>2, <5>2
          <6>2. \A j \in 1..Len(y) : MayCome(y[j], d, ph, k)
            BY <2>2
          <6> HIDE DEF y
          <6>3. \/ i \in 1..Len(y) /\ (y \o r)[i] = y[i]
                \/ i - Len(y) \in 1..Len(r) /\ (y \o r)[i] = r[i - Len(y)]
            BY <4>3, <6>1
          <6>4. QED
            BY <4>3, <6>1, <6>2, <6>3
        <5>3. QED
          BY <5>1, <5>2
      <4>5. QED
        BY <4>4
    <3>3. QED
      BY <3>1, <3>2
  <2> HIDE DEF O
  <2>6. QueryAt([host EXCEPT !.tx = Tail(@)], d, ph, owed \cup O, rx, air')
    BY <1>1, <2>1, <2>4, <2>5, SentQuery DEF p
  <2>7. QED
    BY <1>3, <2>3, <2>6 DEF QueryRight
<1>6. QED
  BY <1>4, <1>5, QuietStays

\* A step of the host that takes nothing from _rx, and spares every query.
LEMMA HostQuiet ==
  ASSUME QuietInv, UNCHANGED envVars,
         \A d \in Dev : QueryRight(host, d, owed, rx, air) => QueryRight(host', d, owed, rx, air)
  PROVE  QuietInv'
  BY DEF QuietInv, Quiet, envVars

LEMMA ReadyToSendQuiet ==
  ASSUME BluetoothInv, QuietInv, ReadyToSend
  PROVE  QuietInv'
<1> DEFINE s == Cmd(host, "RESET")
           none == {}
           r == [s EXCEPT !.hci = none]
<1>1. host' = r /\ UNCHANGED envVars /\ Good(host)
  BY Parts DEF ReadyToSend
<1> HIDE DEF none
<1>2. ASSUME NEW d \in Dev, NEW ph, QueryAt(host, d, ph, owed, rx, air)
      PROVE  QueryAt(r, d, ph, owed, rx, air)
  <2>1. Here(host, d, ph) /\ "RESET" \in HostCommands
    BY <1>1, <1>2 DEF Here, QueryAt, HostCommands
  <2>2. Spares(host, s, d, ph)
    BY <2>1, CmdSpares
  <2> HIDE DEF s
  <2>3. Spares(s, r, d, ph)
    BY <2>2, SparesHere, HciSpares
  <2> HIDE DEF r
  <2>4. QED
    BY <1>2, <2>2, <2>3, SparesOn, SparesQuery
<1> HIDE DEF r
<1>3. \A d \in Dev : QueryRight(host, d, owed, rx, air) => QueryRight(host', d, owed, rx, air)
  BY <1>1, <1>2 DEF QueryRight
<1>4. QED
  BY <1>1, <1>3, HostQuiet

LEMMA FetchQuiet ==
  ASSUME BluetoothInv, QuietInv, Fetch
  PROVE  QuietInv'
<1>1. host' = Get(host) /\ UNCHANGED envVars /\ Good(host)
  BY Parts DEF Fetch
<1>2. \A d \in Dev : QueryRight(host, d, owed, rx, air) => QueryRight(host', d, owed, rx, air)
  BY <1>1, GetQuery
<1>3. QED
  BY <1>1, <1>2, HostQuiet

LEMMA HandleOneQuiet ==
  ASSUME BluetoothInv, QuietInv, HandleOne
  PROVE  QuietInv'
<1> DEFINE p == Head(rx)
           r == Tail(rx)
           K == KnownTo(host)
<1>1. /\ rx \in Seq(Packets(K)) /\ rx # <<>> /\ host' = Received(host, p) /\ rx' = r
      /\ UNCHANGED <<owed, air, trouble>> /\ Good(host)
  BY Parts DEF HandleOne
<1>2. p \in Packets(K)
  BY <1>1
<1>3. ASSUME Quiet PROVE \A d \in Dev : QueryRight(host', d, owed, r, air)
  <2>1. ASSUME NEW d \in Dev
        PROVE  \E ph \in Phases : QueryAt(host, d, ph, owed, r, air) /\ Popped(host, d, ph, owed, r, p)
    <3>1. PICK ph \in Phases : QueryAt(host, d, ph, owed, rx, air)
      BY <1>3, QuietQuery
    <3>2. QueryAt(host, d, ph, owed, r, air) /\ Popped(host, d, ph, owed, r, p)
      BY <1>1, <3>1, PoppedQuery
    <3>3. QED
      BY <3>2
  <2> HIDE DEF p, r
  <2>2. \A d \in Dev : QueryRight(Received(host, p), d, owed, r, air)
    BY <1>1, <1>2, <2>1, ReceivedQuery
  <2>3. QED
    BY <1>1, <2>2
<1> HIDE DEF p, r
<1>4. QED
  BY <1>1, <1>3 DEF QuietInv, Quiet

\* A device that acts by itself, or a controller that takes no more, ends the quiet.
LEMMA TroubleQuiet ==
  ASSUME QuietInv, NEW n \in Nat \ {0}, Goes(n) \/ \E p : PostWrong(p, n)
  PROVE  QuietInv'
<1>1. trouble' \in 0..Trouble /\ (trouble' = Trouble => n = 0)
  BY GoesQuiet, PostQuiet
<1>2. QED
  BY <1>1, QuietStays

LEMMA QuietStart ==
  ASSUME Init
  PROVE  QuietInv
<1>1. PICK keys \in [Dev -> BOOLEAN] : host = [HciStart EXCEPT !.key = keys]
  BY DEF Init
<1>2. /\ host.handle = [d \in Dev |-> "none"] /\ host.seen = [d \in Dev |-> {}]
      /\ host.sock = [c \in Cids |-> NoSocket] /\ host.tx = <<>> /\ host.held = NoPacket
      /\ host.hid = [d \in Dev |-> [state |-> "CLOSED", reconnect |-> FALSE, sdp |-> 0,
                                    control |-> 0, interrupt |-> 0, handler |-> 0, slot |-> NoSlot]]
  BY <1>1 DEF HciStart
<1>3. rx = <<>> /\ owed = {} /\ air = [d \in Dev |-> <<>>] /\ trouble = Trouble
  BY DEF Init
<1>4. ASSUME NEW d \in Dev PROVE QueryRight(host, d, owed, rx, air)
  <2>1. d # "none" /\ d # "paging"
    BY Unlike
  <2>2. NoSocket.dev = "none" /\ NoPacket.t = "none" /\ ~Live(host, 0)
    BY DEF NoSocket, NoPacket, Live, Cids
  <2>3. Asking(host, d, "asking")
    BY <1>2, <2>1, <2>2 DEF Asking
  <2>4. \A a, o, b : Unasked(host.tx, owed, rx, a, o, b)
    BY <1>2, <1>3 DEF Unasked, Nowhere
  <2>5. Stage(host, d, "asking", owed, rx)
    BY <1>2, <2>1, <2>4 DEF Stage
  <2>6. Coming(d, "asking", host.hid[d].sdp, owed, rx, air)
    BY <1>3 DEF Coming
  <2>7. QED
    BY <2>3, <2>5, <2>6 DEF QueryRight, QueryAt, Phases
<1>5. QED
  BY <1>3, <1>4, BluetoothAssumption DEF QuietInv

LEMMA QuietStep ==
  ASSUME BluetoothInv, QuietInv, [Next]_vars
  PROVE  QuietInv'
<1>1. CASE ReadyToSend
  BY <1>1, ReadyToSendQuiet
<1>2. CASE \E o \in owed : Answer(o)
  BY <1>2, AnswerQuiet
<1>3. ASSUME NEW d \in Dev, InquiryResult(d) \/ Arrive(d) PROVE QuietInv'
  BY <1>3, InquiryResultQuiet, ArriveQuiet
<1>4. CASE SendOne
  BY <1>4, SendOneQuiet
<1>5. CASE Refused
  BY <1>5, TroubleQuiet DEF Refused
<1>6. CASE HandleOne
  BY <1>6, HandleOneQuiet
<1>7. CASE Fetch
  BY <1>7, FetchQuiet
<1>8. ASSUME NEW d \in Dev, Device(d) PROVE QuietInv'
  <2>1. CASE Request(d) \/ Opens(d) \/ LinkLoss(d)
    <3>1. Goes(1) \/ \E p : PostWrong(p, 1)
      BY <2>1 DEF Request, Opens, LinkLoss
    <3>2. QED
      BY <3>1, TroubleQuiet
  <2>2. ASSUME NEW c \in Cids, Closes(d, c) PROVE QuietInv'
    BY <2>2, TroubleQuiet DEF Closes
  <2>3. ASSUME NEW c \in Cids, Reports(d, c) PROVE QuietInv'
    BY <2>3, ReportsQuiet
  <2>4. QED
    BY <1>8, <2>1, <2>2, <2>3 DEF Device
<1>9. CASE UNCHANGED vars
  BY <1>9 DEF vars, envVars, QuietInv, Quiet, QueryRight
<1>10. QED
  BY <1>1, <1>2, <1>3, <1>4, <1>5, <1>6, <1>7, <1>8, <1>9 DEF Next, Controller, Main

\* While nothing goes wrong, each device is paged once, asked for its name once,
\* and opens one SDP channel, to which all it says belongs.
THEOREM QueriesGoRight == Spec => []QuietInv
<1>1. Init => QuietInv
  BY QuietStart
<1>2. BluetoothInv /\ QuietInv /\ [Next]_vars => QuietInv'
  BY QuietStep
<1>3. QED
  BY <1>1, <1>2, HostGood, PTL DEF Spec

\* While nothing goes wrong, the SDP query goes out on a channel that both ends
\* have configured, although what has been seen of the handshake is kept by device.
THEOREM QueriesOpenChannels == Spec => []SdpQueriesOpenChannel
<1>1. QuietInv => SdpQueriesOpenChannel
  <2>1. SUFFICES ASSUME QuietInv, Quiet, NEW d \in Dev, Live(host, host.hid[d].handler)
                 PROVE  Handshake \subseteq host.sock[host.hid[d].handler].got
    BY DEF SdpQueriesOpenChannel
  <2>2. PICK ph \in Phases : QueryAt(host, d, ph, owed, rx, air)
    BY <2>1, QuietQuery
  <2>3. QED
    BY <2>1, <2>2 DEF QueryAt, Asking
<1>2. QED
  BY <1>1, QueriesGoRight, PTL
=============================================================================
