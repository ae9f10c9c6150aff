-------------------------------- MODULE Gatt --------------------------------
(***************************************************************************)
(* The BLE GATT transport: the packetizer of lib/pouch_ble_gatt_common and *)
(* the characteristics of src/transport/ble_gatt.  A gateway connects,     *)
(* reads values in packets with first and last marks, writes the server's  *)
(* certificate and downlink pouches the same way, and may go away between  *)
(* any two packets.  The contexts of the characteristics are static, and   *)
(* nothing resets them when a connection ends.                             *)
(*                                                                         *)
(* All calls run in the Bluetooth receive thread, one after the other, and *)
(* there is one connection.  A byte is its position in the value it        *)
(* belongs to.  The uplink below the transport is what Pouch promises:     *)
(* bytes that become available while the pouch is open, and an end.        *)
(***************************************************************************)
EXTENDS Integers, Sequences, FiniteSets

CONSTANTS
    Values,      \* characteristics with a value: info, device_cert, serial
    Size,        \* bytes of a value, by characteristic and version
    ReadLens,    \* bytes of the packets a gateway reads, without the mark byte
    Fragments,   \* packets of a server certificate or a downlink pouch
    MaxPouch,    \* bound on the bytes of an uplink pouch
    MaxPouches,  \* bound on the uplink pouches
    MaxVersions, \* bound on the certificates and downlink pouches written
    MaxDrops     \* bound on the connections that are lost

Reads  == Values \cup {"uplink"}
Writes == {"server_cert", "downlink"}
Versions == 0 .. MaxVersions

ASSUME GattAssumption ==
    /\ Values \subseteq {"info", "device_cert", "serial"}
    /\ Size \in [Values -> [Versions -> Nat]]
    /\ ReadLens \subseteq Nat \ {0}
    /\ Fragments \in Nat \ {0}
    /\ MaxPouch \in Nat /\ MaxPouches \in Nat /\ MaxVersions \in Nat /\ MaxDrops \in Nat

VARIABLES
    ctx,            \* per value read: <<>> (NULL), or its packetizer
    session, avail, closed, \* the uplink session, the bytes of its pouch, is it closed
    pouches,        \* number of uplink sessions that were started
    certBuf,        \* the certificate being received: <<>> (NULL), or its buffer
    cert,           \* history: the fragments of the installed server certificate
    pushed,         \* history: the fragments of the downlink pouch since its start
    fault,          \* the code uses a pointer that is NULL
    connected, drops,
    asm,            \* gateway: what it collected of a value since a first packet
    next, version   \* gateway: the fragment to write next, and of which version

sessionVars == <<session, avail, closed, pouches>>
writeVars   == <<certBuf, cert, pushed, next, version>>
linkVars    == <<connected, drops>>
vars == <<ctx, sessionVars, writeVars, fault, linkVars, asm>>

-----------------------------------------------------------------------------
(* Packetizer *)

\* golioth_ble_gatt_packetizer_start_buffer and _start_callback.
packetizer_start(v) == [first |-> TRUE, off |-> 0, value |-> v]

\* Mutant: what is left does not limit what is copied.
BytesUnlimited(len, left) == len

\* The bytes of a packet with room for len bytes when so many are left.
Bytes(len, left) == IF len >= left THEN left ELSE len

\* Mutant: the last mark is set one byte too early.
IsLastEarly(len, left, end) == end /\ len + 1 >= left

\* The last mark: all bytes are copied, and end says that no more will come.
IsLast(len, left, end) == end /\ len >= left

\* What packetizer_get makes of packetizer p: marks and the bytes lo .. hi-1.
Packet(p, len, left, end) ==
    [first |-> p.first, last |-> IsLast(len, left, end), value |-> p.value,
     lo |-> p.off, hi |-> p.off + Bytes(len, left)]

\* Mutant: the end of the value does not end the transfer.
AfterKept(p, pkt) == <<[p EXCEPT !.first = FALSE, !.off = pkt.hi]>>

\* Mutant: the bytes that were copied stay in what is left.
AfterStuck(p, pkt) == IF pkt.last THEN <<>> ELSE <<[p EXCEPT !.first = FALSE]>>

\* The context after the packet: its packetizer is finished with the last one.
After(p, pkt) ==
    IF pkt.last THEN <<>> ELSE <<[p EXCEPT !.first = FALSE, !.off = pkt.hi]>>

-----------------------------------------------------------------------------
Init ==
    /\ ctx = [c \in Reads |-> <<>>]
    /\ session = FALSE /\ avail = 0 /\ closed = FALSE /\ pouches = 0
    /\ certBuf = <<>> /\ cert = <<>> /\ pushed = <<>>
    /\ fault = FALSE
    /\ connected = FALSE /\ drops = 0
    /\ asm = [c \in Reads |-> <<>>]
    /\ next = [w \in Writes |-> 1] /\ version = [w \in Writes |-> 0]

\* A gateway comes and goes (external).  It begins every value anew.
Connect ==
    /\ ~connected
    /\ connected' = TRUE
    /\ asm' = [c \in Reads |-> <<>>]
    /\ next' = [w \in Writes |-> 1]
    /\ UNCHANGED <<ctx, sessionVars, certBuf, cert, pushed, version, fault, drops>>

Disconnect ==
    /\ connected /\ drops < MaxDrops
    /\ connected' = FALSE
    /\ drops' = drops + 1
    /\ UNCHANGED <<ctx, sessionVars, writeVars, fault, asm>>

\* The gateway collects packets from a first one on (external).
Collect(c, pkt) ==
    asm' = [asm EXCEPT ![c] =
        IF pkt.first
        THEN <<[values |-> {pkt.value}, gap |-> pkt.lo # 0, hi |-> pkt.hi, last |-> pkt.last]>>
        ELSE IF @ = <<>> THEN <<>>
        ELSE IF @[1].last THEN <<>>
        ELSE <<[values |-> @[1].values \cup {pkt.value}, gap |-> @[1].gap \/ pkt.lo # @[1].hi,
                hi |-> pkt.hi, last |-> pkt.last]>>]

-----------------------------------------------------------------------------
(* Reads of the info, device_cert and server_cert characteristics *)

\* The version of the server certificate that is installed, 0 is none.
Installed == IF cert = <<>> THEN 0 ELSE cert[1].version

\* What a transfer that starts now copies, or points to: build_info_data,
\* pouch_device_certificate_get, pouch_server_certificate_serial_get.
Current(c) == IF c = "device_cert" THEN 0 ELSE Installed

\* The transfer that a read of c goes on with, or starts.
Transfer(c) == IF ctx[c] = <<>> THEN packetizer_start(Current(c)) ELSE ctx[c][1]

\* The bytes of it that are still to be copied.
Left(c, p) == Size[c][p.value] - p.off

\* info_read, device_cert_read, server_cert_serial_read
ReadValue(c, len) ==
    LET p   == Transfer(c)
        pkt == Packet(p, len, Left(c, p), TRUE)
    IN  /\ connected /\ ~fault
        /\ ctx' = [ctx EXCEPT ![c] = After(p, pkt)]
        /\ Collect(c, pkt)
        /\ UNCHANGED <<sessionVars, writeVars, fault, linkVars>>

\* The packetizer cannot be allocated, or pouch_uplink_start returns NULL: both are
\* used without a check.
ReadFaults(c) ==
    /\ connected /\ ~fault
    /\ ctx[c] = <<>>
    /\ fault' = TRUE
    /\ UNCHANGED <<ctx, sessionVars, writeVars, linkVars, asm>>

-----------------------------------------------------------------------------
(* Reads of the uplink characteristic *)

\* uplink_read starts a pouch and gets its first packet, which is empty: nothing was
\* processed since the start.  It is the last one when a close came before the start.
ReadUplinkStart(len, preclosed) ==
    LET p   == packetizer_start(pouches + 1)
        pkt == Packet(p, len, 0, preclosed)
    IN  /\ connected /\ ~fault
        /\ ctx["uplink"] = <<>> /\ ~session /\ pouches < MaxPouches
        /\ session' = ~pkt.last /\ avail' = 0 /\ closed' = preclosed
        /\ pouches' = pouches + 1
        /\ ctx' = [ctx EXCEPT !["uplink"] = After(p, pkt)]
        /\ Collect("uplink", pkt)
        /\ UNCHANGED <<writeVars, fault, linkVars>>

\* uplink_read with a packetizer: uplink_fill_cb finishes the pouch with its last
\* byte, and gives up when the session is gone.
ReadUplink(len) ==
    LET p   == ctx["uplink"][1]
        pkt == Packet(p, len, avail - p.off, closed)
    IN  /\ connected /\ ~fault
        /\ ctx["uplink"] # <<>>
        /\ IF session
           THEN /\ ctx' = [ctx EXCEPT !["uplink"] = After(p, pkt)]
                /\ Collect("uplink", pkt)
                /\ session' = ~pkt.last
           ELSE /\ ctx' = [ctx EXCEPT !["uplink"] = <<>>]
                /\ UNCHANGED <<asm, session>>
        /\ UNCHANGED <<avail, closed, pouches, writeVars, fault, linkVars>>

\* The uplink has one more byte for the transport; the application closes the pouch.
UplinkData ==
    /\ session /\ ~closed /\ avail < MaxPouch /\ ~fault
    /\ avail' = avail + 1
    /\ UNCHANGED <<ctx, session, closed, pouches, writeVars, fault, linkVars, asm>>

UplinkClose ==
    /\ session /\ ~closed /\ ~fault
    /\ closed' = TRUE
    /\ UNCHANGED <<ctx, session, avail, pouches, writeVars, fault, linkVars, asm>>

-----------------------------------------------------------------------------
(* Writes of the server_cert and downlink characteristics *)

\* The gateway writes fragment i of w: the next one, or the first of another
\* version (external).
Sends(w, i) ==
    /\ connected /\ ~fault
    /\ i = next[w] \/ i = 1
    /\ i = 1 => version["server_cert"] + version["downlink"] < MaxVersions
    /\ next' = [next EXCEPT ![w] = IF i = Fragments THEN 1 ELSE i + 1]
    /\ version' = [version EXCEPT ![w] = IF i = 1 THEN @ + 1 ELSE @]

Fragment(w, i) == [version |-> version'[w], i |-> i]

\* Mutant: the buffer is reused with what is in it.
ReceivedInKept(i) == IF i = 1 /\ certBuf = <<>> THEN {<<>>, <<<<>>>>} ELSE {certBuf}

\* The buffers that a fragment may be appended to: the first one gets a new and
\* empty one, if there is memory.
ReceivedIn(i) == IF i = 1 THEN {<<>>, <<<<>>>>} ELSE {certBuf}

\* server_cert_write; the certificate may be refused (a disconnect).
ServerCertWrite(i) ==
    /\ Sends("server_cert", i)
    /\ \E buf \in ReceivedIn(i) :
          LET data == Append(buf[1], Fragment("server_cert", i))
          IN  \/ buf = <<>> /\ certBuf' = <<>> /\ UNCHANGED <<cert, connected>>
              \/ /\ buf # <<>> /\ i < Fragments
                 /\ certBuf' = <<data>> /\ UNCHANGED <<cert, connected>>
              \/ /\ buf # <<>> /\ i = Fragments
                 /\ certBuf' = <<>>
                 /\ \/ cert' = data /\ UNCHANGED connected
                    \/ cert' = cert /\ connected' = FALSE
    /\ UNCHANGED <<ctx, sessionVars, pushed, fault, drops, asm>>

\* downlink_write
DownlinkWrite(i) ==
    /\ Sends("downlink", i)
    /\ pushed' = Append(IF i = 1 THEN <<>> ELSE pushed, Fragment("downlink", i))
    /\ UNCHANGED <<ctx, sessionVars, certBuf, cert, fault, linkVars, asm>>

-----------------------------------------------------------------------------
Next ==
    \/ Connect \/ Disconnect
    \/ \E c \in Values, len \in ReadLens : ReadValue(c, len)
    \/ \E c \in Reads : ReadFaults(c)
    \/ \E len \in ReadLens, pre \in BOOLEAN : ReadUplinkStart(len, pre)
    \/ \E len \in ReadLens : ReadUplink(len)
    \/ UplinkData \/ UplinkClose
    \/ \E i \in 1 .. Fragments : ServerCertWrite(i) \/ DownlinkWrite(i)

Spec == Init /\ [][Next]_vars

\* A gateway that is connected keeps reading every value.
FairSpec ==
    /\ Spec
    /\ \A c \in Values : WF_vars(\E len \in ReadLens : ReadValue(c, len))
    /\ WF_vars(\E len \in ReadLens : ReadUplink(len))

-----------------------------------------------------------------------------
(* Properties *)

Total(c, v) == IF c = "uplink" THEN avail ELSE Size[c][v]
Packetizers == [first : BOOLEAN, off : Nat, value : Nat]
Collected == [values : SUBSET Nat, gap : BOOLEAN, hi : Nat, last : BOOLEAN]
FragmentSeqs == Seq([version : Versions, i : 1 .. Fragments])

\* Every variable has its type, and a packetizer is inside its value.
TypeOK ==
    /\ ctx \in [Reads -> Seq(Packetizers)] /\ asm \in [Reads -> Seq(Collected)]
    /\ \A c \in Reads : Len(ctx[c]) <= 1 /\ Len(asm[c]) <= 1
    /\ \A c \in Values : ctx[c] # <<>> => ctx[c][1].value \in Versions
    /\ \A c \in Reads : ctx[c] # <<>> => ctx[c][1].off <= Total(c, ctx[c][1].value)
    /\ session \in BOOLEAN /\ closed \in BOOLEAN /\ fault \in BOOLEAN /\ connected \in BOOLEAN
    /\ avail \in 0 .. MaxPouch /\ pouches \in 0 .. MaxPouches /\ drops \in 0 .. MaxDrops
    /\ certBuf \in Seq(FragmentSeqs) /\ Len(certBuf) <= 1
    /\ cert \in FragmentSeqs /\ pushed \in FragmentSeqs
    /\ next \in [Writes -> 1 .. Fragments] /\ version \in [Writes -> Versions]

Whole(c) == asm[c] # <<>> /\ asm[c][1].last

\* From a first to a last mark a gateway has collected the whole of one value:
\* no byte is missing, doubled, or of a version that came in between, for
\* any packet sizes, and although the value of an earlier gateway was broken off.
WholeTransfers ==
    \A c \in Reads : Whole(c) =>
        /\ ~asm[c][1].gap
        /\ \E v \in asm[c][1].values :
              asm[c][1].values = {v} /\ asm[c][1].hi = Total(c, v)

\* The beginning of one transfer, in order.
Prefix(s) == \A k \in DOMAIN s : s[k].i = k /\ s[k].version = s[1].version

\* What is installed as a certificate, or pushed as a pouch, is the fragments of
\* one transfer in order, although gateways give up and begin again.
WritesUnmixed ==
    /\ Prefix(cert) /\ (cert # <<>> => Len(cert) = Fragments)
    /\ Prefix(pushed)
    /\ certBuf # <<>> => Prefix(certBuf[1])

\* The uplink characteristic has a packetizer exactly while the uplink has a
\* session: no session is left open that no read can end, and no read meets a
\* session that is over.
SessionOwned == session <=> ctx["uplink"] # <<>>

\* A gateway that stays gets every value whole, although it may first get the
\* rest of what another one left behind, and the end of a pouch that the
\* application has closed.
GatewayServed ==
    /\ \A c \in Values : connected ~> (Whole(c) \/ ~connected \/ fault)
    /\ (closed /\ session /\ connected) ~> (~session \/ ~connected \/ fault)
=============================================================================
