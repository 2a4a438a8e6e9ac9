------------------------- MODULE SocketHooksProofs -------------------------
(***************************************************************************)
(* For any number of threads and interfaces, and whatever is published     *)
(* inside their calls: denied binds leave no trace, the device of a socket *)
(* is not reported while it is listed, connects follow one policy, and the *)
(* send buffer and the bucket are as they should be.                       *)
(***************************************************************************)
EXTENDS SocketHooks, TLAPS

Values == Links \cup {Nothing, Fake, "address", "value"}

Saved == [modified : BOOLEAN, orig : Values, badlen : BOOLEAN, deny : BOOLEAN,
          spoofed : BOOLEAN, sndbuf : {0, SndBuf}]

Types ==
  /\ vpns \subseteq Tunnels /\ block \in BOOLEAN /\ wrapper \in BOOLEAN
  /\ bound \in Links \cup {Nothing} /\ sndbuf \in {0, SndBuf}
  /\ probe \in BOOLEAN /\ probing \in BOOLEAN
  /\ pc \in [Threads -> {"idle", "limit", "kernel", "ret", "done"}]
  /\ call \in [Threads -> {"none", "mark", "probe", "device", "connect"}
                            \cup Binds \cup Sends]
  /\ ubuf \in [Threads -> Values] /\ asked \in [Threads -> Values]
  /\ data \in [Threads -> Saved]
  /\ \A t \in Threads : pc[t] = "limit" => call[t] \in Sends
  /\ ret \in [Threads -> {OK, "EINVAL", "ENODEV", "EPERM", "EFAULT", "ECONNREFUSED",
                          "EAGAIN", "ENOBUFS"}]
  /\ listed \in [Threads -> SUBSET vpns]
  /\ verdicts \in [Threads -> SUBSET BOOLEAN]
  /\ boundWhileListed \in BOOLEAN /\ crowded \in BOOLEAN

IdleIsClean ==
  \A t \in Threads : pc[t] = "idle" => call[t] = "none" /\ data[t] = NoData

\* A bind under way: what the return handler will put back is the caller's value,
\* and a value the kernel may bind to is not listed all along.
Binding(t) ==
  call[t] \in Binds =>
    /\ pc[t] \in {"kernel", "ret"} =>
         IF data[t].modified THEN data[t].orig = asked[t] ELSE ubuf[t] = asked[t]
    /\ pc[t] = "kernel" =>
         /\ ubuf[t] \in Links \cup {Fake}
         /\ data[t].badlen \/ ubuf[t] = Fake \/ ubuf[t] \notin listed[t]
         /\ data[t].modified /\ ~data[t].deny =>
              ubuf[t] = Fake /\ ~data[t].badlen /\ call[t] = "name"
    /\ (pc[t] = "ret" /\ data[t].modified /\ ~data[t].deny) => ret[t] = "ENODEV"
    /\ pc[t] = "done" => /\ ubuf[t] = asked[t]
                         /\ data[t].modified \/ data[t].deny => ret[t] = "ENODEV"

BindsAreGuarded == ~boundWhileListed /\ \A t \in Threads : Binding(t)

\* A step that does not concern the bind of t.
BindSame(t) ==
  /\ call'[t] = call[t] /\ pc'[t] = pc[t] /\ ubuf'[t] = ubuf[t] /\ ret'[t] = ret[t]
  /\ data'[t] = data[t] /\ asked'[t] = asked[t] /\ listed'[t] \subseteq listed[t]

\* A connect under way: the verdict it keeps was in force, and the system call
\* fails exactly if the address was taken away.
Connecting(t) ==
  call[t] = "connect" =>
    /\ pc[t] \in {"kernel", "ret"} => data[t].deny \in verdicts[t]
    /\ pc[t] = "kernel" => (ubuf[t] = Nothing <=> data[t].deny /\ wrapper)
    /\ pc[t] = "ret" => ret[t] = IF data[t].deny /\ wrapper THEN "EFAULT" ELSE OK
    /\ pc[t] = "done" => \/ ret[t] = "ECONNREFUSED" /\ TRUE \in verdicts[t]
                         \/ ret[t] = OK /\ FALSE \in verdicts[t]
    /\ pc[t] # "limit"

ConnectsKeepTheirVerdict == \A t \in Threads : Connecting(t)

\* A step that does not concern the connect of t.
ConnectSame(t) ==
  /\ call'[t] = call[t] /\ pc'[t] = pc[t] /\ ubuf'[t] = ubuf[t] /\ ret'[t] = ret[t]
  /\ data'[t] = data[t] /\ verdicts[t] \subseteq verdicts'[t] /\ wrapper' = wrapper

InSend(t) == call[t] \in Sends /\ pc[t] # "done"

\* Unless two sends have overlapped there is at most one, which knows the buffer
\* size to put back; the buffer differs from it only while that send is throttled.
OneSend == \A t, u \in Threads : InSend(t) /\ InSend(u) => t = u

BufferFree == (\A t \in Threads : ~InSend(t)) => sndbuf = SndBuf

SendKept(t) ==
  InSend(t) =>
    /\ data[t].sndbuf = SndBuf
    /\ pc[t] = "limit" => ~data[t].spoofed
    /\ sndbuf = IF data[t].spoofed THEN 0 ELSE SndBuf
    /\ call[t] # "send" => ~data[t].spoofed
    /\ (pc[t] = "ret" /\ call[t] # "send") => ret[t] = OK

DoneKept(t) == (pc[t] = "done" /\ call[t] = "sendto") => ret[t] # "EAGAIN"

BufferIsKept ==
  /\ ~crowded => OneSend /\ BufferFree /\ \A t \in Threads : SendKept(t) /\ DoneKept(t)
  /\ probing => probe

\* A step that does not concern the send of t.
SendSame(t) ==
  pc'[t] = pc[t] /\ call'[t] = call[t] /\ data'[t] = data[t] /\ ret'[t] = ret[t]

\* The bucket is in range, and was not refilled in the future.
TokenRange == IF build = "module" THEN 0..(Capacity * Milli) ELSE -IntHalf..Capacity

BucketFits(r) ==
  /\ r \in [present : BOOLEAN, tokens : Int, last : Nat]
  /\ r.last <= now /\ r.tokens \in TokenRange

IInv ==
  /\ Types /\ IdleIsClean
  /\ BindsAreGuarded
  /\ BoundVpnNotReported
  /\ ConnectsKeepTheirVerdict
  /\ BufferIsKept
  /\ now \in Nat /\ BucketFits(rate)
-----------------------------------------------------------------------------

\* The records the handlers save.
LEMMA NoDataSaved ==
  ASSUME NEW b \in BOOLEAN, NEW i \in Values, NEW n \in {0, SndBuf}
  PROVE  /\ NoData \in Saved
         /\ [NoData EXCEPT !.modified = TRUE, !.orig = i, !.deny = b] \in Saved
         /\ [NoData EXCEPT !.modified = TRUE, !.orig = i, !.badlen = TRUE, !.deny = TRUE]
              \in Saved
         /\ [NoData EXCEPT !.deny = b] \in Saved
         /\ [NoData EXCEPT !.sndbuf = n, !.deny = b] \in Saved
  BY SocketAssumption DEF NoData, Saved, Values, Nothing

\* Saving one thread's record keeps the type, and so does marking a send throttled.
LEMMA DataUpdates ==
  ASSUME NEW t \in Threads, NEW d \in Saved, NEW f \in [Threads -> Saved]
  PROVE  /\ [f EXCEPT ![t] = d] \in [Threads -> Saved]
         /\ [f EXCEPT ![t].spoofed = TRUE] \in [Threads -> Saved]
<1>1. [f EXCEPT ![t] = d] \in [Threads -> Saved]
  OBVIOUS
<1>2. [f[t] EXCEPT !.spoofed = TRUE] \in Saved
  BY DEF Saved
<1> QED
  BY <1>1, <1>2

\* What a send is refused for is a truth value.
LEMMA DenialIsBoolean ==
  ASSUME NEW c
  PROVE  (IF build = "intree" THEN udpv6_sendmsg_ll(c)
          ELSE c = "linklocal" /\ IsActiveVpn(Route)) \in BOOLEAN
<1>1. CASE build = "intree" /\ c = "linklocal"
  BY <1>1 DEF udpv6_sendmsg_ll, IsActiveVpn
<1>2. CASE build = "intree" /\ c # "linklocal"
  BY <1>2 DEF udpv6_sendmsg_ll, IsActiveVpn
<1>3. CASE build # "intree"
  BY <1>3 DEF IsActiveVpn
<1> QED
  BY <1>1, <1>2, <1>3

\* What vpnhide_udp_sendmsg_pre may do to the thread that sends.
LEMMA SendPreEffect ==
  ASSUME NEW t \in Threads, sendmsg_pre(t)
  PROVE  /\ pc[t] = "limit"
         /\ \/ ret' = ret
            \/ ret' = [ret EXCEPT ![t] = "ENODEV"]
            \/ ret' = [ret EXCEPT ![t] = "EAGAIN"]
         /\ pc' = [pc EXCEPT ![t] = "kernel"] \/ pc' = [pc EXCEPT ![t] = "done"]
         /\ data' = data \/ data' = [data EXCEPT ![t].spoofed = TRUE]
         /\ UNCHANGED <<worldVars, sockVars, call, ubuf, histVars, boundWhileListed, crowded>>
  BY Zenon DEF sendmsg_pre, Finish

\* The hooks keep the types.
LEMMA TypesStep == Types /\ BindsAreGuarded /\ [Next]_vars => Types'
<1> SUFFICES ASSUME Types, BindsAreGuarded, [Next]_vars PROVE Types'
  OBVIOUS
<1> USE SocketAssumption DEF Values, IsActiveVpn, Binds, Sends, Nothing, Fake, OK,
   sockVars, worldVars, histVars, Types
<1>1. CASE SetVpns
  BY <1>1 DEF SetVpns
<1>2. CASE SetPolicy
  BY <1>2 DEF SetPolicy
<1>3. CASE Tick
  BY <1>3 DEF Tick
<1>4. ASSUME NEW t \in Threads, NEW opt \in Binds, NEW i \in Links, BindEntry(t, opt, i)
      PROVE  Types'
  <2>1. \E b \in BOOLEAN :
          \/ data' = data
          \/ data' = [data EXCEPT ![t] = [NoData EXCEPT !.modified = TRUE, !.orig = i,
                                                        !.deny = b]]
          \/ data' = [data EXCEPT ![t] = [NoData EXCEPT !.modified = TRUE, !.orig = i,
                                                        !.badlen = TRUE, !.deny = TRUE]]
    <3>1. (opt = "index") \in BOOLEAN
      OBVIOUS
    <3> QED
      BY <1>4, <3>1, Zenon DEF BindEntry
  <2>2. data' \in [Threads -> Saved]
    <3>1. i \in Values /\ SndBuf \in {0, SndBuf}
      OBVIOUS
    <3> HIDE DEF Values
    <3>2. PICK b \in BOOLEAN :
            \/ data' = data
            \/ data' = [data EXCEPT ![t] = [NoData EXCEPT !.modified = TRUE, !.orig = i,
                                                          !.deny = b]]
            \/ data' = [data EXCEPT ![t] = [NoData EXCEPT !.modified = TRUE, !.orig = i,
                                                          !.badlen = TRUE, !.deny = TRUE]]
      BY <2>1
    <3>3. /\ [NoData EXCEPT !.modified = TRUE, !.orig = i, !.deny = b] \in Saved
          /\ [NoData EXCEPT !.modified = TRUE, !.orig = i, !.badlen = TRUE, !.deny = TRUE]
               \in Saved
      BY <3>1, NoDataSaved, Zenon
    <3>4. data \in [Threads -> Saved]
      OBVIOUS
    <3>5. [data EXCEPT ![t] = [NoData EXCEPT !.modified = TRUE, !.orig = i, !.deny = b]]
            \in [Threads -> Saved]
      BY <3>3, <3>4, DataUpdates, Zenon
    <3>6. [data EXCEPT ![t] = [NoData EXCEPT !.modified = TRUE, !.orig = i,
                                             !.badlen = TRUE, !.deny = TRUE]]
            \in [Threads -> Saved]
      BY <3>3, <3>4, DataUpdates, Zenon
    <3> QED
      BY <3>2, <3>4, <3>5, <3>6
  <2>3. ubuf' \in [Threads -> Values]
    BY <1>4 DEF BindEntry
  <2> QED
    BY <1>4, <2>2, <2>3 DEF BindEntry, Enter
<1>5. ASSUME NEW t \in Threads, NEW opt \in Binds, NEW i \in Links, setsockopt_bind(t, opt, i)
      PROVE  Types'
  <2>1. \E b \in BOOLEAN : data' = [data EXCEPT ![t] = [NoData EXCEPT !.deny = b]]
    <3>1. IsActiveVpn(i) \in BOOLEAN
      OBVIOUS
    <3> QED
      BY <1>5, <3>1, Zenon DEF setsockopt_bind
  <2>2. data' \in [Threads -> Saved]
    <3>1. i \in Values /\ SndBuf \in {0, SndBuf}
      OBVIOUS
    <3> HIDE DEF Values
    <3>2. PICK b \in BOOLEAN : data' = [data EXCEPT ![t] = [NoData EXCEPT !.deny = b]]
      BY <2>1
    <3>3. [NoData EXCEPT !.deny = b] \in Saved
      BY <3>1, NoDataSaved, Zenon
    <3> QED
      BY <3>2, <3>3, DataUpdates, Zenon
  <2> QED
    BY <1>5, <2>2 DEF setsockopt_bind, Enter
<1>6. ASSUME NEW t \in Threads, BindKernel(t) PROVE Types'
  <2>1. ret' \in [Threads -> {OK, "EINVAL", "ENODEV", "EPERM", "EFAULT", "ECONNREFUSED",
                              "EAGAIN", "ENOBUFS"}]
    BY <1>6 DEF BindKernel, Returns
  <2>2. boundWhileListed' \in BOOLEAN
    <3>1. (boundWhileListed \/ ubuf[t] \in listed[t]) \in BOOLEAN
      OBVIOUS
    <3> QED
      BY <1>6, <3>1, Zenon DEF BindKernel, Types
  <2>3. bound' \in Links \cup {Nothing}
    BY <1>6 DEF BindKernel, BindsAreGuarded, Binding
  <2> QED
    BY <1>6, <2>1, <2>2, <2>3 DEF BindKernel, Returns
<1>7. ASSUME NEW t \in Threads, BindRet(t) PROVE Types'
  <2>1. ubuf' \in [Threads -> Values] /\ asked' \in [Threads -> Values]
    <3> HIDE DEF Values
    <3>1. data[t].orig \in Values /\ ubuf[t] \in Values
      BY DEF Saved
    <3>2. \/ ubuf' = ubuf /\ asked' = asked
          \/ ubuf' = [ubuf EXCEPT ![t] = data[t].orig] /\ asked' = asked
          \/ ubuf' = ubuf /\ asked' = [asked EXCEPT ![t] = ubuf[t]]
      BY <1>7 DEF BindRet
    <3> QED
      BY <3>1, <3>2
  <2>2. UNCHANGED <<worldVars, sockVars, data, listed, verdicts, call, boundWhileListed, crowded>>
    BY <1>7 DEF BindRet
  <2>3. Finish(t, IF data[t].deny THEN "ENODEV" ELSE ret[t])
    BY <1>7 DEF BindRet
  <2> QED
    BY <2>1, <2>2, <2>3 DEF Finish
<1>8. ASSUME NEW t \in Threads, MarkEntry(t, "value") PROVE Types'
  BY <1>8 DEF MarkEntry, Enter
<1>9. ASSUME NEW t \in Threads, setsockopt_mark(t, "value") PROVE Types'
  BY <1>9 DEF setsockopt_mark, Enter
<1>10. ASSUME NEW t \in Threads, MarkKernel(t) PROVE Types'
  <2>1. probe' \in BOOLEAN /\ probing' \in BOOLEAN /\ call[t] = "mark"
    BY <1>10 DEF MarkKernel
  <2>2. UNCHANGED <<worldVars, bound, sndbuf, call, ubuf, data, histVars, boundWhileListed,
                    crowded>>
    BY <1>10 DEF MarkKernel
  <2>3. Finish(t, OK) \/ Finish(t, "EPERM")
    BY <1>10 DEF MarkKernel
  <2> QED
    BY <2>1, <2>2, <2>3 DEF Finish
<1>11. ASSUME NEW t \in Threads, setsockopt_probe(t) PROVE Types'
  BY <1>11 DEF setsockopt_probe, Enter
<1>12. ASSUME NEW t \in Threads, DeviceEntry(t) PROVE Types'
  BY <1>12 DEF DeviceEntry, Enter
<1>13. ASSUME NEW t \in Threads, DeviceRet(t) PROVE Types'
  BY <1>13 DEF DeviceRet, Finish
<1>14. ASSUME NEW t \in Threads, ConnectEntry(t) PROVE Types'
  <2>1. data' \in [Threads -> Saved]
    <3>1. SndBuf \in {0, SndBuf} /\ Nothing \in Values
      OBVIOUS
    <3> HIDE DEF Values
    <3>2. [NoData EXCEPT !.deny = block] \in Saved
      BY <3>1, NoDataSaved, Zenon
    <3> QED
      BY <1>14, <3>2 DEF ConnectEntry
  <2>2. ubuf' \in [Threads -> Values]
    BY <1>14 DEF ConnectEntry
  <2> QED
    BY <1>14, <2>1, <2>2 DEF ConnectEntry, Enter
<1>15. ASSUME NEW t \in Threads, ConnectKernel(t) PROVE Types'
  BY <1>15 DEF ConnectKernel, Returns
<1>16. ASSUME NEW t \in Threads, ConnectRet(t) PROVE Types'
  BY <1>16 DEF ConnectRet, Finish, Refused
<1>17. ASSUME NEW t \in Threads, NEW c \in Sends, SendEntry(t, c) PROVE Types'
  <2>1. \E b \in BOOLEAN : data' = [data EXCEPT ![t] = [NoData EXCEPT !.sndbuf = sndbuf,
                                                                      !.deny = b]]
    <3>1. (IF build = "intree" THEN udpv6_sendmsg_ll(c)
           ELSE c = "linklocal" /\ IsActiveVpn(Route)) \in BOOLEAN
      BY DenialIsBoolean
    <3> QED
      BY <1>17, <3>1, Zenon DEF SendEntry
  <2>2. data' \in [Threads -> Saved]
    <3>1. Nothing \in Values
      OBVIOUS
    <3> HIDE DEF Values
    <3>2. PICK b \in BOOLEAN : data' = [data EXCEPT ![t] = [NoData EXCEPT !.sndbuf = sndbuf,
                                                                          !.deny = b]]
      BY <2>1
    <3>3. [NoData EXCEPT !.sndbuf = sndbuf, !.deny = b] \in Saved
      BY <3>1, NoDataSaved, Zenon
    <3> QED
      BY <3>2, <3>3, DataUpdates, Zenon
  <2>3. crowded' \in BOOLEAN
    BY <1>17 DEF SendEntry
  <2> QED
    BY <1>17, <2>2, <2>3 DEF SendEntry, Enter
<1>18. ASSUME NEW t \in Threads, SendLimit(t) PROVE Types'
  <2>1. data' = data \/ data' = [data EXCEPT ![t].spoofed = TRUE]
    BY <1>18, Zenon DEF SendLimit, Spoof
  <2>2. data' \in [Threads -> Saved]
    <3>1. data \in [Threads -> Saved] /\ data[t] \in Saved
      OBVIOUS
    <3>2. [data EXCEPT ![t].spoofed = TRUE] \in [Threads -> Saved]
      BY <3>1, DataUpdates, Zenon
    <3> QED
      BY <2>1, <3>1, <3>2
  <2>3. sndbuf' \in {0, SndBuf}
    BY <1>18, Zenon DEF SendLimit, Spoof, Types
  <2> QED
    BY <1>18, <2>2, <2>3 DEF SendLimit
<1>19. ASSUME NEW t \in Threads, sendmsg_pre(t) PROVE Types'
  <2>1. data' \in [Threads -> Saved]
    <3>1. data \in [Threads -> Saved] /\ data[t] \in Saved
      OBVIOUS
    <3>2. [data EXCEPT ![t].spoofed = TRUE] \in [Threads -> Saved]
      BY <3>1, DataUpdates, Zenon
    <3> QED
      BY <1>19, SendPreEffect, <3>1, <3>2
  <2>2. pc' \in [Threads -> {"idle", "limit", "kernel", "ret", "done"}]
    BY <1>19, SendPreEffect
  <2>3. ret' \in [Threads -> {OK, "EINVAL", "ENODEV", "EPERM", "EFAULT", "ECONNREFUSED",
                              "EAGAIN", "ENOBUFS"}]
    BY <1>19, SendPreEffect
  <2>4. \A u \in Threads : pc'[u] = "limit" => call'[u] \in Sends
    BY <1>19, SendPreEffect
  <2>5. UNCHANGED <<worldVars, sockVars, call, ubuf, histVars, boundWhileListed, crowded>>
    BY <1>19, SendPreEffect
  <2> QED
    BY <2>1, <2>2, <2>3, <2>4, <2>5
<1>20. ASSUME NEW t \in Threads, SendKernel(t) PROVE Types'
  BY <1>20 DEF SendKernel, Returns
<1>21. ASSUME NEW t \in Threads, SendRet(t) PROVE Types'
  <2>1. sndbuf' \in {0, SndBuf}
    BY <1>21 DEF SendRet, Restored, Saved
  <2>2. UNCHANGED <<worldVars, bound, probe, probing, call, ubuf, data, histVars,
                    boundWhileListed, crowded>>
    BY <1>21 DEF SendRet
  <2>3. Finish(t, IF data[t].deny THEN "ENOBUFS" ELSE ret[t])
    BY <1>21 DEF SendRet
  <2>4. pc' \in [Threads -> {"idle", "limit", "kernel", "ret", "done"}]
    BY <2>3 DEF Finish
  <2>5. ret' \in [Threads -> {OK, "EINVAL", "ENODEV", "EPERM", "EFAULT", "ECONNREFUSED",
                              "EAGAIN", "ENOBUFS"}]
    BY <2>3 DEF Finish
  <2>6. \A u \in Threads : pc'[u] = "limit" => call'[u] \in Sends
    BY <2>2, <2>3 DEF Finish
  <2> QED
    BY <2>1, <2>2, <2>4, <2>5, <2>6
<1>22. ASSUME NEW t \in Threads, Back(t) PROVE Types'
  <2>1. NoData \in Saved
    BY NoDataSaved DEF Types
  <2> QED
    BY <1>22, <2>1 DEF Back
<1>23. CASE UNCHANGED vars
  BY <1>23 DEF vars
<1> HIDE DEF Binds, Sends
<1> QED
  BY <1>1, <1>2, <1>3, <1>4, <1>5, <1>6, <1>7, <1>8, <1>9, <1>10, <1>11, <1>12,
     <1>13, <1>14, <1>15, <1>16, <1>17, <1>18, <1>19, <1>20, <1>21, <1>22, <1>23 DEF
     Next, Begin, Proceed

\* getsockopt keeps what the application may see of the bound device.
LEMMA DeviceStep == Types /\ BoundVpnNotReported /\ [Next]_vars => BoundVpnNotReported'
<1> SUFFICES ASSUME Types, BoundVpnNotReported, [Next]_vars PROVE BoundVpnNotReported'
  OBVIOUS
<1> USE SocketAssumption DEF Values, IsActiveVpn, Binds, Sends, Nothing, Fake, OK,
   sockVars, worldVars, histVars, Types, BoundVpnNotReported
<1>1. CASE SetVpns
  <2>1. \A u \in Threads : listed'[u] \subseteq listed[u]
    BY <1>1 DEF SetVpns
  <2>2. UNCHANGED <<pc, call, ubuf>>
    BY <1>1 DEF SetVpns
  <2> QED
    BY <2>1, <2>2
<1>2. CASE SetPolicy
  BY <1>2 DEF SetPolicy
<1>3. CASE Tick
  BY <1>3 DEF Tick
<1>4. ASSUME NEW t \in Threads, NEW opt \in Binds, NEW i \in Links, BindEntry(t, opt, i)
      PROVE  BoundVpnNotReported'
  BY <1>4 DEF BindEntry, Enter
<1>5. ASSUME NEW t \in Threads, NEW opt \in Binds, NEW i \in Links, setsockopt_bind(t, opt, i)
      PROVE  BoundVpnNotReported'
  BY <1>5 DEF setsockopt_bind, Enter
<1>6. ASSUME NEW t \in Threads, BindKernel(t) PROVE BoundVpnNotReported'
  BY <1>6 DEF BindKernel, Returns
<1>7. ASSUME NEW t \in Threads, BindRet(t) PROVE BoundVpnNotReported'
  BY <1>7 DEF BindRet, Finish
<1>8. ASSUME NEW t \in Threads, MarkEntry(t, "value") PROVE BoundVpnNotReported'
  BY <1>8 DEF MarkEntry, Enter
<1>9. ASSUME NEW t \in Threads, setsockopt_mark(t, "value")
      PROVE  BoundVpnNotReported'
  BY <1>9 DEF setsockopt_mark, Enter
<1>10. ASSUME NEW t \in Threads, MarkKernel(t) PROVE BoundVpnNotReported'
  BY <1>10 DEF MarkKernel, Finish
<1>11. ASSUME NEW t \in Threads, setsockopt_probe(t) PROVE BoundVpnNotReported'
  BY <1>11 DEF setsockopt_probe, Enter
<1>12. ASSUME NEW t \in Threads, DeviceEntry(t) PROVE BoundVpnNotReported'
  BY <1>12 DEF DeviceEntry, Enter
<1>13. ASSUME NEW t \in Threads, DeviceRet(t) PROVE BoundVpnNotReported'
  BY <1>13 DEF DeviceRet, Finish
<1>14. ASSUME NEW t \in Threads, ConnectEntry(t) PROVE BoundVpnNotReported'
  BY <1>14 DEF ConnectEntry, Enter
<1>15. ASSUME NEW t \in Threads, ConnectKernel(t) PROVE BoundVpnNotReported'
  BY <1>15 DEF ConnectKernel, Returns
<1>16. ASSUME NEW t \in Threads, ConnectRet(t) PROVE BoundVpnNotReported'
  BY <1>16 DEF ConnectRet, Finish, Refused
<1>17. ASSUME NEW t \in Threads, NEW c \in Sends, SendEntry(t, c)
      PROVE  BoundVpnNotReported'
  BY <1>17 DEF SendEntry, Enter, udpv6_sendmsg_ll
<1>18. ASSUME NEW t \in Threads, SendLimit(t) PROVE BoundVpnNotReported'
  BY <1>18 DEF SendLimit, Spoof
<1>19. ASSUME NEW t \in Threads, sendmsg_pre(t) PROVE BoundVpnNotReported'
  BY <1>19 DEF sendmsg_pre, Finish
<1>20. ASSUME NEW t \in Threads, SendKernel(t) PROVE BoundVpnNotReported'
  BY <1>20 DEF SendKernel, Returns
<1>21. ASSUME NEW t \in Threads, SendRet(t) PROVE BoundVpnNotReported'
  BY <1>21 DEF SendRet, Finish, Restored
<1>22. ASSUME NEW t \in Threads, Back(t) PROVE BoundVpnNotReported'
  BY <1>22 DEF Back
<1>23. CASE UNCHANGED vars
  BY <1>23 DEF vars
<1> HIDE DEF Binds, Sends
<1> QED
  BY <1>1, <1>2, <1>3, <1>4, <1>5, <1>6, <1>7, <1>8, <1>9, <1>10, <1>11, <1>12,
     <1>13, <1>14, <1>15, <1>16, <1>17, <1>18, <1>19, <1>20, <1>21, <1>22, <1>23 DEF
     Next, Begin, Proceed

\* A step that is none of the connect of u leaves it alone.
LEMMA ConnectFrame ==
  ASSUME Types, [Next]_vars, NEW u \in Threads,
         ~ConnectEntry(u), ~ConnectKernel(u), ~ConnectRet(u)
  PROVE  ConnectSame(u) \/ call'[u] # "connect"
<1> USE DEF Binds, Sends, sockVars, worldVars, histVars, Types, ConnectSame
<1>1. CASE SetVpns
  BY <1>1 DEF SetVpns
<1>2. CASE SetPolicy
  BY <1>2 DEF SetPolicy
<1>3. CASE Tick
  BY <1>3 DEF Tick
<1>4. ASSUME NEW t \in Threads, NEW opt \in Binds, NEW i \in Links, BindEntry(t, opt, i)
      PROVE  ConnectSame(u) \/ call'[u] # "connect"
  BY <1>4 DEF BindEntry, Enter
<1>5. ASSUME NEW t \in Threads, NEW opt \in Binds, NEW i \in Links, setsockopt_bind(t, opt, i)
      PROVE  ConnectSame(u) \/ call'[u] # "connect"
  BY <1>5 DEF setsockopt_bind, Enter
<1>6. ASSUME NEW t \in Threads, BindKernel(t)
      PROVE  ConnectSame(u) \/ call'[u] # "connect"
  BY <1>6 DEF BindKernel, Returns
<1>7. ASSUME NEW t \in Threads, BindRet(t)
      PROVE  ConnectSame(u) \/ call'[u] # "connect"
  BY <1>7 DEF BindRet, Finish
<1>8. ASSUME NEW t \in Threads, MarkEntry(t, "value")
      PROVE  ConnectSame(u) \/ call'[u] # "connect"
  BY <1>8 DEF MarkEntry, Enter
<1>9. ASSUME NEW t \in Threads, setsockopt_mark(t, "value")
      PROVE  ConnectSame(u) \/ call'[u] # "connect"
  BY <1>9 DEF setsockopt_mark, Enter
<1>10. ASSUME NEW t \in Threads, MarkKernel(t)
      PROVE  ConnectSame(u) \/ call'[u] # "connect"
  BY <1>10 DEF MarkKernel, Finish
<1>11. ASSUME NEW t \in Threads, setsockopt_probe(t)
      PROVE  ConnectSame(u) \/ call'[u] # "connect"
  BY <1>11 DEF setsockopt_probe, Enter
<1>12. ASSUME NEW t \in Threads, DeviceEntry(t)
      PROVE  ConnectSame(u) \/ call'[u] # "connect"
  BY <1>12 DEF DeviceEntry, Enter
<1>13. ASSUME NEW t \in Threads, DeviceRet(t)
      PROVE  ConnectSame(u) \/ call'[u] # "connect"
  BY <1>13 DEF DeviceRet, Finish
<1>14. ASSUME NEW t \in Threads, ConnectEntry(t)
      PROVE  ConnectSame(u) \/ call'[u] # "connect"
  BY <1>14 DEF ConnectEntry, Enter
<1>15. ASSUME NEW t \in Threads, ConnectKernel(t)
      PROVE  ConnectSame(u) \/ call'[u] # "connect"
  BY <1>15 DEF ConnectKernel, Returns
<1>16. ASSUME NEW t \in Threads, ConnectRet(t)
      PROVE  ConnectSame(u) \/ call'[u] # "connect"
  BY <1>16 DEF ConnectRet, Finish, Refused
<1>17. ASSUME NEW t \in Threads, NEW c \in Sends, SendEntry(t, c)
      PROVE  ConnectSame(u) \/ call'[u] # "connect"
  BY <1>17 DEF SendEntry, Enter, udpv6_sendmsg_ll
<1>18. ASSUME NEW t \in Threads, SendLimit(t)
      PROVE  ConnectSame(u) \/ call'[u] # "connect"
  BY <1>18 DEF SendLimit, Spoof
<1>19. ASSUME NEW t \in Threads, sendmsg_pre(t)
      PROVE  ConnectSame(u) \/ call'[u] # "connect"
  BY <1>19 DEF sendmsg_pre, Finish
<1>20. ASSUME NEW t \in Threads, SendKernel(t)
      PROVE  ConnectSame(u) \/ call'[u] # "connect"
  BY <1>20 DEF SendKernel, Returns
<1>21. ASSUME NEW t \in Threads, SendRet(t)
      PROVE  ConnectSame(u) \/ call'[u] # "connect"
  BY <1>21 DEF SendRet, Finish, Restored
<1>22. ASSUME NEW t \in Threads, Back(t)
      PROVE  ConnectSame(u) \/ call'[u] # "connect"
  BY <1>22 DEF Back
<1>23. CASE UNCHANGED vars
  BY <1>23 DEF vars
<1> HIDE DEF Binds, Sends
<1> QED
  BY <1>1, <1>2, <1>3, <1>4, <1>5, <1>6, <1>7, <1>8, <1>9, <1>10, <1>11, <1>12,
     <1>13, <1>14, <1>15, <1>16, <1>17, <1>18, <1>19, <1>20, <1>21, <1>22, <1>23 DEF
     Next, Begin, Proceed

\* The verdict of a connect is kept until it returns.
LEMMA ConnectStep == Types /\ ConnectsKeepTheirVerdict /\ [Next]_vars
                       => ConnectsKeepTheirVerdict'
<1> SUFFICES ASSUME Types, [Next]_vars, NEW u \in Threads, Connecting(u)
             PROVE  Connecting(u)'
  BY DEF ConnectsKeepTheirVerdict
<1>1. CASE ConnectSame(u)
  BY <1>1 DEF ConnectSame, Connecting
<1>2. CASE call'[u] # "connect"
  BY <1>2 DEF Connecting
<1>3. CASE ConnectEntry(u)
  <2>1. /\ pc'[u] = "kernel" /\ verdicts'[u] = {block} /\ wrapper' = wrapper
        /\ data'[u] = [NoData EXCEPT !.deny = block]
        /\ ubuf'[u] = IF block /\ wrapper THEN Nothing ELSE "address"
    BY <1>3 DEF ConnectEntry, Enter, Types, worldVars
  <2>2. data'[u].deny = block
    BY <2>1 DEF NoData
  <2>3. CASE block /\ wrapper
    BY <2>1, <2>2, <2>3 DEF Connecting
  <2>4. CASE ~(block /\ wrapper)
    BY <2>1, <2>2, <2>4 DEF Connecting, Nothing
  <2> QED
    BY <2>3, <2>4
<1>4. CASE ConnectKernel(u)
  BY <1>4 DEF ConnectKernel, Returns, Connecting, Types, worldVars, histVars
<1>5. CASE ConnectRet(u)
  BY <1>5 DEF ConnectRet, Finish, Refused, Connecting, Types, worldVars, histVars
<1> QED
  BY <1>1, <1>2, <1>3, <1>4, <1>5, ConnectFrame

\* A step that is none of the bind of u leaves it alone.
LEMMA BindFrame ==
  ASSUME Types, [Next]_vars, NEW u \in Threads, ~BindKernel(u), ~BindRet(u),
         \A opt \in Binds, i \in Links : ~BindEntry(u, opt, i) /\ ~setsockopt_bind(u, opt, i)
  PROVE  BindSame(u) \/ call'[u] \notin Binds
<1> USE DEF Binds, Sends, sockVars, worldVars, histVars, Types, BindSame
<1>1. CASE SetVpns
  BY <1>1 DEF SetVpns
<1>2. CASE SetPolicy
  BY <1>2 DEF SetPolicy
<1>3. CASE Tick
  BY <1>3 DEF Tick
<1>4. ASSUME NEW t \in Threads, NEW opt \in Binds, NEW i \in Links, BindEntry(t, opt, i)
      PROVE  BindSame(u) \/ call'[u] \notin Binds
  <2>1. u # t
    BY <1>4
  <2>2. data'[u] = data[u] /\ ubuf'[u] = ubuf[u] /\ pc'[u] = pc[u]
    <3>1. \E d : data' = data \/ data' = [data EXCEPT ![t] = d]
      BY <1>4, Zenon DEF BindEntry
    <3>2. \E v : ubuf' = [ubuf EXCEPT ![t] = v]
      BY <1>4, Zenon DEF BindEntry
    <3>3. pc' = [pc EXCEPT ![t] = "kernel"]
      BY <1>4 DEF BindEntry
    <3> QED
      BY <2>1, <3>1, <3>2, <3>3
  <2> QED
    BY <1>4, <2>1, <2>2 DEF BindEntry, Enter
<1>5. ASSUME NEW t \in Threads, NEW opt \in Binds, NEW i \in Links, setsockopt_bind(t, opt, i)
      PROVE  BindSame(u) \/ call'[u] \notin Binds
  BY <1>5 DEF setsockopt_bind, Enter
<1>6. ASSUME NEW t \in Threads, BindKernel(t)
      PROVE  BindSame(u) \/ call'[u] \notin Binds
  BY <1>6 DEF BindKernel, Returns
<1>7. ASSUME NEW t \in Threads, BindRet(t)
      PROVE  BindSame(u) \/ call'[u] \notin Binds
  BY <1>7 DEF BindRet, Finish
<1>8. ASSUME NEW t \in Threads, MarkEntry(t, "value")
      PROVE  BindSame(u) \/ call'[u] \notin Binds
  BY <1>8 DEF MarkEntry, Enter
<1>9. ASSUME NEW t \in Threads, setsockopt_mark(t, "value")
      PROVE  BindSame(u) \/ call'[u] \notin Binds
  BY <1>9 DEF setsockopt_mark, Enter
<1>10. ASSUME NEW t \in Threads, MarkKernel(t)
      PROVE  BindSame(u) \/ call'[u] \notin Binds
  BY <1>10 DEF MarkKernel, Finish
<1>11. ASSUME NEW t \in Threads, setsockopt_probe(t)
      PROVE  BindSame(u) \/ call'[u] \notin Binds
  BY <1>11 DEF setsockopt_probe, Enter
<1>12. ASSUME NEW t \in Threads, DeviceEntry(t)
      PROVE  BindSame(u) \/ call'[u] \notin Binds
  BY <1>12 DEF DeviceEntry, Enter
<1>13. ASSUME NEW t \in Threads, DeviceRet(t)
      PROVE  BindSame(u) \/ call'[u] \notin Binds
  BY <1>13 DEF DeviceRet, Finish
<1>14. ASSUME NEW t \in Threads, ConnectEntry(t)
      PROVE  BindSame(u) \/ call'[u] \notin Binds
  BY <1>14 DEF ConnectEntry, Enter
<1>15. ASSUME NEW t \in Threads, ConnectKernel(t)
      PROVE  BindSame(u) \/ call'[u] \notin Binds
  BY <1>15 DEF ConnectKernel, Returns
<1>16. ASSUME NEW t \in Threads, ConnectRet(t)
      PROVE  BindSame(u) \/ call'[u] \notin Binds
  BY <1>16 DEF ConnectRet, Finish, Refused
<1>17. ASSUME NEW t \in Threads, NEW c \in Sends, SendEntry(t, c)
      PROVE  BindSame(u) \/ call'[u] \notin Binds
  BY <1>17 DEF SendEntry, Enter, udpv6_sendmsg_ll
<1>18. ASSUME NEW t \in Threads, SendLimit(t)
      PROVE  BindSame(u) \/ call'[u] \notin Binds
  BY <1>18 DEF SendLimit, Spoof
<1>19. ASSUME NEW t \in Threads, sendmsg_pre(t)
      PROVE  BindSame(u) \/ call'[u] \notin Binds
  <2>1. UNCHANGED <<call, ubuf, asked, listed>> /\ call[t] \in Sends
    BY <1>19, SendPreEffect
  <2>2. CASE u = t
    BY <2>1, <2>2
  <2>3. CASE u # t
    BY <1>19, <2>1, <2>3, SendPreEffect
  <2> QED
    BY <2>2, <2>3
<1>20. ASSUME NEW t \in Threads, SendKernel(t)
      PROVE  BindSame(u) \/ call'[u] \notin Binds
  BY <1>20 DEF SendKernel, Returns
<1>21. ASSUME NEW t \in Threads, SendRet(t)
      PROVE  BindSame(u) \/ call'[u] \notin Binds
  BY <1>21 DEF SendRet, Finish, Restored
<1>22. ASSUME NEW t \in Threads, Back(t) PROVE BindSame(u) \/ call'[u] \notin Binds
  BY <1>22 DEF Back
<1>23. CASE UNCHANGED vars
  BY <1>23 DEF vars
<1> HIDE DEF Binds, Sends
<1> QED
  BY <1>1, <1>2, <1>3, <1>4, <1>5, <1>6, <1>7, <1>8, <1>9, <1>10, <1>11, <1>12,
     <1>13, <1>14, <1>15, <1>16, <1>17, <1>18, <1>19, <1>20, <1>21, <1>22, <1>23 DEF
     Next, Begin, Proceed

\* A bind is guarded from its entry to its return.
LEMMA BindStep == Types /\ IdleIsClean /\ (\A t \in Threads : Binding(t)) /\ [Next]_vars
                    => \A t \in Threads : Binding(t)'
<1> SUFFICES ASSUME Types, IdleIsClean, [Next]_vars, NEW u \in Threads, Binding(u)
             PROVE  Binding(u)'
  OBVIOUS
<1> USE SocketAssumption DEF Binds, Nothing, Fake, OK
<1>1. CASE BindSame(u)
  BY <1>1 DEF BindSame, Binding
<1>2. CASE call'[u] \notin Binds
  BY <1>2 DEF Binding
<1>3. ASSUME NEW opt \in Binds, NEW i \in Links, BindEntry(u, opt, i) PROVE Binding(u)'
  <2>1. call'[u] = opt /\ pc'[u] = "kernel" /\ asked'[u] = i /\ listed'[u] = vpns
    BY <1>3 DEF BindEntry, Enter, Types
  <2>2. CASE ubuf'[u] = Fake /\ data'[u] = [NoData EXCEPT !.modified = TRUE, !.orig = i,
                                                          !.deny = opt = "index"]
    <3>1. /\ data'[u].modified /\ data'[u].orig = i /\ ~data'[u].badlen
          /\ data'[u].deny <=> opt = "index"
      BY <2>2 DEF NoData
    <3> QED
      BY <2>1, <2>2, <3>1 DEF Binding
  <2>3. CASE ubuf'[u] = i /\ data'[u] = [NoData EXCEPT !.modified = TRUE, !.orig = i,
                                                       !.badlen = TRUE, !.deny = TRUE]
    BY <2>1, <2>3 DEF Binding, NoData
  <2>4. CASE ubuf'[u] = i /\ i \notin vpns /\ data' = data
    <3>1. data'[u] = NoData
      BY <1>3, <2>4 DEF BindEntry, Enter, IdleIsClean
    <3>2. ~data'[u].modified /\ ~data'[u].deny
      BY <3>1 DEF NoData
    <3> QED
      BY <2>1, <2>4, <3>2 DEF Binding
  <2> QED
    BY <1>3, <2>2, <2>3, <2>4 DEF BindEntry, IsActiveVpn, Types
<1>4. ASSUME NEW opt \in Binds, NEW i \in Links, setsockopt_bind(u, opt, i)
      PROVE  Binding(u)'
  BY <1>4 DEF setsockopt_bind, Enter, Types, IsActiveVpn, NoData, Binding
<1>5. CASE BindKernel(u)
  BY <1>5 DEF BindKernel, Returns, Types, histVars, Binding
<1>6. CASE BindRet(u)
  <2>1. /\ pc[u] = "ret" /\ call[u] \in Binds /\ call'[u] = call[u] /\ data'[u] = data[u]
        /\ pc'[u] = "done" /\ ret'[u] = IF data[u].deny THEN "ENODEV" ELSE ret[u]
    BY <1>6 DEF BindRet, Finish, Types
  <2>2. \/ ubuf'[u] = asked'[u]
        \/ asked'[u] = asked[u] /\ ubuf'[u] = IF data[u].modified THEN data[u].orig
                                              ELSE ubuf[u]
    BY <1>6 DEF BindRet, Types
  <2> QED
    BY <2>1, <2>2 DEF Binding
<1> QED
  BY <1>1, <1>2, <1>3, <1>4, <1>5, <1>6, BindFrame

\* Nothing that is listed all along gets bound to.
LEMMA BoundStep ==
  ASSUME Types, BindsAreGuarded, [Next]_vars
  PROVE  ~boundWhileListed'
<1> USE DEF Binds, Sends, sockVars, worldVars, histVars, Types, BindsAreGuarded
<1>1. CASE SetVpns
  BY <1>1 DEF SetVpns
<1>2. CASE SetPolicy
  BY <1>2 DEF SetPolicy
<1>3. CASE Tick
  BY <1>3 DEF Tick
<1>4. ASSUME NEW t \in Threads, NEW opt \in Binds, NEW i \in Links, BindEntry(t, opt, i)
      PROVE  ~boundWhileListed'
  BY <1>4 DEF BindEntry, Enter
<1>5. ASSUME NEW t \in Threads, NEW opt \in Binds, NEW i \in Links, setsockopt_bind(t, opt, i)
      PROVE  ~boundWhileListed'
  BY <1>5 DEF setsockopt_bind, Enter
<1>6. ASSUME NEW t \in Threads, BindKernel(t) PROVE ~boundWhileListed'
  BY <1>6 DEF BindKernel, Returns, Binding
<1>7. ASSUME NEW t \in Threads, BindRet(t) PROVE ~boundWhileListed'
  BY <1>7 DEF BindRet, Finish
<1>8. ASSUME NEW t \in Threads, MarkEntry(t, "value") PROVE ~boundWhileListed'
  BY <1>8 DEF MarkEntry, Enter
<1>9. ASSUME NEW t \in Threads, setsockopt_mark(t, "value") PROVE ~boundWhileListed'
  BY <1>9 DEF setsockopt_mark, Enter
<1>10. ASSUME NEW t \in Threads, MarkKernel(t) PROVE ~boundWhileListed'
  BY <1>10 DEF MarkKernel, Finish
<1>11. ASSUME NEW t \in Threads, setsockopt_probe(t) PROVE ~boundWhileListed'
  BY <1>11 DEF setsockopt_probe, Enter
<1>12. ASSUME NEW t \in Threads, DeviceEntry(t) PROVE ~boundWhileListed'
  BY <1>12 DEF DeviceEntry, Enter
<1>13. ASSUME NEW t \in Threads, DeviceRet(t) PROVE ~boundWhileListed'
  BY <1>13 DEF DeviceRet, Finish
<1>14. ASSUME NEW t \in Threads, ConnectEntry(t) PROVE ~boundWhileListed'
  BY <1>14 DEF ConnectEntry, Enter
<1>15. ASSUME NEW t \in Threads, ConnectKernel(t) PROVE ~boundWhileListed'
  BY <1>15 DEF ConnectKernel, Returns
<1>16. ASSUME NEW t \in Threads, ConnectRet(t) PROVE ~boundWhileListed'
  BY <1>16 DEF ConnectRet, Finish, Refused
<1>17. ASSUME NEW t \in Threads, NEW c \in Sends, SendEntry(t, c)
      PROVE  ~boundWhileListed'
  BY <1>17 DEF SendEntry, Enter, udpv6_sendmsg_ll
<1>18. ASSUME NEW t \in Threads, SendLimit(t) PROVE ~boundWhileListed'
  BY <1>18 DEF SendLimit, Spoof
<1>19. ASSUME NEW t \in Threads, sendmsg_pre(t) PROVE ~boundWhileListed'
  BY <1>19 DEF sendmsg_pre, Finish
<1>20. ASSUME NEW t \in Threads, SendKernel(t) PROVE ~boundWhileListed'
  BY <1>20 DEF SendKernel, Returns
<1>21. ASSUME NEW t \in Threads, SendRet(t) PROVE ~boundWhileListed'
  BY <1>21 DEF SendRet, Finish, Restored
<1>22. ASSUME NEW t \in Threads, Back(t) PROVE ~boundWhileListed'
  BY <1>22 DEF Back
<1>23. CASE UNCHANGED vars
  BY <1>23 DEF vars
<1> HIDE DEF Binds, Sends
<1> QED
  BY <1>1, <1>2, <1>3, <1>4, <1>5, <1>6, <1>7, <1>8, <1>9, <1>10, <1>11, <1>12,
     <1>13, <1>14, <1>15, <1>16, <1>17, <1>18, <1>19, <1>20, <1>21, <1>22, <1>23 DEF
     Next, Begin, Proceed

\* An idle thread has left nothing behind.
LEMMA IdleStep ==
  ASSUME Types, IdleIsClean, [Next]_vars
  PROVE  IdleIsClean'
<1> USE DEF Binds, Sends, sockVars, worldVars, histVars, Types, IdleIsClean
<1>1. CASE SetVpns
  BY <1>1 DEF SetVpns
<1>2. CASE SetPolicy
  BY <1>2 DEF SetPolicy
<1>3. CASE Tick
  BY <1>3 DEF Tick
<1>4. ASSUME NEW t \in Threads, NEW opt \in Binds, NEW i \in Links, BindEntry(t, opt, i)
      PROVE  IdleIsClean'
  BY <1>4 DEF BindEntry, Enter
<1>5. ASSUME NEW t \in Threads, NEW opt \in Binds, NEW i \in Links, setsockopt_bind(t, opt, i)
      PROVE  IdleIsClean'
  BY <1>5 DEF setsockopt_bind, Enter
<1>6. ASSUME NEW t \in Threads, BindKernel(t) PROVE IdleIsClean'
  BY <1>6 DEF BindKernel, Returns
<1>7. ASSUME NEW t \in Threads, BindRet(t) PROVE IdleIsClean'
  BY <1>7 DEF BindRet, Finish
<1>8. ASSUME NEW t \in Threads, MarkEntry(t, "value") PROVE IdleIsClean'
  BY <1>8 DEF MarkEntry, Enter
<1>9. ASSUME NEW t \in Threads, setsockopt_mark(t, "value") PROVE IdleIsClean'
  BY <1>9 DEF setsockopt_mark, Enter
<1>10. ASSUME NEW t \in Threads, MarkKernel(t) PROVE IdleIsClean'
  BY <1>10 DEF MarkKernel, Finish
<1>11. ASSUME NEW t \in Threads, setsockopt_probe(t) PROVE IdleIsClean'
  BY <1>11 DEF setsockopt_probe, Enter
<1>12. ASSUME NEW t \in Threads, DeviceEntry(t) PROVE IdleIsClean'
  BY <1>12 DEF DeviceEntry, Enter
<1>13. ASSUME NEW t \in Threads, DeviceRet(t) PROVE IdleIsClean'
  BY <1>13 DEF DeviceRet, Finish
<1>14. ASSUME NEW t \in Threads, ConnectEntry(t) PROVE IdleIsClean'
  BY <1>14 DEF ConnectEntry, Enter
<1>15. ASSUME NEW t \in Threads, ConnectKernel(t) PROVE IdleIsClean'
  BY <1>15 DEF ConnectKernel, Returns
<1>16. ASSUME NEW t \in Threads, ConnectRet(t) PROVE IdleIsClean'
  BY <1>16 DEF ConnectRet, Finish, Refused
<1>17. ASSUME NEW t \in Threads, NEW c \in Sends, SendEntry(t, c) PROVE IdleIsClean'
  BY <1>17 DEF SendEntry, Enter, udpv6_sendmsg_ll
<1>18. ASSUME NEW t \in Threads, SendLimit(t) PROVE IdleIsClean'
  BY <1>18 DEF SendLimit, Spoof
<1>19. ASSUME NEW t \in Threads, sendmsg_pre(t) PROVE IdleIsClean'
  <2> SUFFICES ASSUME NEW u \in Threads, pc'[u] = "idle"
               PROVE  call'[u] = "none" /\ data'[u] = NoData
    OBVIOUS
  <2>1. u # t /\ pc[u] = "idle"
    BY <1>19, SendPreEffect
  <2>2. data'[u] = data[u] /\ call'[u] = call[u]
    BY <1>19, <2>1, SendPreEffect
  <2> QED
    BY <2>1, <2>2
<1>20. ASSUME NEW t \in Threads, SendKernel(t) PROVE IdleIsClean'
  BY <1>20 DEF SendKernel, Returns
<1>21. ASSUME NEW t \in Threads, SendRet(t) PROVE IdleIsClean'
  BY <1>21 DEF SendRet, Finish, Restored
<1>22. ASSUME NEW t \in Threads, Back(t) PROVE IdleIsClean'
  BY <1>22 DEF Back
<1>23. CASE UNCHANGED vars
  BY <1>23 DEF vars
<1> HIDE DEF Binds, Sends
<1> QED
  BY <1>1, <1>2, <1>3, <1>4, <1>5, <1>6, <1>7, <1>8, <1>9, <1>10, <1>11, <1>12,
     <1>13, <1>14, <1>15, <1>16, <1>17, <1>18, <1>19, <1>20, <1>21, <1>22, <1>23 DEF
     Next, Begin, Proceed

\* A step of a thread that is not sending leaves the sends alone.
LEMMA BufferFrame ==
  ASSUME BufferIsKept, NEW t \in Threads, ~InSend(t), call'[t] \notin Sends,
         UNCHANGED <<sndbuf, crowded>>, probing' => probe',
         \A u \in Threads \ {t} : SendSame(u)
  PROVE  BufferIsKept'
<1>1. ~InSend(t)' /\ DoneKept(t)'
  BY DEF InSend, DoneKept, Sends
<1>2. \A u \in Threads \ {t} : (InSend(u)' <=> InSend(u)) /\ (DoneKept(u)' <=> DoneKept(u))
  BY DEF InSend, DoneKept, SendSame
<1>3. \A u \in Threads \ {t} : SendKept(u) => SendKept(u)'
  BY <1>2 DEF SendKept, SendSame
<1>4. SendKept(t)'
  BY <1>1 DEF SendKept
<1>5. OneSend => OneSend'
  BY <1>1, <1>2 DEF OneSend
<1>6. BufferFree => BufferFree'
  BY <1>1, <1>2 DEF BufferFree
<1> QED
  BY <1>1, <1>2, <1>3, <1>4, <1>5, <1>6 DEF BufferIsKept

\* So do steps of no thread.
LEMMA BufferIdle ==
  ASSUME BufferIsKept, UNCHANGED <<pc, call, data, ret, sndbuf, crowded, probe, probing>>
  PROVE  BufferIsKept'
  BY DEF BufferIsKept, OneSend, BufferFree, SendKept, DoneKept, InSend

\* A send that goes on is still the only one.
LEMMA SendsGoOn ==
  ASSUME BufferIsKept, ~crowded, NEW t \in Threads, InSend(t),
         \A u \in Threads \ {t} : SendSame(u)
  PROVE  OneSend' /\ (\A u \in Threads \ {t} : SendKept(u)' /\ DoneKept(u)')
<1>1. \A u \in Threads \ {t} : ~InSend(u)
  BY DEF BufferIsKept, OneSend
<1>2. \A u \in Threads \ {t} : ~InSend(u)' /\ (DoneKept(u)' <=> DoneKept(u))
  BY <1>1 DEF InSend, SendSame, DoneKept
<1> QED
  BY <1>2 DEF OneSend, SendKept, BufferIsKept

\* The send buffer is kept or can be put back.
LEMMA BufferStep ==
  ASSUME Types, IdleIsClean, BufferIsKept, [Next]_vars
  PROVE  BufferIsKept'
<1> USE DEF Binds, Sends, sockVars, worldVars, histVars, Types, InSend
<1>1. CASE SetVpns
  BY <1>1, BufferIdle DEF SetVpns
<1>2. CASE SetPolicy
  BY <1>2, BufferIdle DEF SetPolicy
<1>3. CASE Tick
  BY <1>3, BufferIdle DEF Tick
<1>4. ASSUME NEW t \in Threads, NEW opt \in Binds, NEW i \in Links, BindEntry(t, opt, i)
      PROVE  BufferIsKept'
  <2>1. /\ call' = [call EXCEPT ![t] = opt] /\ pc' = [pc EXCEPT ![t] = "kernel"]
        /\ UNCHANGED <<sndbuf, crowded, probe, probing, ret>> /\ pc[t] = "idle"
    BY <1>4 DEF BindEntry, Enter
  <2>2. \E d : data' = data \/ data' = [data EXCEPT ![t] = d]
    BY <1>4, Zenon DEF BindEntry
  <2>3. \A u \in Threads \ {t} : SendSame(u)
    BY <2>1, <2>2 DEF SendSame
  <2>4. ~InSend(t) /\ call'[t] \notin Sends /\ (probing' => probe')
    BY <2>1 DEF IdleIsClean, BufferIsKept
  <2> QED
    BY <2>1, <2>3, <2>4, BufferFrame
<1>5. ASSUME NEW t \in Threads, NEW opt \in Binds, NEW i \in Links, setsockopt_bind(t, opt, i)
      PROVE  BufferIsKept'
  <2>1. /\ UNCHANGED <<sndbuf, crowded>> /\ (probing' => probe') /\ ~InSend(t)
        /\ call'[t] \notin Sends /\ \A u \in Threads \ {t} : SendSame(u)
    BY <1>5 DEF setsockopt_bind, Enter, IdleIsClean, SendSame, BufferIsKept
  <2> QED
    BY <2>1, BufferFrame
<1>6. ASSUME NEW t \in Threads, BindKernel(t) PROVE BufferIsKept'
  <2>1. /\ UNCHANGED <<call, data, sndbuf, crowded>> /\ call[t] \notin Sends
        /\ probing' => probe'
    BY <1>6 DEF BindKernel, BufferIsKept
  <2>2. \E r : Returns(t, r)
    BY <1>6, Zenon DEF BindKernel
  <2>3. \A u \in Threads \ {t} : SendSame(u)
    BY <2>1, <2>2 DEF Returns, SendSame
  <2> QED
    BY <2>1, <2>3, BufferFrame
<1>7. ASSUME NEW t \in Threads, BindRet(t) PROVE BufferIsKept'
  <2>1. /\ UNCHANGED <<call, data, sndbuf, crowded>> /\ call[t] \notin Sends
        /\ probing' => probe'
    BY <1>7 DEF BindRet, BufferIsKept
  <2>2. \E r : Finish(t, r)
    BY <1>7, Zenon DEF BindRet
  <2>3. \A u \in Threads \ {t} : SendSame(u)
    BY <2>1, <2>2 DEF Finish, SendSame
  <2> QED
    BY <2>1, <2>3, BufferFrame
<1>8. ASSUME NEW t \in Threads, MarkEntry(t, "value") PROVE BufferIsKept'
  <2>1. /\ UNCHANGED <<sndbuf, crowded>> /\ (probing' => probe') /\ ~InSend(t)
        /\ call'[t] \notin Sends /\ \A u \in Threads \ {t} : SendSame(u)
    BY <1>8 DEF MarkEntry, Enter, IdleIsClean, SendSame, BufferIsKept
  <2> QED
    BY <2>1, BufferFrame
<1>9. ASSUME NEW t \in Threads, setsockopt_mark(t, "value") PROVE BufferIsKept'
  <2>1. /\ UNCHANGED <<sndbuf, crowded>> /\ (probing' => probe') /\ ~InSend(t)
        /\ call'[t] \notin Sends /\ \A u \in Threads \ {t} : SendSame(u)
    BY <1>9 DEF setsockopt_mark, Enter, IdleIsClean, SendSame, BufferIsKept
  <2> QED
    BY <2>1, BufferFrame
<1>10. ASSUME NEW t \in Threads, MarkKernel(t) PROVE BufferIsKept'
  <2>1. /\ UNCHANGED <<call, data, sndbuf, crowded>> /\ call[t] \notin Sends
        /\ probing' => probe'
    BY <1>10 DEF MarkKernel, BufferIsKept
  <2>2. \E r : Finish(t, r)
    BY <1>10, Zenon DEF MarkKernel
  <2>3. \A u \in Threads \ {t} : SendSame(u)
    BY <2>1, <2>2 DEF Finish, SendSame
  <2> QED
    BY <2>1, <2>3, BufferFrame
<1>11. ASSUME NEW t \in Threads, setsockopt_probe(t) PROVE BufferIsKept'
  <2>1. /\ UNCHANGED <<sndbuf, crowded>> /\ (probing' => probe') /\ ~InSend(t)
        /\ call'[t] \notin Sends /\ \A u \in Threads \ {t} : SendSame(u)
    BY <1>11 DEF setsockopt_probe, Enter, IdleIsClean, SendSame, BufferIsKept
  <2> QED
    BY <2>1, BufferFrame
<1>12. ASSUME NEW t \in Threads, DeviceEntry(t) PROVE BufferIsKept'
  <2>1. /\ UNCHANGED <<sndbuf, crowded>> /\ (probing' => probe') /\ ~InSend(t)
        /\ call'[t] \notin Sends /\ \A u \in Threads \ {t} : SendSame(u)
    BY <1>12 DEF DeviceEntry, Enter, IdleIsClean, SendSame, BufferIsKept
  <2> QED
    BY <2>1, BufferFrame
<1>13. ASSUME NEW t \in Threads, DeviceRet(t) PROVE BufferIsKept'
  <2>1. /\ UNCHANGED <<sndbuf, crowded>> /\ (probing' => probe') /\ ~InSend(t)
        /\ call'[t] \notin Sends /\ \A u \in Threads \ {t} : SendSame(u)
    BY <1>13 DEF DeviceRet, Finish, SendSame, BufferIsKept
  <2> QED
    BY <2>1, BufferFrame
<1>14. ASSUME NEW t \in Threads, ConnectEntry(t) PROVE BufferIsKept'
  <2>1. /\ UNCHANGED <<sndbuf, crowded>> /\ (probing' => probe') /\ ~InSend(t)
        /\ call'[t] \notin Sends /\ \A u \in Threads \ {t} : SendSame(u)
    BY <1>14 DEF ConnectEntry, Enter, IdleIsClean, SendSame, BufferIsKept
  <2> QED
    BY <2>1, BufferFrame
<1>15. ASSUME NEW t \in Threads, ConnectKernel(t) PROVE BufferIsKept'
  <2>1. /\ UNCHANGED <<sndbuf, crowded>> /\ (probing' => probe') /\ ~InSend(t)
        /\ call'[t] \notin Sends /\ \A u \in Threads \ {t} : SendSame(u)
    BY <1>15 DEF ConnectKernel, Returns, SendSame, BufferIsKept
  <2> QED
    BY <2>1, BufferFrame
<1>16. ASSUME NEW t \in Threads, ConnectRet(t) PROVE BufferIsKept'
  <2>1. /\ UNCHANGED <<sndbuf, crowded>> /\ (probing' => probe') /\ ~InSend(t)
        /\ call'[t] \notin Sends /\ \A u \in Threads \ {t} : SendSame(u)
    BY <1>16 DEF ConnectRet, Finish, Refused, SendSame, BufferIsKept
  <2> QED
    BY <2>1, BufferFrame
<1>17. ASSUME NEW t \in Threads, NEW c \in Sends, SendEntry(t, c)
      PROVE  BufferIsKept'
  <2>1. /\ pc[t] = "idle" /\ call[t] = "none"
        /\ pc' = [pc EXCEPT ![t] = "limit"] /\ call' = [call EXCEPT ![t] = c]
        /\ UNCHANGED <<sndbuf, probe, probing, ret>>
    BY <1>17 DEF SendEntry, Enter, IdleIsClean
  <2>2. data'[t].sndbuf = sndbuf /\ ~data'[t].spoofed
    BY <1>17 DEF SendEntry, NoData
  <2>3. CASE crowded'
    BY <2>1, <2>3 DEF BufferIsKept
  <2>4. CASE ~crowded'
    <3>1. ~crowded /\ \A u \in Threads : ~InSend(u)
      BY <1>17, <2>4, Zenon DEF SendEntry, InSend
    <3>2. sndbuf = SndBuf
      BY <3>1 DEF BufferIsKept, BufferFree
    <3>3. \A u \in Threads \ {t} : ~InSend(u)' /\ DoneKept(u)'
      BY <2>1, <3>1 DEF DoneKept, BufferIsKept
    <3>4. InSend(t)' /\ DoneKept(t)'
      BY <2>1 DEF DoneKept
    <3>5. SendKept(t)'
      BY <2>1, <2>2, <3>2 DEF SendKept
    <3>6. OneSend' /\ BufferFree' /\ \A u \in Threads : SendKept(u)'
      BY <3>3, <3>4, <3>5 DEF OneSend, BufferFree, SendKept
    <3> QED
      BY <2>1, <3>3, <3>4, <3>6 DEF BufferIsKept
  <2> QED
    BY <2>3, <2>4
<1>18. ASSUME NEW t \in Threads, SendLimit(t) PROVE BufferIsKept'
  <2>1. /\ pc[t] = "limit" /\ pc' = [pc EXCEPT ![t] = "kernel"]
        /\ UNCHANGED <<call, ret, crowded, probe, probing>> /\ call[t] \in Sends
    BY <1>18 DEF SendLimit
  <2>2. \/ data' = data /\ sndbuf' = sndbuf
        \/ call[t] = "send" /\ sndbuf' = 0 /\ data' = [data EXCEPT ![t].spoofed = TRUE]
    BY <1>18, Zenon DEF SendLimit, Spoof
  <2>3. /\ InSend(t) /\ InSend(t)' /\ DoneKept(t)'
        /\ \A u \in Threads \ {t} : SendSame(u)
    BY <2>1, <2>2 DEF DoneKept, SendSame
  <2>4. CASE crowded
    BY <2>1, <2>4 DEF BufferIsKept
  <2>5. CASE ~crowded
    <3>1. OneSend' /\ \A u \in Threads \ {t} : SendKept(u)' /\ DoneKept(u)'
      BY <2>3, <2>5, SendsGoOn
    <3>2. SendKept(t)
      BY <2>5 DEF BufferIsKept
    <3>3. pc'[t] = "kernel" /\ call'[t] = call[t]
      BY <2>1
    <3>4. SendKept(t)'
      <4>1. CASE data' = data /\ sndbuf' = sndbuf
        BY <2>3, <3>2, <3>3, <4>1 DEF SendKept
      <4>2. CASE /\ call[t] = "send" /\ sndbuf' = 0
                 /\ data' = [data EXCEPT ![t].spoofed = TRUE]
        <5>1. data'[t].spoofed /\ data'[t].sndbuf = data[t].sndbuf
          BY <4>2 DEF Saved
        <5> QED
          BY <2>3, <3>2, <3>3, <4>2, <5>1 DEF SendKept
      <4> QED
        BY <2>2, <4>1, <4>2
    <3>5. BufferFree'
      BY <2>3 DEF BufferFree
    <3> QED
      BY <2>1, <2>3, <3>1, <3>4, <3>5 DEF BufferIsKept
  <2> QED
    BY <2>4, <2>5
<1>19. ASSUME NEW t \in Threads, sendmsg_pre(t) PROVE BufferIsKept'
  <2>1. /\ pc[t] = "limit" /\ UNCHANGED <<call, sndbuf, crowded, probe, probing>>
        /\ call[t] \in Sends
    BY <1>19, SendPreEffect
  <2>2. \/ data' = data /\ ret' = ret /\ pc' = [pc EXCEPT ![t] = "kernel"]
        \/ data' = data /\ Finish(t, "ENODEV")
        \/ call[t] = "send" /\ data' = [data EXCEPT ![t].spoofed = TRUE] /\ Finish(t, "EAGAIN")
    BY <1>19, Zenon DEF sendmsg_pre, udp_dst_is_vpn
  <2>3. /\ InSend(t) /\ \A u \in Threads \ {t} : SendSame(u)
    BY <2>1, <2>2 DEF SendSame, Finish
  <2>4. CASE crowded
    BY <2>1, <2>4 DEF BufferIsKept
  <2>5. CASE ~crowded
    <3>1. OneSend' /\ \A u \in Threads \ {t} : SendKept(u)' /\ DoneKept(u)'
      BY <2>3, <2>5, SendsGoOn
    <3>2. SendKept(t)
      BY <2>5 DEF BufferIsKept
    <3>3. sndbuf = SndBuf
      BY <2>1, <2>3, <3>2 DEF SendKept
    <3>4. SendKept(t)'
      <4>1. CASE data' = data /\ ret' = ret /\ pc' = [pc EXCEPT ![t] = "kernel"]
        BY <2>1, <2>3, <3>2, <4>1 DEF SendKept
      <4>2. CASE pc' = [pc EXCEPT ![t] = "done"]
        BY <2>1, <4>2 DEF SendKept
      <4> QED
        BY <2>2, <4>1, <4>2 DEF Finish
    <3>5. DoneKept(t)'
      BY <2>1, <2>2 DEF DoneKept, Finish
    <3>6. BufferFree'
      BY <2>1, <3>3 DEF BufferFree
    <3> QED
      BY <2>1, <3>1, <3>4, <3>5, <3>6 DEF BufferIsKept
  <2> QED
    BY <2>4, <2>5
<1>20. ASSUME NEW t \in Threads, SendKernel(t) PROVE BufferIsKept'
  <2>1. /\ pc[t] = "kernel" /\ pc' = [pc EXCEPT ![t] = "ret"] /\ call[t] \in Sends
        /\ UNCHANGED <<call, data, sndbuf, crowded, probe, probing>>
        /\ ret' = [ret EXCEPT ![t] = IF sndbuf = 0 THEN "EAGAIN" ELSE OK]
    BY <1>20 DEF SendKernel, Returns
  <2>2. /\ InSend(t) /\ InSend(t)' /\ DoneKept(t)'
        /\ \A u \in Threads \ {t} : SendSame(u)
    BY <2>1 DEF SendSame, DoneKept
  <2>3. CASE crowded
    BY <2>1, <2>3 DEF BufferIsKept
  <2>4. CASE ~crowded
    <3>1. OneSend' /\ \A u \in Threads \ {t} : SendKept(u)' /\ DoneKept(u)'
      BY <2>2, <2>4, SendsGoOn
    <3>2. SendKept(t)
      BY <2>4 DEF BufferIsKept
    <3>3. ret'[t] = IF sndbuf = 0 THEN "EAGAIN" ELSE OK
      BY <2>1
    <3>4. SendKept(t)' /\ BufferFree'
      BY <2>1, <2>2, <3>2, <3>3, SocketAssumption DEF SendKept, BufferFree
    <3> QED
      BY <2>1, <2>2, <3>1, <3>4 DEF BufferIsKept
  <2> QED
    BY <2>3, <2>4
<1>21. ASSUME NEW t \in Threads, SendRet(t) PROVE BufferIsKept'
  <2>1. /\ pc[t] = "ret" /\ pc' = [pc EXCEPT ![t] = "done"] /\ call[t] \in Sends
        /\ UNCHANGED <<call, data, crowded, probe, probing>>
        /\ ret' = [ret EXCEPT ![t] = IF data[t].deny THEN "ENOBUFS" ELSE ret[t]]
        /\ sndbuf' = IF data[t].spoofed THEN data[t].sndbuf ELSE sndbuf
    BY <1>21 DEF SendRet, Finish, Restored
  <2>2. /\ InSend(t) /\ ~InSend(t)' /\ \A u \in Threads \ {t} : SendSame(u)
    BY <2>1 DEF SendSame
  <2>3. CASE crowded
    BY <2>1, <2>3 DEF BufferIsKept
  <2>4. CASE ~crowded
    <3>1. OneSend' /\ \A u \in Threads \ {t} : SendKept(u)' /\ DoneKept(u)'
      BY <2>2, <2>4, SendsGoOn
    <3>2. SendKept(t)
      BY <2>4 DEF BufferIsKept
    <3>3. SendKept(t)' /\ BufferFree'
      BY <2>1, <2>2, <3>2 DEF SendKept, BufferFree
    <3>4. ret'[t] = IF data[t].deny THEN "ENOBUFS" ELSE ret[t]
      BY <2>1
    <3>5. DoneKept(t)'
      BY <2>1, <2>2, <3>2, <3>4 DEF SendKept, DoneKept, OK
    <3> QED
      BY <2>1, <3>1, <3>3, <3>5 DEF BufferIsKept
  <2> QED
    BY <2>3, <2>4
<1>22. ASSUME NEW t \in Threads, Back(t) PROVE BufferIsKept'
  <2>1. /\ UNCHANGED <<sndbuf, crowded>> /\ (probing' => probe') /\ ~InSend(t)
        /\ call'[t] \notin Sends /\ \A u \in Threads \ {t} : SendSame(u)
    BY <1>22 DEF Back, SendSame, BufferIsKept
  <2> QED
    BY <2>1, BufferFrame
<1>23. CASE UNCHANGED vars
  BY <1>23, BufferIdle DEF vars
<1> HIDE DEF Binds, Sends
<1> QED
  BY <1>1, <1>2, <1>3, <1>4, <1>5, <1>6, <1>7, <1>8, <1>9, <1>10, <1>11, <1>12,
     <1>13, <1>14, <1>15, <1>16, <1>17, <1>18, <1>19, <1>20, <1>21, <1>22, <1>23 DEF
     Next, Begin, Proceed

\* Time given back never exceeds the time that has passed.
LEMMA GivenBack ==
  ASSUME NEW g \in Nat
  PROVE  LET n == (g * Milli) \div RegenNs
         IN n \in Nat /\ (n * RegenNs) \div Milli \in Nat /\ (n * RegenNs) \div Milli <= g
<1> DEFINE n == (g * Milli) \div RegenNs
<1> USE SocketAssumption
<1>1. g * Milli \in Nat
  OBVIOUS
<1>2. n \in Nat /\ n * RegenNs <= g * Milli
  <2> DEFINE x == g * Milli
  <2>1. x \in Nat
    BY <1>1
  <2> HIDE DEF x
  <2> QED
    BY <2>1
<1>3. n * RegenNs \in Nat
  BY <1>2
<1> DEFINE y == n * RegenNs
<1>4. y \in Nat /\ y <= g * Milli
  BY <1>2, <1>3
<1> HIDE DEF n, y
<1>5. y \div Milli \in Nat /\ y \div Milli <= g
  <2>1. y \div Milli \in Nat /\ (y \div Milli) * Milli <= y
    BY <1>4
  <2> DEFINE q == y \div Milli
  <2>2. q \in Nat /\ q * Milli <= g * Milli
    BY <1>4, <2>1
  <2> HIDE DEF q
  <2>3. q <= g
    BY <2>2
  <2> QED
    BY <2>2, <2>3 DEF q
<1> QED
  BY <1>2, <1>5 DEF n, y

\* The count as an int does not exceed what it counts.
LEMMA AsIntBounds ==
  ASSUME NEW n \in Int
  PROVE  AsInt(n) \in Int /\ AsInt(n) >= -IntHalf /\ (n >= 0 => AsInt(n) <= n)
<1> USE SocketAssumption
<1> DEFINE m == n + IntHalf
           C == 2 * IntHalf
<1>1. m \in Int /\ C \in Nat \ {0}
  OBVIOUS
<1> HIDE DEF m, C
<1>2. m % C \in Nat /\ (m >= 0 => m % C <= m)
  BY <1>1
<1> QED
  BY <1>2 DEF m, C, AsInt

\* An empty bucket is in range.
LEMMA NoRateFits == now \in Nat => BucketFits(NoRate)
<1>1. Capacity * Milli \in Nat /\ Capacity \in Nat /\ IntHalf \in Nat
  BY SocketAssumption
<1>2. 0 \in TokenRange
  BY <1>1 DEF TokenRange
<1> QED
  BY <1>2 DEF BucketFits, NoRate

\* A bucket with a count in range and a time not after now.
LEMMA BucketUpdate ==
  ASSUME NEW r, BucketFits(r), now \in Nat,
         NEW k \in Int, k \in TokenRange, NEW l \in Nat, l <= now
  PROVE  /\ BucketFits([r EXCEPT !.tokens = k, !.last = l])
         /\ BucketFits([present |-> TRUE, tokens |-> k, last |-> l])
  BY DEF BucketFits

\* A bucket from which tokens are taken.
LEMMA BucketTake ==
  ASSUME NEW r, BucketFits(r), NEW k \in Int, k \in TokenRange
  PROVE  BucketFits([r EXCEPT !.tokens = k])
  BY DEF BucketFits

\* udp_rate_limit_exceeded refills within the capacity.
LEMMA RefilledFits ==
  ASSUME now \in Nat, BucketFits(rate), build = "module"
  PROVE  BucketFits(Refilled)
<1> USE SocketAssumption
<1>1. now - rate.last \in Nat
  BY DEF BucketFits
<1>2. /\ Regained \in Nat /\ (Regained * RegenNs) \div Milli \in Nat
      /\ (Regained * RegenNs) \div Milli <= now - rate.last
  BY <1>1, GivenBack DEF Regained
<1> DEFINE tokens == (rate.tokens + (Regained % U32)) % U32
           back == (Regained * RegenNs) \div Milli
<1>3. tokens \in Nat /\ Capacity * Milli \in Nat
  <2>1. Regained % U32 \in Nat
    BY <1>2
  <2> DEFINE x == rate.tokens + (Regained % U32)
  <2>2. x \in Int
    BY <2>1 DEF BucketFits
  <2> HIDE DEF x
  <2>3. x % U32 \in Nat
    BY <2>2
  <2> QED
    BY <2>3 DEF x
<1>4. Refilled = IF Regained = 0 THEN rate
                 ELSE IF tokens >= Capacity * Milli
                 THEN [rate EXCEPT !.tokens = Capacity * Milli, !.last = now]
                 ELSE [rate EXCEPT !.tokens = tokens, !.last = @ + back]
  BY DEF Refilled
<1>5. back \in Nat /\ back <= now - rate.last
  BY <1>2
<1> HIDE DEF tokens, back
<1>6. CASE Regained = 0
  BY <1>4, <1>6
<1>7. CASE Regained # 0 /\ tokens >= Capacity * Milli
  <2>1. Capacity * Milli \in Int /\ Capacity * Milli \in TokenRange /\ now <= now
    BY <1>3 DEF TokenRange
  <2>2. BucketFits([rate EXCEPT !.tokens = Capacity * Milli, !.last = now])
    BY <2>1, BucketUpdate, Zenon
  <2> QED
    BY <1>4, <1>7, <2>2
<1>8. CASE Regained # 0 /\ ~(tokens >= Capacity * Milli)
  <2>1. tokens \in Int /\ tokens \in TokenRange
    BY <1>3, <1>8 DEF TokenRange
  <2>2. rate.last + back \in Nat /\ rate.last + back <= now
    BY <1>5 DEF BucketFits
  <2>3. BucketFits([rate EXCEPT !.tokens = tokens, !.last = rate.last + back])
    BY <2>1, <2>2, BucketUpdate, Zenon
  <2> QED
    BY <1>4, <1>8, <2>3
<1> QED
  BY <1>6, <1>7, <1>8

\* vpnhide_udp_sendmsg refills within the capacity.
LEMMA rl_refilledFits ==
  ASSUME now \in Nat, BucketFits(rate), build = "intree"
  PROVE  BucketFits(rl_refilled)
<1> USE SocketAssumption
<1> DEFINE g == now - rate.last
           regen == AsInt(Periods)
           tokens == AsInt(rate.tokens + regen)
           back == regen * RegenNs
<1>1. g \in Nat
  BY DEF BucketFits
<1>2. Periods \in Nat /\ Periods * RegenNs <= g
  <2>1. Periods = g \div RegenNs
    BY DEF Periods
  <2> HIDE DEF g
  <2> QED
    BY <1>1, <2>1
<1>3. regen \in Int /\ regen <= Periods
  BY <1>2, AsIntBounds
<1>4. tokens \in Int /\ tokens >= -IntHalf
  BY <1>3, AsIntBounds DEF BucketFits
<1>5. regen > 0 => back \in Nat /\ back <= g
  <2> SUFFICES ASSUME regen > 0 PROVE back \in Nat /\ back <= g
    OBVIOUS
  <2> HIDE DEF regen, g
  <2>1. regen * RegenNs <= Periods * RegenNs
    BY <1>2, <1>3
  <2> QED
    BY <1>1, <1>2, <1>3, <2>1
<1>6. rl_refilled = IF regen <= 0 THEN rate
                    ELSE [rate EXCEPT !.tokens = IF tokens < Capacity THEN tokens
                                                 ELSE Capacity,
                                      !.last = @ + back]
  BY DEF rl_refilled
<1> HIDE DEF tokens, back, regen
<1> DEFINE k == IF tokens < Capacity THEN tokens ELSE Capacity
<1>7. k \in Int /\ k \in TokenRange
  BY <1>4 DEF TokenRange
<1> HIDE DEF k
<1>8. CASE regen <= 0
  BY <1>6, <1>8
<1>9. CASE ~(regen <= 0)
  <2>1. rate.last + back \in Nat /\ rate.last + back <= now
    BY <1>1, <1>3, <1>5, <1>9 DEF BucketFits
  <2>2. BucketFits([rate EXCEPT !.tokens = k, !.last = rate.last + back])
    BY <1>7, <2>1, BucketUpdate
  <2> QED
    BY <1>6, <1>9, <2>2 DEF k
<1> QED
  BY <1>8, <1>9

\* The bucket stays in range.
LEMMA BucketStep ==
  ASSUME now \in Nat, BucketFits(rate), [Next]_vars
  PROVE  (now \in Nat /\ BucketFits(rate))'
<1> USE SocketAssumption DEF sockVars, worldVars, rateVars
<1>1. CASE SetVpns
  BY <1>1 DEF SetVpns, BucketFits, TokenRange
<1>2. CASE SetPolicy
  <2>1. BucketFits(NoRate)
    BY NoRateFits
  <2>2. UNCHANGED <<now, build>> /\ (rate' = rate \/ rate' = NoRate)
    BY <1>2 DEF SetPolicy
  <2> QED
    BY <2>1, <2>2 DEF BucketFits, TokenRange
<1>3. CASE Tick
  BY <1>3 DEF Tick, BucketFits, TokenRange
<1>4. ASSUME NEW t \in Threads, NEW opt \in Binds, NEW i \in Links, BindEntry(t, opt, i)
      PROVE  (now \in Nat /\ BucketFits(rate))'
  BY <1>4 DEF BindEntry, Enter, BucketFits, TokenRange
<1>5. ASSUME NEW t \in Threads, NEW opt \in Binds, NEW i \in Links, setsockopt_bind(t, opt, i)
      PROVE  (now \in Nat /\ BucketFits(rate))'
  BY <1>5 DEF setsockopt_bind, Enter, BucketFits, TokenRange
<1>6. ASSUME NEW t \in Threads, BindKernel(t)
      PROVE  (now \in Nat /\ BucketFits(rate))'
  BY <1>6 DEF BindKernel, BucketFits, TokenRange
<1>7. ASSUME NEW t \in Threads, BindRet(t) PROVE (now \in Nat /\ BucketFits(rate))'
  BY <1>7 DEF BindRet, BucketFits, TokenRange
<1>8. ASSUME NEW t \in Threads, MarkEntry(t, "value")
      PROVE  (now \in Nat /\ BucketFits(rate))'
  BY <1>8 DEF MarkEntry, Enter, BucketFits, TokenRange
<1>9. ASSUME NEW t \in Threads, setsockopt_mark(t, "value")
      PROVE  (now \in Nat /\ BucketFits(rate))'
  BY <1>9 DEF setsockopt_mark, Enter, BucketFits, TokenRange
<1>10. ASSUME NEW t \in Threads, MarkKernel(t)
      PROVE  (now \in Nat /\ BucketFits(rate))'
  BY <1>10 DEF MarkKernel, BucketFits, TokenRange
<1>11. ASSUME NEW t \in Threads, setsockopt_probe(t)
      PROVE  (now \in Nat /\ BucketFits(rate))'
  BY <1>11 DEF setsockopt_probe, Enter, BucketFits, TokenRange
<1>12. ASSUME NEW t \in Threads, DeviceEntry(t)
      PROVE  (now \in Nat /\ BucketFits(rate))'
  BY <1>12 DEF DeviceEntry, Enter, BucketFits, TokenRange
<1>13. ASSUME NEW t \in Threads, DeviceRet(t)
      PROVE  (now \in Nat /\ BucketFits(rate))'
  BY <1>13 DEF DeviceRet, BucketFits, TokenRange
<1>14. ASSUME NEW t \in Threads, ConnectEntry(t)
      PROVE  (now \in Nat /\ BucketFits(rate))'
  BY <1>14 DEF ConnectEntry, Enter, BucketFits, TokenRange
<1>15. ASSUME NEW t \in Threads, ConnectKernel(t)
      PROVE  (now \in Nat /\ BucketFits(rate))'
  BY <1>15 DEF ConnectKernel, BucketFits, TokenRange
<1>16. ASSUME NEW t \in Threads, ConnectRet(t)
      PROVE  (now \in Nat /\ BucketFits(rate))'
  BY <1>16 DEF ConnectRet, BucketFits, TokenRange
<1>17. ASSUME NEW t \in Threads, NEW c \in Sends, SendEntry(t, c)
      PROVE  (now \in Nat /\ BucketFits(rate))'
  BY <1>17 DEF SendEntry, Enter, BucketFits, TokenRange
<1>18. ASSUME NEW t \in Threads, SendLimit(t)
      PROVE  (now \in Nat /\ BucketFits(rate))'
  <2>1. build = "module" /\ UNCHANGED <<now, build>>
    BY <1>18 DEF SendLimit
  <2>2. rate' = rate \/ TakeToken(TRUE) \/ TakeToken(FALSE) \/ NewRate
    BY <1>18, Zenon DEF SendLimit, rateVars
  <2>3. BucketFits(Refilled)
    BY <2>1, RefilledFits
  <2>4. BucketFits(rate')
    <3>1. CASE TakeToken(TRUE)
      <4>1. /\ Refilled.tokens >= Milli
            /\ rate' = [Refilled EXCEPT !.tokens = Refilled.tokens - Milli]
        BY <3>1 DEF TakeToken
      <4>2. Refilled.tokens - Milli \in Int /\ Refilled.tokens - Milli \in TokenRange
        BY <2>1, <2>3, <4>1 DEF BucketFits, TokenRange
      <4> QED
        BY <2>3, <4>1, <4>2, BucketTake, Zenon
    <3>2. CASE TakeToken(FALSE)
      BY <2>3, <3>2 DEF TakeToken
    <3>3. CASE NewRate
      <4>1. rate' = rate \/ rate' = [present |-> TRUE, tokens |-> (Capacity - 1) * Milli,
                                     last |-> now]
        BY <3>3 DEF NewRate, rateVars
      <4>2. (Capacity - 1) * Milli \in Nat /\ (Capacity - 1) * Milli <= Capacity * Milli
        OBVIOUS
      <4>3. /\ (Capacity - 1) * Milli \in Int /\ (Capacity - 1) * Milli \in TokenRange
            /\ now <= now
        BY <2>1, <4>2 DEF TokenRange
      <4>4. BucketFits([present |-> TRUE, tokens |-> (Capacity - 1) * Milli, last |-> now])
        BY <4>3, BucketUpdate, Zenon
      <4> QED
        BY <4>1, <4>4
    <3> QED
      BY <2>2, <3>1, <3>2, <3>3
  <2> QED
    BY <2>1, <2>4 DEF BucketFits, TokenRange
<1>19. ASSUME NEW t \in Threads, sendmsg_pre(t)
      PROVE  (now \in Nat /\ BucketFits(rate))'
  <2>1. build = "intree" /\ UNCHANGED <<now, build>>
    BY <1>19 DEF sendmsg_pre
  <2>2. rate' = rate \/ rl_take(TRUE) \/ rl_take(FALSE) \/ rl_alloc
    BY <1>19, Zenon DEF sendmsg_pre, rateVars
  <2>3. BucketFits(rl_refilled)
    BY <2>1, rl_refilledFits
  <2>4. BucketFits(rate')
    <3>1. CASE rl_take(TRUE)
      <4>1. /\ rl_refilled.tokens > 0
            /\ rate' = [rl_refilled EXCEPT !.tokens = rl_refilled.tokens - 1]
        BY <3>1 DEF rl_take
      <4>2. rl_refilled.tokens - 1 \in Int /\ rl_refilled.tokens - 1 \in TokenRange
        BY <2>1, <2>3, <4>1 DEF BucketFits, TokenRange
      <4> QED
        BY <2>3, <4>1, <4>2, BucketTake, Zenon
    <3>2. CASE rl_take(FALSE)
      BY <2>3, <3>2 DEF rl_take
    <3>3. CASE rl_alloc
      <4>1. rate' = rate \/ rate' = [present |-> TRUE, tokens |-> Capacity - 1, last |-> now]
        BY <3>3 DEF rl_alloc, rateVars
      <4>2. Capacity - 1 \in Int /\ Capacity - 1 \in TokenRange /\ now <= now
        BY <2>1 DEF TokenRange
      <4>3. BucketFits([present |-> TRUE, tokens |-> Capacity - 1, last |-> now])
        BY <4>2, BucketUpdate, Zenon
      <4> QED
        BY <4>1, <4>3
    <3> QED
      BY <2>2, <3>1, <3>2, <3>3
  <2> QED
    BY <2>1, <2>4 DEF BucketFits, TokenRange
<1>20. ASSUME NEW t \in Threads, SendKernel(t)
      PROVE  (now \in Nat /\ BucketFits(rate))'
  BY <1>20 DEF SendKernel, BucketFits, TokenRange
<1>21. ASSUME NEW t \in Threads, SendRet(t) PROVE (now \in Nat /\ BucketFits(rate))'
  BY <1>21 DEF SendRet, BucketFits, TokenRange
<1>22. ASSUME NEW t \in Threads, Back(t) PROVE (now \in Nat /\ BucketFits(rate))'
  BY <1>22 DEF Back, BucketFits, TokenRange
<1>23. CASE UNCHANGED vars
  BY <1>23 DEF vars, BucketFits, TokenRange
<1> HIDE DEF Binds, Sends
<1> QED
  BY <1>1, <1>2, <1>3, <1>4, <1>5, <1>6, <1>7, <1>8, <1>9, <1>10, <1>11, <1>12,
     <1>13, <1>14, <1>15, <1>16, <1>17, <1>18, <1>19, <1>20, <1>21, <1>22, <1>23 DEF
     Next, Begin, Proceed
-----------------------------------------------------------------------------
\* All of it together: the invariant holds before the first call.
LEMMA InitIInv == Init => IInv
<1> SUFFICES ASSUME Init PROVE IInv
  OBVIOUS
<1> USE SocketAssumption DEF Init, Nothing, Fake, OK, Values, Binds, Sends
<1>1. Types
  <2>1. data \in [Threads -> Saved]
    BY DEF NoData, Saved
  <2>2. wrapper \in BOOLEAN
    BY Zenon
  <2> QED
    BY <2>1, <2>2 DEF Types
<1>2. IdleIsClean /\ BindsAreGuarded /\ BoundVpnNotReported /\ ConnectsKeepTheirVerdict
  BY DEF IdleIsClean, BindsAreGuarded, Binding, BoundVpnNotReported,
         ConnectsKeepTheirVerdict, Connecting
<1>3. BufferIsKept
  BY DEF BufferIsKept, OneSend, BufferFree, SendKept, DoneKept, InSend
<1>4. now \in Nat /\ BucketFits(rate)
  BY NoRateFits
<1> QED
  BY <1>1, <1>2, <1>3, <1>4 DEF IInv

\* Every step of every handler keeps the invariant.
LEMMA NextIInv == IInv /\ [Next]_vars => IInv'
<1> SUFFICES ASSUME IInv, [Next]_vars PROVE IInv'
  OBVIOUS
<1>1. Types' /\ IdleIsClean' /\ BoundVpnNotReported' /\ ConnectsKeepTheirVerdict'
  BY TypesStep, IdleStep, DeviceStep, ConnectStep DEF IInv
<1>2. BindsAreGuarded'
  BY BindStep, BoundStep DEF IInv, BindsAreGuarded
<1>3. BufferIsKept' /\ (now \in Nat /\ BucketFits(rate))'
  BY BufferStep, BucketStep DEF IInv
<1> QED
  BY <1>1, <1>2, <1>3 DEF IInv

\* The invariant of the socket hooks.
THEOREM SocketInvariant == Spec => []IInv
  BY InitIInv, NextIInv, PTL DEF Spec

\* A bind that sys_setsockopt_entry or vpnhide_setsockopt_sock denied leaves no
\* trace in the caller's buffer or in the socket, however many threads call and
\* whatever VPN lists are published inside their calls.
THEOREM DeniedBinds == Spec => []DeniedBindLeavesNoTrace
<1>1. IInv => DeniedBindLeavesNoTrace
  BY DEF IInv, BindsAreGuarded, Binding, DeniedBindLeavesNoTrace
<1> QED
  BY <1>1, SocketInvariant, PTL

\* sock_getsockopt_ret never lets the name of an interface through that is listed
\* all through the call.
THEOREM BoundVpns == Spec => []BoundVpnNotReported
<1>1. IInv => BoundVpnNotReported
  BY DEF IInv
<1> QED
  BY <1>1, SocketInvariant, PTL

\* A connect ends as one policy in force during it says, with socket_connect or
\* with security_socket_connect probed.
THEOREM Connects == Spec => []ConnectFollowsOnePolicy
<1>1. IInv => ConnectFollowsOnePolicy
  BY DEF IInv, ConnectsKeepTheirVerdict, Connecting, ConnectFollowsOnePolicy
<1> QED
  BY <1>1, SocketInvariant, PTL

\* udp_sendmsg_ret and its in-tree counterpart leave the send buffer as it was, and
\* the bucket is in range for every capacity, rate and width of its counters.
THEOREM Throttling == Spec => []ThrottlingEndsWithTheSend
<1>1. IInv => TypeOK
  <2> SUFFICES ASSUME IInv PROVE TypeOK
    OBVIOUS
  <2> USE SocketAssumption
  <2>1. /\ rate.tokens <= Capacity * (IF build = "module" THEN Milli ELSE 1)
        /\ rate.tokens >= (IF build = "module" THEN 0 ELSE -IntHalf) /\ rate.last <= now
    <3>1. CASE build = "module"
      BY <3>1 DEF IInv, BucketFits, TokenRange
    <3>2. CASE build # "module"
      BY <3>2 DEF IInv, BucketFits, TokenRange
    <3> QED
      BY <3>1, <3>2
  <2> QED
    BY <2>1 DEF IInv, Types, Values, TypeOK
<1>2. IInv => ThrottlingEndsWithTheSend
  BY <1>1 DEF IInv, BufferIsKept, BufferFree, DoneKept, InSend, ThrottlingEndsWithTheSend
<1> QED
  BY <1>2, SocketInvariant, PTL
=============================================================================
