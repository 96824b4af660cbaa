------------------------- MODULE DnsResolverProofs -------------------------
(* Proofs about concurrent lookups, for any number of them and any names,  *)
(* as long as no datagram outlives its socket long enough to meet another  *)
(* one on the same port.                                                   *)
EXTENDS DnsResolver, TLAPS

(* The three kinds of result are told apart.                               *)
LEMMA ResultsDiffer ==
    \A n : Address(n) # Pending /\ NoAddress # Pending /\ Address(n) # NoAddress
           /\ Address(n).status = "some" /\ Address(n).of = n
           /\ NoAddress.status = "none" /\ Pending.status = "pending"
  BY DEF Address, Pending, NoAddress

(* Every result a step assigns is one.                                     *)
LEMMA ResultTypes ==
    /\ Pending \in Results /\ NoAddress \in Results
    /\ \A n \in Names : Address(n) \in Results
  BY DEF Results

(* With no lookup begun the invariant holds.                               *)
LEMMA InitInv == Init => IInv
  <1> SUFFICES ASSUME Init PROVE IInv OBVIOUS
  <1>1. TypeOK
    <2>1. dns_addr \in {"ip:port", "ipv6", "[ipv6]:port", "name:port"}
      BY DnsAssumption DEF Init, new
    <2>2. QED BY <2>1, ResultTypes DEF Init, TypeOK, MAX_ATTEMPTS
  <1>2. AnswerForName /\ DatagramsMatch /\ Sockets
    BY ResultsDiffer DEF Init, AnswerForName, DatagramsMatch, Sockets
  <1>3. ResultAtEnd BY DEF Init, ResultAtEnd
  <1>4. QED BY <1>1, <1>2, <1>3 DEF IInv

-----------------------------------------------------------------------------
(* A lookup returns NoAddress or an address of its own domain: what every  *)
(* returning step has in common.                                           *)
LEMMA ReturnInv ==
    ASSUME IInv, NEW l \in Lookups, NEW r \in {NoAddress, Address(NameOf[l])},
           Return(l, r)
    PROVE  /\ stage' \in [Lookups -> {"idle", "bind", "send", "recv", "system", "done"}]
           /\ result' \in [Lookups -> Results]
           /\ AnswerForName' /\ ResultAtEnd'
  <1>1. NameOf[l] \in Names BY DnsAssumption
  <1>2. r \in Results /\ r # Pending BY <1>1, ResultTypes, ResultsDiffer
  <1>3. r.status = "some" => r.of = NameOf[l] BY ResultsDiffer
  <1>4. /\ stage' = [stage EXCEPT ![l] = "done"]
        /\ result' = [result EXCEPT ![l] = r]
    BY DEF Return, Goto
  <1>5. /\ stage \in [Lookups -> {"idle", "bind", "send", "recv", "system", "done"}]
        /\ result \in [Lookups -> Results]
    BY DEF IInv, TypeOK
  <1>6. AnswerForName'
    BY <1>3, <1>4, <1>5 DEF IInv, AnswerForName
  <1>7. ResultAtEnd'
    BY <1>2, <1>4, <1>5 DEF IInv, ResultAtEnd
  <1>8. QED BY <1>2, <1>4, <1>5, <1>6, <1>7

(* A step that moves a lookup on without returning.                        *)
LEMMA GotoInv ==
    ASSUME IInv, NEW l \in Lookups, NEW s \in {"bind", "send", "recv", "system"},
           stage[l] # "done", Goto(l, s), UNCHANGED result
    PROVE  /\ stage' \in [Lookups -> {"idle", "bind", "send", "recv", "system", "done"}]
           /\ AnswerForName' /\ ResultAtEnd'
  <1>1. /\ stage' = [stage EXCEPT ![l] = s]
        /\ stage \in [Lookups -> {"idle", "bind", "send", "recv", "system", "done"}]
    BY DEF Goto, IInv, TypeOK
  <1>2. AnswerForName' BY DEF IInv, AnswerForName
  <1>3. ResultAtEnd' BY <1>1 DEF IInv, ResultAtEnd
  <1>4. QED BY <1>1, <1>2, <1>3

(* Sockets and datagrams are untouched, or a socket is closed.             *)
LEMMA CloseInv ==
    ASSUME IInv, NEW l \in Lookups, NEW s,
           stage' = [stage EXCEPT ![l] = s], s \notin {"send", "recv"},
           \/ port' = [port EXCEPT ![l] = NoPort]
           \/ port' = port /\ stage[l] \notin {"send", "recv"},
           used' = used, queries' \subseteq queries, replies' \subseteq replies
    PROVE  /\ port' \in [Lookups -> Ports \cup {NoPort}]
           /\ Sockets' /\ DatagramsMatch'
  <1>1. /\ stage \in [Lookups -> {"idle", "bind", "send", "recv", "system", "done"}]
        /\ port \in [Lookups -> Ports \cup {NoPort}]
        /\ queries \subseteq Query /\ replies \subseteq Reply
    BY DEF IInv, TypeOK
  <1>2. port' \in [Lookups -> Ports \cup {NoPort}] BY <1>1
  <1>3. port'[l] = NoPort /\ \A m \in Lookups \ {l} : port'[m] = port[m]
    BY <1>1 DEF IInv, Sockets
  <1>4. Sockets'
    <2>1. \A m \in Lookups \ {l} : stage'[m] = stage[m] BY <1>1
    <2>2. stage'[l] = s BY <1>1
    <2>3. QED BY <1>3, <2>1, <2>2 DEF IInv, Sockets
  <1>5. DatagramsMatch'
    <2> SUFFICES ASSUME NEW d \in queries' \cup replies'
                 PROVE  /\ d.port \in used'
                        /\ \A m \in Lookups : port'[m] = d.port => d.name = NameOf[m]
      BY DEF DatagramsMatch
    <2>1. /\ d.port \in used
          /\ \A m \in Lookups : port[m] = d.port => d.name = NameOf[m]
      BY DEF IInv, DatagramsMatch
    <2>2. used \subseteq Ports BY DEF IInv, TypeOK
    <2>3. d.port # NoPort BY <2>1, <2>2, DnsAssumption
    <2>4. QED BY <1>3, <2>1, <2>3
  <1>6. QED BY <1>2, <1>4, <1>5

(* Every step of a lookup keeps the invariant if ports are used once.      *)
LEMMA TaskInv ==
    ASSUME ~ReusePorts, IInv, NEW l \in Lookups, Task(l)
    PROVE  IInv'
  <1>0. /\ stage \in [Lookups -> {"idle", "bind", "send", "recv", "system", "done"}]
        /\ attempt \in [Lookups -> 0 .. MAX_ATTEMPTS]
        /\ port \in [Lookups -> Ports \cup {NoPort}]
        /\ used \subseteq Ports
        /\ queries \subseteq Query /\ replies \subseteq Reply
        /\ result \in [Lookups -> Results]
    BY DEF IInv, TypeOK
  <1>1. CASE Resolve(l)
    <2>1. /\ stage[l] = "idle"
          /\ UNCHANGED <<dns_addr, attempt, port, used, queries, replies>>
      BY <1>1 DEF Resolve
    <2>2. CASE \E r \in {NoAddress, Address(NameOf[l])} : Return(l, r)
      <3>1. stage' = [stage EXCEPT ![l] = "done"] BY <2>2 DEF Return, Goto
      <3>2. Sockets' /\ DatagramsMatch' BY <2>1, <3>1, CloseInv
      <3>3. QED BY <2>1, <2>2, <3>2, ReturnInv DEF IInv, TypeOK
    <2>3. CASE Goto(l, "bind") /\ UNCHANGED result
      <3>1. stage' = [stage EXCEPT ![l] = "bind"] BY <2>3 DEF Goto
      <3>2. Sockets' /\ DatagramsMatch' BY <2>1, <3>1, CloseInv
      <3>3. QED BY <2>1, <2>3, <3>2, GotoInv DEF IInv, TypeOK
    <2>4. QED BY <1>1, <2>2, <2>3 DEF Resolve
  <1>2. CASE Bind(l)
    <2>1. PICK p \in FreePorts :
            /\ stage[l] = "bind" /\ Goto(l, "send")
            /\ port' = [port EXCEPT ![l] = p] /\ used' = used \cup {p}
            /\ UNCHANGED <<dns_addr, attempt, queries, replies, result>>
      BY <1>2 DEF Bind
    <2>2. p \in Ports /\ p \notin used /\ p # NoPort
      BY DnsAssumption DEF FreePorts
    <2>3. /\ stage' = [stage EXCEPT ![l] = "send"]
          /\ port' \in [Lookups -> Ports \cup {NoPort}]
          /\ port'[l] = p /\ \A m \in Lookups \ {l} : port'[m] = port[m]
          /\ stage'[l] = "send" /\ \A m \in Lookups \ {l} : stage'[m] = stage[m]
      BY <1>0, <2>1, <2>2 DEF Goto
    <2>4. Sockets'
      BY <2>1, <2>2, <2>3 DEF IInv, Sockets
    <2>5. DatagramsMatch'
      BY <2>1, <2>2, <2>3 DEF IInv, DatagramsMatch
    <2>6. used' \subseteq Ports BY <1>0, <2>1, <2>2
    <2>7. QED BY <2>1, <2>3, <2>4, <2>5, <2>6, GotoInv DEF IInv, TypeOK
  <1>3. CASE BindFails(l)
    <2>1. /\ stage[l] = "bind" /\ Goto(l, "system")
          /\ UNCHANGED <<dns_addr, attempt, port, used, queries, replies, result>>
      BY <1>3 DEF BindFails
    <2>2. stage' = [stage EXCEPT ![l] = "system"] BY <2>1 DEF Goto
    <2>3. Sockets' /\ DatagramsMatch' BY <2>1, <2>2, CloseInv
    <2>4. QED BY <2>1, <2>3, GotoInv DEF IInv, TypeOK
  <1>4. CASE SendFails(l)
    <2>1. /\ attempt[l] < MAX_ATTEMPTS
          /\ attempt' = [attempt EXCEPT ![l] = @ + 1]
          /\ UNCHANGED <<dns_addr, stage, port, used, queries, replies, result>>
      BY <1>4 DEF SendFails
    <2>2. attempt' \in [Lookups -> 0 .. MAX_ATTEMPTS]
      BY <1>0, <2>1 DEF MAX_ATTEMPTS
    <2>3. QED
      BY <2>1, <2>2 DEF IInv, TypeOK, AnswerForName, DatagramsMatch, Sockets,
         ResultAtEnd
  <1>5. CASE SendTo(l)
    <2> DEFINE q == [port |-> port[l], name |-> NameOf[l]]
    <2>1. /\ stage[l] = "send" /\ attempt[l] < MAX_ATTEMPTS /\ Goto(l, "recv")
          /\ attempt' = [attempt EXCEPT ![l] = @ + 1]
          /\ queries' = queries \cup {q}
          /\ UNCHANGED <<dns_addr, port, used, replies, result>>
      BY <1>5 DEF SendTo
    <2>2. attempt' \in [Lookups -> 0 .. MAX_ATTEMPTS]
      BY <1>0, <2>1 DEF MAX_ATTEMPTS
    <2>3. port[l] # NoPort /\ port[l] \in Ports /\ port[l] \in used
      BY <1>0, <2>1 DEF IInv, Sockets
    <2>4. queries' \subseteq Query
      <3>1. NameOf[l] \in Names BY DnsAssumption
      <3>2. q \in Query BY <2>3, <3>1 DEF Query
      <3>3. QED BY <1>0, <2>1, <3>2
    <2>5. stage'[l] = "recv" /\ \A m \in Lookups \ {l} : stage'[m] = stage[m]
      BY <1>0, <2>1 DEF Goto
    <2>6. Sockets' BY <2>1, <2>3, <2>5 DEF IInv, Sockets
    <2>7. DatagramsMatch'
      <3> SUFFICES ASSUME NEW d \in queries' \cup replies'
                   PROVE  /\ d.port \in used'
                          /\ \A m \in Lookups : port'[m] = d.port => d.name = NameOf[m]
        BY DEF DatagramsMatch
      <3>1. CASE d \in queries \cup replies
        BY <2>1, <3>1 DEF IInv, DatagramsMatch
      <3>2. CASE d = q
        <4>1. d.port = port[l] /\ d.name = NameOf[l] BY <3>2
        <4>2. \A m \in Lookups : port[m] = port[l] => m = l
          BY <2>3 DEF IInv, Sockets
        <4>3. QED BY <2>1, <2>3, <4>1, <4>2
      <3>3. QED BY <2>1, <3>1, <3>2
    <2>8. QED BY <2>1, <2>2, <2>4, <2>6, <2>7, GotoInv DEF IInv, TypeOK
  <1>6. CASE Receive(l)
    <2>1. PICK r \in Deliverable(l) :
            /\ stage[l] = "recv" /\ replies' = replies \ {r}
            /\ \/ /\ Return(l, Address(r.name))
                  /\ port' = [port EXCEPT ![l] = NoPort]
               \/ Goto(l, "send") /\ UNCHANGED <<port, result>>
            /\ UNCHANGED <<dns_addr, attempt, used, queries>>
      BY <1>6 DEF Receive
    <2>2. r \in replies /\ r.port = port[l] BY DEF Deliverable
    <2>3. r.name = NameOf[l] BY <2>2 DEF IInv, DatagramsMatch
    <2>4. CASE /\ Return(l, Address(r.name))
               /\ port' = [port EXCEPT ![l] = NoPort]
      <3>1. stage' = [stage EXCEPT ![l] = "done"] BY <2>4 DEF Return, Goto
      <3>2. /\ port' \in [Lookups -> Ports \cup {NoPort}]
            /\ Sockets' /\ DatagramsMatch'
        <4>1. queries' \subseteq queries /\ replies' \subseteq replies
              /\ used' = used
          BY <2>1
        <4>2. "done" \notin {"send", "recv"} OBVIOUS
        <4>3. QED BY <2>4, <3>1, <4>1, <4>2, CloseInv
      <3>3. replies' \subseteq Reply BY <1>0, <2>1
      <3>4. QED BY <2>1, <2>3, <2>4, <3>2, <3>3, ReturnInv DEF IInv, TypeOK
    <2>5. CASE Goto(l, "send") /\ UNCHANGED <<port, result>>
      <3>1. stage'[l] = "send" /\ \A m \in Lookups \ {l} : stage'[m] = stage[m]
        BY <1>0, <2>5 DEF Goto
      <3>2. Sockets' BY <2>1, <2>5, <3>1 DEF IInv, Sockets
      <3>3. DatagramsMatch' BY <2>1, <2>5 DEF IInv, DatagramsMatch
      <3>4. replies' \subseteq Reply BY <1>0, <2>1
      <3>5. QED BY <2>1, <2>5, <3>2, <3>3, <3>4, GotoInv DEF IInv, TypeOK
    <2>6. QED BY <2>1, <2>4, <2>5
  <1>7. CASE TimesOut(l)
    <2>1. /\ stage[l] = "recv" /\ Goto(l, "send")
          /\ UNCHANGED <<dns_addr, attempt, port, used, queries, replies, result>>
      BY <1>7 DEF TimesOut
    <2>2. stage'[l] = "send" /\ \A m \in Lookups \ {l} : stage'[m] = stage[m]
      BY <1>0, <2>1 DEF Goto
    <2>3. Sockets' BY <2>1, <2>2 DEF IInv, Sockets
    <2>4. DatagramsMatch' BY <2>1 DEF IInv, DatagramsMatch
    <2>5. QED BY <2>1, <2>3, <2>4, GotoInv DEF IInv, TypeOK
  <1>8. CASE GivesUp(l)
    <2>1. /\ stage[l] = "send" /\ Goto(l, "system")
          /\ port' = [port EXCEPT ![l] = NoPort]
          /\ UNCHANGED <<dns_addr, attempt, used, queries, replies, result>>
      BY <1>8 DEF GivesUp
    <2>2. stage' = [stage EXCEPT ![l] = "system"] BY <2>1 DEF Goto
    <2>3. /\ port' \in [Lookups -> Ports \cup {NoPort}]
          /\ Sockets' /\ DatagramsMatch'
      BY <2>1, <2>2, CloseInv
    <2>4. QED BY <2>1, <2>3, GotoInv DEF IInv, TypeOK
  <1>9. CASE SystemLookup(l)
    <2>1. /\ stage[l] = "system"
          /\ \E r \in {NoAddress, Address(NameOf[l])} : Return(l, r)
          /\ UNCHANGED <<dns_addr, attempt, port, used, queries, replies>>
      BY <1>9 DEF SystemLookup
    <2>2. stage' = [stage EXCEPT ![l] = "done"] BY <2>1 DEF Return, Goto
    <2>3. Sockets' /\ DatagramsMatch' BY <2>1, <2>2, CloseInv
    <2>4. QED BY <2>1, <2>3, ReturnInv DEF IInv, TypeOK
  <1>10. QED
    BY <1>1, <1>2, <1>3, <1>4, <1>5, <1>6, <1>7, <1>8, <1>9 DEF Task

(* Answers repeat the port and the name of their query; losses remove.     *)
LEMMA NetworkInv == IInv /\ (ServerAnswers \/ Lost) => IInv'
  <1> SUFFICES ASSUME IInv, ServerAnswers \/ Lost PROVE IInv' OBVIOUS
  <1>0. queries \subseteq Query /\ replies \subseteq Reply BY DEF IInv, TypeOK
  <1>1. UNCHANGED <<dns_addr, stage, attempt, port, used, result>>
    BY DEF ServerAnswers, Lost
  <1>2. AnswerForName' /\ Sockets' /\ ResultAtEnd'
    BY <1>1 DEF IInv, AnswerForName, Sockets, ResultAtEnd
  <1>3. queries' \subseteq Query /\ replies' \subseteq Reply
    BY <1>0 DEF ServerAnswers, Lost, Query, Reply
  <1>4. DatagramsMatch'
    <2> SUFFICES ASSUME NEW d \in queries' \cup replies'
                 PROVE  /\ d.port \in used'
                        /\ \A m \in Lookups : port'[m] = d.port => d.name = NameOf[m]
      BY DEF DatagramsMatch
    <2>1. \E e \in queries \cup replies : d.port = e.port /\ d.name = e.name
      BY DEF ServerAnswers, Lost
    <2>2. QED BY <1>1, <2>1 DEF IInv, DatagramsMatch
  <1>5. QED BY <1>1, <1>2, <1>3, <1>4 DEF IInv, TypeOK

(* Every step keeps the invariant.                                         *)
LEMMA NextInv == ~ReusePorts /\ IInv /\ [Next]_vars => IInv'
  <1> SUFFICES ASSUME ~ReusePorts, IInv, [Next]_vars PROVE IInv' OBVIOUS
  <1>1. CASE UNCHANGED vars
    BY <1>1 DEF vars, IInv, TypeOK, AnswerForName, DatagramsMatch, Sockets,
       ResultAtEnd
  <1>2. QED BY <1>1, TaskInv, NetworkInv DEF Next, Ended

(* The inductive invariant holds in every reachable state.                 *)
THEOREM Inductive == ~ReusePorts => (Spec => []IInv)
  <1> SUFFICES ASSUME ~ReusePorts PROVE Spec => []IInv OBVIOUS
  <1>1. IInv /\ [Next]_vars => IInv' BY NextInv
  <1>2. QED BY InitInv, <1>1, PTL DEF Spec

(* Every lookup's state and every datagram stay in their domains.          *)
THEOREM TypeCorrect == ~ReusePorts => (Spec => []TypeOK)
  <1> SUFFICES ASSUME ~ReusePorts PROVE Spec => []TypeOK OBVIOUS
  <1>1. IInv => TypeOK BY DEF IInv
  <1>2. QED BY Inductive, <1>1, PTL

(* A lookup never returns another domain's address.                        *)
THEOREM AnswersMatch == ~ReusePorts => (Spec => []AnswerForName)
  <1> SUFFICES ASSUME ~ReusePorts PROVE Spec => []AnswerForName OBVIOUS
  <1>1. IInv => AnswerForName BY DEF IInv
  <1>2. QED BY Inductive, <1>1, PTL

(* A step of the resolver is a step of Lookup or leaves the results.       *)
LEMMA StepKeepsPromise ==
    ASSUME IInv, ~ReusePorts, [Next]_vars
    PROVE  [L!Next]_result
  <1>1. ASSUME NEW l \in Lookups, NEW r \in {NoAddress, Address(NameOf[l])},
               stage[l] # "done", Return(l, r)
        PROVE  L!Next
    BY <1>1 DEF L!Next, IInv, ResultAtEnd, Return, L!Return, L!Pending, L!NoAddress, L!Address,
       Pending, NoAddress, Address
  <1>2. ASSUME NEW l \in Lookups, Task(l) PROVE [L!Next]_result
    <2>1. CASE Resolve(l)
      BY <1>1, <2>1 DEF Resolve
    <2>2. CASE SystemLookup(l)
      BY <1>1, <2>2 DEF SystemLookup
    <2>3. CASE Receive(l)
      <3>1. PICK r \in Deliverable(l) :
              /\ stage[l] = "recv"
              /\ Return(l, Address(r.name)) \/ UNCHANGED result
        BY <2>3 DEF Receive
      <3>2. r.name = NameOf[l]
        BY DEF Deliverable, IInv, DatagramsMatch
      <3>3. QED BY <1>1, <3>1, <3>2
    <2>4. QED
      BY <1>2, <2>1, <2>2, <2>3
         DEF Task, Bind, BindFails, SendFails, SendTo, TimesOut, GivesUp
  <1>3. QED BY <1>2 DEF Next, ServerAnswers, Lost, Ended, vars

(* The resolver implements Lookup: each call is answered once, with its own*)
(* domain's address or with None, under any loss, delay, repetition and    *)
(* interleaving.                                                           *)
THEOREM Refines == ~ReusePorts => (Spec => KeepsPromise)
  <1> SUFFICES ASSUME ~ReusePorts PROVE Spec => KeepsPromise OBVIOUS
  <1>1. Init => L!Init BY DEF Init, L!Init, Pending, L!Pending
  <1>2. IInv /\ [Next]_vars => [L!Next]_result BY StepKeepsPromise
  <1>3. QED BY Inductive, <1>1, <1>2, PTL DEF Spec, KeepsPromise, L!Spec
=============================================================================
