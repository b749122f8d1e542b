-------------------------- MODULE LocalServer_proofs --------------------------
(***************************************************************************)
(* Proofs about LocalServer, for any finite number of connections.  What   *)
(* makes them work is that a connection is in one place at a time: in the  *)
(* backlog, with the server, in the queue as an answer, or taken; a second *)
(* request on a connection already answered could change its page.         *)
(***************************************************************************)
EXTENDS LocalServer, FiniteSetTheorems, SequenceTheorems, TLAPS

\* A request is being handled.
Handling == server.pc \in {"read", "write", "answer"}

\* There is an answer for connection c.
Answered(c) ==
    \/ \E i \in 1..Len(queue) : queue[i].conn = c
    \/ \E a \in auth_code : a.conn = c

\* The user was told of a success exactly where the answer is a code.
Truthful(a) == a.kind = "code" <=> page[a.conn] = "Login successful"

Types ==
    /\ main \in {"setup", "wait", "shutdown", "decide", "ended"}
    /\ auth_code \subseteq Answers /\ (auth_code = {} \/ \E a : auth_code = {a})
    /\ outcome \in {"none", "exchanged", "refused", "timed_out", "aborted"}
    /\ queue \in Seq(Answers)
    /\ stop \in BOOLEAN
    /\ server \in [pc : {"poll", "read", "write", "answer"}, conn : Conns]
                  \cup {[pc |-> "poll"], [pc |-> "stopped"]}
    /\ backlog \in Seq(Conns)
    /\ sent \in [Conns -> {"unopened", "nothing"} \cup Requests]
    /\ gone \subseteq Conns
    /\ page \in [Conns -> {"none", "Login successful", "Login failed"}]

\* A connection waits once, unanswered.
Waiting ==
    /\ \A i, j \in 1..Len(backlog) : backlog[i] = backlog[j] => i = j
    /\ \A i \in 1..Len(backlog) :
          /\ sent[backlog[i]] # "unopened" /\ page[backlog[i]] = "none"
          /\ ~Answered(backlog[i])
          /\ Handling => backlog[i] # server.conn

\* The one that is handled has no answer yet, and no page before it is written.
Handled ==
    Handling =>
        /\ sent[server.conn] # "unopened" /\ ~Answered(server.conn)
        /\ server.pc # "read" => sent[server.conn] \in Requests
        /\ page[server.conn] =
              IF server.pc # "answer" THEN "none"
              ELSE IF sent[server.conn] = "code" THEN "Login successful"
              ELSE "Login failed"

\* Every connection has one answer at most, and its page says the same.
Answering ==
    /\ \A i, j \in 1..Len(queue) : queue[i].conn = queue[j].conn => i = j
    /\ \A i \in 1..Len(queue) :
          /\ Truthful(queue[i]) /\ sent[queue[i].conn] # "unopened"
          /\ \A a \in auth_code : a.conn # queue[i].conn
    /\ \A a \in auth_code : Truthful(a) /\ sent[a.conn] # "unopened"
    /\ \A c \in Conns : sent[c] = "unopened" => page[c] = "none"

Deciding ==
    /\ main \in {"setup", "wait"} => auth_code = {}
    /\ main # "ended" => outcome = "none"
    /\ \A a \in auth_code :
          /\ outcome = "exchanged" => a.kind = "code"
          /\ outcome = "refused" => a.kind # "code"
    /\ main = "decide" => server.pc = "stopped"

ServerInv == Types /\ Waiting /\ Handled /\ Answering /\ Deciding
-------------------------------------------------------------------------------
LEMMA Appended ==
  ASSUME NEW S, NEW s \in Seq(S), NEW e \in S
  PROVE  /\ Append(s, e) \in Seq(S) /\ Len(Append(s, e)) = Len(s) + 1
         /\ \A i \in 1..Len(Append(s, e)) :
               Append(s, e)[i] = IF i <= Len(s) THEN s[i] ELSE e
         /\ Len(s) \in Nat
  BY AppendProperties, LenProperties

LEMMA Tailed ==
  ASSUME NEW S, NEW s \in Seq(S), s # <<>>
  PROVE  /\ Tail(s) \in Seq(S) /\ Len(Tail(s)) = Len(s) - 1
         /\ \A i \in 1..Len(Tail(s)) : Tail(s)[i] = s[i + 1] /\ i + 1 \in 1..Len(s)
         /\ Head(s) = s[1] /\ Head(s) \in S /\ 1 \in 1..Len(s)
         /\ Len(s) \in Nat
  <1>1. /\ Head(s) \in S /\ Tail(s) \in Seq(S) /\ Len(Tail(s)) = Len(s) - 1
        /\ \A i \in 1..Len(Tail(s)) : Tail(s)[i] = s[i + 1]
    BY HeadTailProperties
  <1>2. Len(s) \in Nat /\ Len(s) # 0
    BY LenProperties, EmptySeq
  <1> QED BY <1>1, <1>2

Connection == [pc : {"poll", "read", "write", "answer"}, conn : Conns]

\* What is where.
LEMMA Members ==
  ASSUME Types
  PROVE  /\ Handling => server \in Connection /\ server.conn \in Conns
         /\ server.pc \in {"poll", "read", "write", "answer", "stopped"}
         /\ \A i \in 1..Len(backlog) : backlog[i] \in Conns
         /\ \A i \in 1..Len(queue) : queue[i] \in Answers /\ queue[i].conn \in Conns
         /\ \A a \in auth_code : a \in Answers /\ a.conn \in Conns
         /\ Len(backlog) \in Nat /\ Len(queue) \in Nat
  <1>1. server \in Connection \cup {[pc |-> "poll"], [pc |-> "stopped"]}
    BY DEF Types, Connection
  <1>2. server \in Connection \/ server.pc \in {"poll", "stopped"}
    BY <1>1
  <1>3. server \in Connection => /\ server.pc \in {"poll", "read", "write", "answer"}
                                 /\ server.conn \in Conns
    BY DEF Connection
  <1>4. \A a \in Answers : a.conn \in Conns
    BY DEF Answers
  <1>5. backlog \in Seq(Conns) /\ queue \in Seq(Answers) /\ auth_code \subseteq Answers
    BY DEF Types
  <1>6. \A i \in 1..Len(queue) : queue[i] \in Answers
    BY <1>5
  <1>7. \A i \in 1..Len(backlog) : backlog[i] \in Conns
    BY <1>5
  <1>8. Len(backlog) \in Nat /\ Len(queue) \in Nat
    BY <1>5
  <1> QED BY <1>2, <1>3, <1>4, <1>5, <1>6, <1>7, <1>8 DEF Handling
-------------------------------------------------------------------------------
(***************************************************************************)
(* The browser.                                                            *)
(***************************************************************************)
LEMMA ConnectStep ==
  ASSUME ServerInv, NEW c \in Conns, Connect(c)
  PROVE  ServerInv'
  <1>0. Types /\ Waiting /\ Handled /\ Answering /\ Deciding
    BY DEF ServerInv
  <1>1. /\ sent[c] = "unopened" /\ sent' = [sent EXCEPT ![c] = "nothing"]
        /\ backlog' = Append(backlog, c)
        /\ main' = main /\ auth_code' = auth_code /\ outcome' = outcome /\ queue' = queue
        /\ stop' = stop /\ server' = server /\ gone' = gone /\ page' = page
    BY DEF Connect, mainVars
  <1>2. backlog \in Seq(Conns)
        /\ sent \in [Conns -> {"unopened", "nothing"} \cup Requests]
    BY <1>0 DEF Types
  <1>3. /\ backlog' \in Seq(Conns) /\ Len(backlog') = Len(backlog) + 1 /\ Len(backlog) \in Nat
        /\ \A i \in 1..Len(backlog') : backlog'[i] = IF i <= Len(backlog) THEN backlog[i] ELSE c
    BY <1>1, <1>2, Appended
  <1>4. /\ sent' \in [Conns -> {"unopened", "nothing"} \cup Requests]
        /\ \A d \in Conns : sent'[d] = IF d = c THEN "nothing" ELSE sent[d]
    BY <1>1, <1>2
  <1>5. Types'
    BY <1>0, <1>1, <1>3, <1>4 DEF Types
  <1>6. \A d : Answered(d)' = Answered(d)
    BY <1>1 DEF Answered
  <1>7. /\ ~Answered(c) /\ page[c] = "none" /\ (Handling => c # server.conn)
        /\ \A i \in 1..Len(backlog) : c # backlog[i]
    BY <1>0, <1>1 DEF Answering, Answered, Waiting, Handled
  <1>8. Waiting'
    <2> SUFFICES ASSUME NEW i \in 1..Len(backlog')
                 PROVE  /\ \A j \in 1..Len(backlog') : backlog'[i] = backlog'[j] => i = j
                        /\ sent'[backlog'[i]] # "unopened" /\ page'[backlog'[i]] = "none"
                        /\ ~Answered(backlog[i])'
                        /\ Handling' => backlog'[i] # server'.conn
      BY DEF Waiting
    <2>1. Handling' = Handling
      BY <1>1 DEF Handling
    <2>2. \A k \in 1..Len(backlog) : backlog[k] \in Conns
      BY <1>0, Members
    <2>3. CASE i \in 1..Len(backlog)
      BY <1>0, <1>1, <1>3, <1>4, <1>6, <1>7, <2>1, <2>2, <2>3 DEF Waiting
    <2>4. CASE i \notin 1..Len(backlog)
      BY <1>0, <1>1, <1>3, <1>4, <1>6, <1>7, <2>1, <2>2, <2>4 DEF Waiting
    <2> QED BY <2>3, <2>4
  <1>9. Handled'
    BY <1>0, <1>1, <1>4, <1>6, <1>7, Members DEF Handled, Handling
  <1>10. Answering'
    <2>1. \A d \in Conns : /\ sent[d] # "unopened" => sent'[d] # "unopened"
                          /\ sent'[d] = "unopened" => sent[d] = "unopened"
      BY <1>1, <1>4
    <2>2. \A b : Truthful(b)' <=> Truthful(b)
      BY <1>1 DEF Truthful
    <2>3. /\ \A i \in 1..Len(queue) : queue[i].conn \in Conns
          /\ \A b \in auth_code : b.conn \in Conns
      BY <1>0, Members
    <2> QED BY <1>0, <1>1, <2>1, <2>2, <2>3 DEF Answering
  <1>11. Deciding'
    BY <1>0, <1>1 DEF Deciding
  <1> QED BY <1>5, <1>8, <1>9, <1>10, <1>11 DEF ServerInv

LEMMA SendStep ==
  ASSUME ServerInv, NEW c \in Conns, Send(c)
  PROVE  ServerInv'
  <1>0. Types /\ Waiting /\ Handled /\ Answering /\ Deciding
    BY DEF ServerInv
  <1>1. PICK r \in Requests : sent' = [sent EXCEPT ![c] = r]
    BY DEF Send
  <1>2. /\ sent[c] = "nothing" /\ backlog' = backlog
        /\ main' = main /\ auth_code' = auth_code /\ outcome' = outcome /\ queue' = queue
        /\ stop' = stop /\ server' = server /\ gone' = gone /\ page' = page
    BY DEF Send, mainVars
  <1>3. /\ sent' \in [Conns -> {"unopened", "nothing"} \cup Requests]
        /\ \A d \in Conns : sent'[d] = IF d = c THEN r ELSE sent[d]
        /\ r # "unopened" /\ r # "nothing" /\ "nothing" \notin Requests
    BY <1>0, <1>1 DEF Types, Requests
  <1>4. Types'
    BY <1>0, <1>2, <1>3 DEF Types
  <1>5. Waiting'
    BY <1>0, <1>2, <1>3, Members DEF Waiting, Answered, Handling
  <1>6. Handled'
    BY <1>0, <1>2, <1>3, Members DEF Handled, Answered, Handling
  <1>7. Answering'
    BY <1>0, <1>2, <1>3, Members DEF Answering, Truthful
  <1>8. Deciding'
    BY <1>0, <1>2 DEF Deciding
  <1> QED BY <1>4, <1>5, <1>6, <1>7, <1>8 DEF ServerInv

\* A step that changes neither what is sent, shown or answered nor the waiting.
LEMMA Unmoved ==
  ASSUME ServerInv, UNCHANGED <<queue, backlog, sent, page>>
  PROVE  /\ auth_code' = auth_code => Answering'
         /\ auth_code' = auth_code /\ (Handling' => Handling /\ server'.conn = server.conn)
               => Waiting'
         /\ auth_code' = auth_code /\ server' = server => Handled'
  BY DEF ServerInv, Answering, Truthful, Waiting, Answered, Handled, Handling

LEMMA CloseStep ==
  ASSUME ServerInv, NEW c \in Conns, Close(c)
  PROVE  ServerInv'
  <1>1. /\ gone' = gone \cup {c}
        /\ main' = main /\ auth_code' = auth_code /\ outcome' = outcome /\ queue' = queue
        /\ stop' = stop /\ server' = server /\ backlog' = backlog /\ sent' = sent /\ page' = page
    BY DEF Close, mainVars
  <1>2. Types'
    BY <1>1 DEF ServerInv, Types
  <1>3. Deciding'
    BY <1>1 DEF ServerInv, Deciding
  <1> QED BY <1>1, <1>2, <1>3, Unmoved DEF ServerInv, Handling
-------------------------------------------------------------------------------
(***************************************************************************)
(* The server thread.                                                      *)
(***************************************************************************)
LEMMA AcceptStep ==
  ASSUME ServerInv, Accept
  PROVE  ServerInv'
  <1>0. Types /\ Waiting /\ Handled /\ Answering /\ Deciding
    BY DEF ServerInv
  <1>1. /\ server.pc = "poll" /\ main # "ended" /\ backlog # <<>>
        /\ server' = [pc |-> "read", conn |-> Head(backlog)] /\ backlog' = Tail(backlog)
        /\ main' = main /\ auth_code' = auth_code /\ outcome' = outcome /\ queue' = queue
        /\ stop' = stop /\ gone' = gone /\ sent' = sent /\ page' = page
    BY DEF Accept, Serving, mainVars, browserVars
  <1>2. backlog \in Seq(Conns)
    BY <1>0 DEF Types
  <1>3. /\ backlog' \in Seq(Conns) /\ Len(backlog') = Len(backlog) - 1
        /\ \A i \in 1..Len(backlog') : backlog'[i] = backlog[i + 1] /\ i + 1 \in 1..Len(backlog)
        /\ Head(backlog) = backlog[1] /\ Head(backlog) \in Conns /\ 1 \in 1..Len(backlog)
        /\ Len(backlog) \in Nat
    BY <1>1, <1>2, Tailed
  <1>4. server'.pc = "read" /\ server'.conn = backlog[1] /\ server' \in Connection
    BY <1>1, <1>3 DEF Connection
  <1>5. Types'
    BY <1>0, <1>1, <1>3, <1>4 DEF Types, Connection
  <1>6. \A d : Answered(d)' = Answered(d)
    BY <1>1 DEF Answered
  <1>7. Waiting'
    <2> SUFFICES ASSUME NEW i \in 1..Len(backlog')
                 PROVE  /\ \A j \in 1..Len(backlog') : backlog'[i] = backlog'[j] => i = j
                        /\ sent'[backlog'[i]] # "unopened" /\ page'[backlog'[i]] = "none"
                        /\ ~Answered(backlog[i])'
                        /\ backlog'[i] # server'.conn
      BY DEF Waiting
    <2>1. backlog'[i] = backlog[i + 1] /\ i + 1 \in 1..Len(backlog) /\ i + 1 # 1
      <3>1. backlog'[i] = backlog[i + 1] /\ i + 1 \in 1..Len(backlog)
        BY <1>3
      <3>2. i \in Nat /\ i # 0
        BY <1>3
      <3> QED BY <3>1, <3>2
    <2>2. \A j \in 1..Len(backlog') : backlog'[i] = backlog'[j] => i = j
      BY <1>0, <1>3, <2>1 DEF Waiting
    <2> QED BY <1>0, <1>1, <1>3, <1>4, <1>6, <2>1, <2>2 DEF Waiting
  <1>8. Handled'
    BY <1>0, <1>1, <1>3, <1>4, <1>6 DEF Waiting, Handled
  <1>9. Answering'
    BY <1>0, <1>1 DEF Answering, Truthful
  <1>10. Deciding'
    BY <1>0, <1>1 DEF Deciding
  <1> QED BY <1>5, <1>7, <1>8, <1>9, <1>10 DEF ServerInv

LEMMA StopStep ==
  ASSUME ServerInv, StopServing \/ ReadNothing
  PROVE  ServerInv'
  <1>0. Types /\ Waiting /\ Handled /\ Answering /\ Deciding
    BY DEF ServerInv
  <1>1. /\ server' \in {[pc |-> "poll"], [pc |-> "stopped"]}
        /\ server.pc \in {"poll", "read"} /\ main # "ended" /\ backlog' = backlog
        /\ main' = main /\ auth_code' = auth_code /\ outcome' = outcome /\ queue' = queue
        /\ stop' = stop /\ gone' = gone /\ sent' = sent /\ page' = page
    BY DEF StopServing, ReadNothing, Finish, Serving, mainVars, browserVars
  <1>2. server'.pc \in {"poll", "stopped"} /\ ~Handling'
    BY <1>1 DEF Handling
  <1>3. Types'
    BY <1>0, <1>1 DEF Types
  <1>4. Deciding'
    BY <1>0, <1>1, <1>2 DEF Deciding
  <1> QED BY <1>1, <1>2, <1>3, <1>4, Unmoved DEF ServerInv, Handled

LEMMA ReadStep ==
  ASSUME ServerInv, ReadRequest
  PROVE  ServerInv'
  <1>0. Types /\ Waiting /\ Handled /\ Answering /\ Deciding
    BY DEF ServerInv
  <1>1. /\ server.pc = "read" /\ sent[server.conn] # "nothing"
        /\ server' = [server EXCEPT !.pc = "write"] /\ backlog' = backlog
        /\ main' = main /\ auth_code' = auth_code /\ outcome' = outcome /\ queue' = queue
        /\ stop' = stop /\ gone' = gone /\ sent' = sent /\ page' = page
    BY DEF ReadRequest, Serving, mainVars, browserVars
  <1>2. server \in Connection /\ server.conn \in Conns /\ Handling
    BY <1>0, <1>1, Members DEF Handling
  <1>3. server' \in Connection /\ server'.pc = "write" /\ server'.conn = server.conn
    BY <1>1, <1>2 DEF Connection
  <1>4. Types'
    BY <1>0, <1>1, <1>3 DEF Types, Connection
  <1>5. Handled'
    <2>1. sent[server.conn] \in Requests
      BY <1>0, <1>1, <1>2 DEF Handled, Types
    <2> QED BY <1>0, <1>1, <1>2, <1>3, <2>1 DEF Handled, Answered
  <1>6. Deciding'
    BY <1>0, <1>1 DEF Deciding
  <1> QED BY <1>1, <1>2, <1>3, <1>4, <1>5, <1>6, Unmoved DEF ServerInv

\* The page is written on a connection that has no answer yet.
LEMMA WriteStep ==
  ASSUME ServerInv, WritePage
  PROVE  ServerInv'
  <1>0. Types /\ Waiting /\ Handled /\ Answering /\ Deciding
    BY DEF ServerInv
  <1> DEFINE told == IF sent[server.conn] = "code" THEN "Login successful" ELSE "Login failed"
  <1>1. /\ server.pc = "write" /\ page' = [page EXCEPT ![server.conn] = told]
        /\ server' = [server EXCEPT !.pc = "answer"] /\ backlog' = backlog
        /\ main' = main /\ auth_code' = auth_code /\ outcome' = outcome /\ queue' = queue
        /\ stop' = stop /\ gone' = gone /\ sent' = sent
    BY DEF WritePage, Serving, mainVars, browserVars
  <1>2. server \in Connection /\ server.conn \in Conns /\ Handling
    BY <1>0, <1>1, Members DEF Handling
  <1>3. server' \in Connection /\ server'.pc = "answer" /\ server'.conn = server.conn
    BY <1>1, <1>2 DEF Connection
  <1>4. /\ page' \in [Conns -> {"none", "Login successful", "Login failed"}]
        /\ \A d \in Conns : page'[d] = IF d = server.conn THEN told ELSE page[d]
    BY <1>0, <1>1, <1>2 DEF Types
  <1>5. Types'
    BY <1>0, <1>1, <1>3, <1>4 DEF Types, Connection
  <1>6. ~Answered(server.conn) /\ sent[server.conn] # "unopened"
    BY <1>0, <1>2 DEF Handled
  <1>7. \A d : Answered(d)' = Answered(d)
    BY <1>1 DEF Answered
  <1>8. Waiting'
    <2>1. \A i \in 1..Len(backlog) : backlog[i] \in Conns /\ backlog[i] # server.conn
      BY <1>0, <1>2, Members DEF Waiting
    <2>2. \A i \in 1..Len(backlog) : page'[backlog[i]] = page[backlog[i]]
      BY <1>4, <2>1
    <2> QED BY <1>0, <1>1, <1>3, <1>7, <2>1, <2>2 DEF Waiting
  <1>9. Handled'
    BY <1>0, <1>1, <1>2, <1>3, <1>4, <1>6, <1>7 DEF Handled, Handling
  <1>10. Answering'
    <2>1. /\ \A i \in 1..Len(queue) : queue[i].conn \in Conns /\ queue[i].conn # server.conn
          /\ \A b \in auth_code : b.conn \in Conns /\ b.conn # server.conn
      BY <1>0, <1>6, Members DEF Answered
    <2>2. /\ \A i \in 1..Len(queue) : Truthful(queue[i])' <=> Truthful(queue[i])
          /\ \A b \in auth_code : Truthful(b)' <=> Truthful(b)
      BY <1>1, <1>4, <2>1 DEF Truthful
    <2>3. \A d \in Conns : sent[d] = "unopened" => page'[d] = page[d]
      BY <1>4, <1>6
    <2> QED BY <1>0, <1>1, <2>1, <2>2, <2>3 DEF Answering
  <1>11. Deciding'
    BY <1>0, <1>1 DEF Deciding
  <1> QED BY <1>5, <1>8, <1>9, <1>10, <1>11 DEF ServerInv

\* An answer is put in the queue: the code where the page told of a success.
LEMMA AnswerStep ==
  ASSUME ServerInv, ReturnCode \/ HandleError
  PROVE  ServerInv'
  <1>0. Types /\ Waiting /\ Handled /\ Answering /\ Deciding
    BY DEF ServerInv
  <1>1. PICK kind \in {"code", "local_error", "exception"} :
          /\ queue' = Append(queue, [conn |-> server.conn, kind |-> kind])
          /\ \/ server.pc = "answer" /\ (kind = "code" <=> sent[server.conn] = "code")
             \/ server.pc \in {"read", "write"} /\ kind = "exception"
    BY DEF ReturnCode, HandleError, Answer, Serving
  <1>2. /\ server' = [pc |-> "poll"] /\ backlog' = backlog /\ main # "ended"
        /\ main' = main /\ auth_code' = auth_code /\ outcome' = outcome /\ page' = page
        /\ stop' = stop /\ gone' = gone /\ sent' = sent
    BY DEF ReturnCode, HandleError, Finish, Serving, mainVars, browserVars
  <1> DEFINE a == [conn |-> server.conn, kind |-> kind]
  <1>3. Handling /\ server.conn \in Conns /\ server.pc \in {"read", "write", "answer"}
    BY <1>0, <1>1, Members DEF Handling
  <1>4. a \in Answers /\ a.conn = server.conn /\ a.kind = kind
    BY <1>3 DEF Answers
  <1>5. Truthful(a)
    BY <1>0, <1>1, <1>3, <1>4 DEF Truthful, Handled
  <1> HIDE DEF a
  <1>6. /\ queue' \in Seq(Answers) /\ Len(queue') = Len(queue) + 1 /\ Len(queue) \in Nat
        /\ \A i \in 1..Len(queue') : queue'[i] = IF i <= Len(queue) THEN queue[i] ELSE a
    <2>1. queue \in Seq(Answers) /\ queue' = Append(queue, a)
      BY <1>0, <1>1 DEF Types, a
    <2> QED BY <1>4, <2>1, Appended
  <1>7. Types'
    BY <1>0, <1>2, <1>6 DEF Types
  <1>8. ~Handling' /\ server'.pc = "poll"
    BY <1>2 DEF Handling
  <1>9. ~Answered(server.conn) /\ sent[server.conn] # "unopened"
    BY <1>0, <1>3 DEF Handled
  <1>10. \A d : Answered(d)' => Answered(d) \/ d = server.conn
    <2>1. ASSUME NEW d, Answered(d)' PROVE Answered(d) \/ d = server.conn
      <3>1. CASE \E b \in auth_code : b.conn = d
        BY <3>1 DEF Answered
      <3>2. CASE \E i \in 1..Len(queue') : queue'[i].conn = d
        BY <1>4, <1>6, <3>2 DEF Answered
      <3> QED BY <1>2, <2>1, <3>1, <3>2 DEF Answered
    <2> QED BY <2>1
  <1>11. Waiting'
    BY <1>0, <1>2, <1>3, <1>8, <1>10, Members DEF Waiting
  <1>12. Handled'
    BY <1>8 DEF Handled
  <1>13. Answering'
    <2>1. \A i \in 1..Len(queue') :
            /\ queue'[i].conn \in Conns /\ sent[queue'[i].conn] # "unopened"
            /\ Truthful(queue'[i])
            /\ \A b \in auth_code : b.conn # queue'[i].conn
      <3> SUFFICES ASSUME NEW i \in 1..Len(queue')
                   PROVE  /\ queue'[i].conn \in Conns /\ sent[queue'[i].conn] # "unopened"
                          /\ Truthful(queue'[i])
                          /\ \A b \in auth_code : b.conn # queue'[i].conn
        OBVIOUS
      <3>1. CASE i \in 1..Len(queue)
        <4>1. queue'[i] = queue[i]
          BY <1>6, <3>1
        <4> QED BY <1>0, <3>1, <4>1, Members DEF Answering
      <3>2. CASE i \notin 1..Len(queue)
        <4>1. queue'[i] = a
          BY <1>6, <3>2
        <4> QED BY <1>3, <1>4, <1>5, <1>9, <4>1 DEF Answered
      <3> QED BY <3>1, <3>2
    <2>2. \A i, j \in 1..Len(queue') : queue'[i].conn = queue'[j].conn => i = j
      <3>1. \A i \in 1..Len(queue) : queue[i].conn # a.conn
        BY <1>4, <1>9 DEF Answered
      <3> QED BY <1>0, <1>6, <3>1 DEF Answering
    <2>3. \A b : Truthful(b)' = Truthful(b)
      BY <1>2 DEF Truthful
    <2> QED BY <1>0, <1>2, <2>1, <2>2, <2>3 DEF Answering
  <1>14. Deciding'
    BY <1>0, <1>2, <1>3 DEF Deciding
  <1> QED BY <1>7, <1>11, <1>12, <1>13, <1>14 DEF ServerInv
-------------------------------------------------------------------------------
(***************************************************************************)
(* The main thread.                                                        *)
(***************************************************************************)
LEMMA TakeStep ==
  ASSUME ServerInv, TakeAnswer
  PROVE  ServerInv'
  <1>0. Types /\ Waiting /\ Handled /\ Answering /\ Deciding
    BY DEF ServerInv
  <1>1. /\ main = "wait" /\ main' = "shutdown" /\ queue # <<>>
        /\ auth_code' = {Head(queue)} /\ queue' = Tail(queue) /\ stop' = TRUE
        /\ server' = server /\ backlog' = backlog /\ outcome' = outcome /\ page' = page
        /\ gone' = gone /\ sent' = sent
    BY DEF TakeAnswer, browserVars
  <1>2. auth_code = {}
    BY <1>0, <1>1 DEF Deciding
  <1>3. /\ queue' \in Seq(Answers) /\ Len(queue') = Len(queue) - 1
        /\ \A i \in 1..Len(queue') : queue'[i] = queue[i + 1] /\ i + 1 \in 1..Len(queue)
        /\ Head(queue) = queue[1] /\ Head(queue) \in Answers /\ 1 \in 1..Len(queue)
        /\ Len(queue) \in Nat
    BY <1>0, <1>1, Tailed DEF Types
  <1>4. auth_code' = {queue[1]}
    BY <1>1, <1>3
  <1>5. Types'
    BY <1>0, <1>1, <1>3 DEF Types
  <1>6. \A d : Answered(d)' => Answered(d)
    BY <1>3, <1>4 DEF Answered
  <1>7. Waiting'
    BY <1>0, <1>1, <1>6 DEF Waiting, Handling
  <1>8. Handled'
    BY <1>0, <1>1, <1>6 DEF Handled, Handling
  <1>9. Answering'
    <2>1. \A b : Truthful(b)' = Truthful(b)
      BY <1>1 DEF Truthful
    <2>2. \A i, j \in 1..Len(queue') : queue'[i].conn = queue'[j].conn => i = j
      BY <1>0, <1>3 DEF Answering
    <2>3. \A i \in 1..Len(queue') :
            /\ Truthful(queue'[i]) /\ sent[queue'[i].conn] # "unopened"
            /\ queue[1].conn # queue'[i].conn
      BY <1>0, <1>3 DEF Answering
    <2> QED BY <1>0, <1>1, <1>3, <1>4, <2>1, <2>2, <2>3 DEF Answering
  <1>10. Deciding'
    BY <1>0, <1>1 DEF Deciding
  <1> QED BY <1>5, <1>7, <1>8, <1>9, <1>10 DEF ServerInv

LEMMA MainStep ==
  ASSUME ServerInv, OpenBrowser \/ Timeout \/ Abort \/ ShutdownReturns \/ Decide
  PROVE  ServerInv'
  <1>0. Types /\ Waiting /\ Handled /\ Answering /\ Deciding
    BY DEF ServerInv
  <1>1. UNCHANGED <<auth_code, queue, stop, server, backlog, sent, gone, page>>
    BY DEF OpenBrowser, Timeout, Abort, ShutdownReturns, Decide, browserVars
  <1>2. Types'
    BY <1>0, <1>1 DEF Types, OpenBrowser, Timeout, Abort, ShutdownReturns, Decide, End
  <1>3. Deciding'
    <2>1. CASE OpenBrowser \/ Timeout \/ Abort \/ ShutdownReturns
      BY <1>0, <1>1, <2>1 DEF Deciding, OpenBrowser, Timeout, Abort, ShutdownReturns, End
    <2>2. CASE Decide
      BY <1>0, <1>1, <2>2 DEF Types, Deciding, Decide, End
    <2> QED BY <2>1, <2>2
  <1> QED BY <1>1, <1>2, <1>3, Unmoved DEF ServerInv, Handling
-------------------------------------------------------------------------------
LEMMA ServerInit == Init => ServerInv
  <1> SUFFICES ASSUME Init PROVE ServerInv
    OBVIOUS
  <1>1. server.pc = "poll" /\ ~Handling
    BY DEF Init, Handling
  <1>2. Types
    <2>1. <<>> \in Seq(Answers) /\ <<>> \in Seq(Conns)
      OBVIOUS
    <2> QED BY <2>1 DEF Init, Types
  <1>3. Len(queue) = 0 /\ Len(backlog) = 0 /\ auth_code = {}
    BY DEF Init
  <1> QED BY <1>1, <1>2, <1>3 DEF Init, ServerInv, Waiting, Handled, Answering, Deciding

LEMMA ServerNext == ServerInv /\ [Next]_vars => ServerInv'
  <1> SUFFICES ASSUME ServerInv, [Next]_vars PROVE ServerInv'
    OBVIOUS
  <1>1. CASE UNCHANGED vars
    <2>1. Types' /\ Deciding'
      BY <1>1 DEF ServerInv, Types, Deciding, vars
    <2> QED BY <1>1, <2>1, Unmoved DEF ServerInv, vars, Handling
  <1> QED BY <1>1, ConnectStep, SendStep, CloseStep, AcceptStep, StopStep, ReadStep, WriteStep,
             AnswerStep, TakeStep, MainStep
          DEF Next, Main, Server, Browser, Done

LEMMA ServerInvariant == Spec => []ServerInv
  BY ServerInit, ServerNext, PTL DEF Spec

\* No connection is answered twice, so the queue never holds more answers than
\* there are connections.
LEMMA QueueBound == ServerInv => Len(queue) <= Cardinality(Conns)
  <1> SUFFICES ASSUME ServerInv PROVE Len(queue) <= Cardinality(Conns)
    OBVIOUS
  <1> DEFINE f == [i \in 1..Len(queue) |-> queue[i].conn]
  <1>1. Len(queue) \in Nat /\ \A i \in 1..Len(queue) : queue[i].conn \in Conns
    BY Members DEF ServerInv
  <1>2. \A i, j \in 1..Len(queue) : f[i] = f[j] => i = j
    BY DEF ServerInv, Answering
  <1>3. f \in Injection(1..Len(queue), Conns)
    <2>1. f \in [1..Len(queue) -> Conns]
      BY <1>1
    <2> HIDE DEF f
    <2>2. IsInjective(f)
      BY <1>2, <2>1 DEF IsInjective
    <2> QED BY <2>1, <2>2 DEF Injection
  <1>4. Cardinality(1..Len(queue)) <= Cardinality(Conns)
    BY <1>3, FS_Injection, ConnsAssumption
  <1>5. Cardinality(1..Len(queue)) = Len(queue)
    <2>1. Len(queue) \in Int /\ 1 \in Int
      BY <1>1
    <2>2. Cardinality(1..Len(queue)) = IF 1 > Len(queue) THEN 0 ELSE Len(queue) - 1 + 1
      BY ONLY <2>1, FS_Interval
    <2> QED BY <1>1, <2>2
  <1> QED BY <1>4, <1>5

\* Whatever the browser and the threads do, every variable keeps its type, and
\* the queue is never longer than there are connections.
THEOREM TypeCorrect == Spec => []TypeOK
  <1>1. ServerInv => TypeOK
    <2> SUFFICES ASSUME ServerInv PROVE TypeOK
      OBVIOUS
    <2>1. Cardinality(auth_code) <= 1
      <3>1. auth_code = {} \/ \E a : auth_code = {a}
        BY DEF ServerInv, Types
      <3>2. CASE auth_code = {}
        BY <3>2, FS_EmptySet
      <3>3. CASE \E a : auth_code = {a}
        BY <3>3, FS_Singleton
      <3> QED BY <3>1, <3>2, <3>3
    <2> QED BY <2>1, QueueBound DEF ServerInv, Types, TypeOK
  <1> QED BY <1>1, ServerInvariant, PTL

\* However many connections the browser opens, closes and leaves, the page on
\* the one that decides the flow says what the CLI does next.
THEOREM ResultTheorem == Spec => []ResultMatchesPage
  <1>1. ServerInv => ResultMatchesPage
    BY DEF ServerInv, Answering, Truthful, Deciding, ResultMatchesPage
  <1> QED BY <1>1, ServerInvariant, PTL

\* Once shutdown() has returned, no page is written any more.
THEOREM ShutdownTheorem == Spec => NothingServedAfterShutdown
  <1> DEFINE A == main \in {"decide", "ended"} => page' = page
  <1>1. ServerInv /\ [Next]_vars => [A]_vars
    <2> SUFFICES ASSUME ServerInv, Next, main \in {"decide", "ended"} PROVE page' = page
      OBVIOUS
    <2>1. ~WritePage
      BY DEF ServerInv, Deciding, WritePage, Serving
    <2> QED BY <2>1
            DEF Next, Main, Server, Browser, Done, Abort, OpenBrowser, TakeAnswer, Timeout,
                ShutdownReturns, Decide, Accept, StopServing, ReadRequest, ReadNothing,
                ReturnCode, HandleError, Connect, Send, Close, vars
  <1> QED BY <1>1, ServerInvariant, PTL DEF Spec, NothingServedAfterShutdown
===============================================================================
