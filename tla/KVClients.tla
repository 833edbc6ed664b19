----------------------------- MODULE KVClients ------------------------------
(***************************************************************************)
(* The command line programs, over KVRpc: kvclient performs the calls of   *)
(* its arguments, -set before -get before -del, and exits; kvclient_1 and  *)
(* kvclient_2 perform the calls of each line they read, for as long as     *)
(* there are lines.  All of them pass one Result to the calls of a command *)
(* and end at the first call that throws.  Their sequence id is always 0,  *)
(* and they do not look at the one that comes back: nothing but the order  *)
(* of the stream ties an answer to its call.                               *)
(***************************************************************************)
EXTENDS KVRpc

CONSTANTS OneShot,  \* the clients that run kvclient; the others kvclient_1
          Lines,    \* the command lines, as sequences of words
          NoFile,   \* "no -get has written its file"
          Missing   \* a word beyond the end of the line

Options == {"-set", "-get", "-del"}

\* The words of a line, by their number.
Word(line, n) == IF n \in DOMAIN line THEN line[n] ELSE Missing

Has(line, option) == \E n \in DOMAIN line : line[n] = option

\* std::find: the number of the first word that is the option.
Position(line, option) ==
  CHOOSE n \in DOMAIN line : line[n] = option /\ \A m \in 1..(n - 1) : line[m] # option

\* The call of an option at word n, and the file name of a -get, which
\* is read with it, in the place of the value.
SetAt(line, n) == [fname |-> "kvset", key |-> Word(line, n + 1), value |-> Word(line, n + 2)]

GetAt(line, n) ==
  [fname |-> "kvget", key |-> Word(line, n + 1),
   value |-> IF Word(line, n + 2) = Missing THEN Missing ELSE Empty]

DelAt(line, n) == [fname |-> "kvdelete", key |-> Word(line, n + 1), value |-> Empty]

\* The calls of a line: -set, then -get, then -del, each where it stands.
LineCalls(line, set, get, del) ==
  LET when(b, call) == IF b THEN <<call>> ELSE <<>> IN
    when(Has(line, "-set"), SetAt(line, set))
      \o when(Has(line, "-get"), GetAt(line, get))
      \o when(del # 0, DelAt(line, del))

\* kvclient_1 and kvclient_2 take the arguments from the start of the line,
\* and -del only when it is the first word.
kvclient_1(line) == LineCalls(line, 1, 1, IF Word(line, 1) = "-del" THEN 1 ELSE 0)

\* A slip the properties are there to catch: kvclient does so too.
kvclientFirst(line) == LineCalls(line, 1, 1, IF Has(line, "-del") THEN 1 ELSE 0)

\* kvclient takes them from behind the option.
kvclient(line) ==
  LineCalls(line, Position(line, "-set"), Position(line, "-get"),
            IF Has(line, "-del") THEN Position(line, "-del") ELSE 0)

Parse(c, line) == IF c \in OneShot THEN kvclient(line) ELSE kvclient_1(line)

\* What a line makes a program call; a word may be missing.
Commands ==
  {r \in [fname : AllOps, key : Keys \cup {Missing}, value : Strings \cup {Missing}] :
     r.fname # "kvset" => r.value \in {Empty, Missing}}

ASSUME ClientsAssumption ==
  /\ OneShot \subseteq Clients
  /\ SeqIds = {0}
  /\ \A line \in Lines : Len(line) \in Nat /\ DOMAIN line = 1..Len(line)
  /\ \A c \in Clients, line \in Lines : Parse(c, line) \in Seq(Commands)
  /\ MayFail \in BOOLEAN
  /\ NoFile \notin Strings
  /\ Missing \notin Keys \cup Strings \cup Options

VARIABLES prog,  \* prog[c]: where the program of c is
          typed, \* typed[c]: the line it performs: its command line, or one it read
          todo,  \* todo[c]: the calls of its command not yet answered
          res,   \* res[c]: the Result it passes to them
          exit,  \* exit[c]: its exit code once it has ended
          file   \* file[c]: what the file named by -get holds

progVars == <<prog, typed, todo, res, exit, file>>
vars == <<rpcVars, progVars>>

TypeOK ==
  /\ RpcTypeOK
  /\ prog \in [Clients -> {"start", "ready", "waiting", "exited"}]
  /\ typed \in [Clients -> Lines \cup {<<>>}]
  /\ todo \in [Clients -> Seq(Commands)]
  /\ res \in [Clients -> Result]
  /\ exit \in [Clients -> {"none", "exit0", "exit1", "exit2", "SIGSEGV", "SIGABRT"}]
  /\ file \in [Clients -> Strings \cup {NoFile}]

Init ==
  /\ RpcInit
  /\ prog = [c \in Clients |-> "start"]
  /\ typed = [c \in Clients |-> <<>>]
  /\ todo = [c \in Clients |-> <<>>]
  /\ res = [c \in Clients |-> DefaultResult]
  /\ exit = [c \in Clients |-> "none"]
  /\ file = [c \in Clients |-> NoFile]
-----------------------------------------------------------------------------
GoTo(c, p) == prog' = [prog EXCEPT ![c] = p]

Exit(c, code) ==
  /\ GoTo(c, "exited")
  /\ exit' = [exit EXCEPT ![c] = code]
  /\ typed' = [typed EXCEPT ![c] = <<>>]
  /\ todo' = [todo EXCEPT ![c] = <<>>]
  /\ UNCHANGED <<res, file>>

\* The program has a line to perform.
Take(c, line) ==
  /\ typed' = [typed EXCEPT ![c] = line]
  /\ todo' = [todo EXCEPT ![c] = Parse(c, line)]

Connect(c) ==
  /\ prog[c] = "start"
  /\ Open(c)
  /\ GoTo(c, "ready")
  /\ IF c \in OneShot
       THEN \E line \in Lines : Take(c, line)
       ELSE UNCHANGED <<typed, todo>>
  /\ UNCHANGED <<res, exit, file>>

\* open() throws: kvclient exits with 1, the others with 2.
ConnectFails(c) ==
  /\ prog[c] = "start"
  /\ Exit(c, IF c \in OneShot THEN "exit1" ELSE "exit2")
  /\ UNCHANGED rpcVars

\* kvclient_1 and kvclient_2: std::getline and the split into tokens.
ReadLine(c) ==
  /\ prog[c] = "ready"
  /\ c \notin OneShot
  /\ todo[c] = <<>>
  /\ \E line \in Lines \ {<<>>} : Take(c, line)
  /\ res' = [res EXCEPT ![c] = DefaultResult]
  /\ UNCHANGED <<rpcVars, prog, exit, file>>

\* An empty line, or the end of the input: tokens[0] of an empty vector.
ReadNothing(c) ==
  /\ prog[c] = "ready"
  /\ c \notin OneShot
  /\ todo[c] = <<>>
  /\ Exit(c, "SIGSEGV")
  /\ CloseConn(c)

\* A word beyond the end of the line is read: the program crashes, or goes on
\* with whatever is there.
ReadBeyond(c) ==
  LET r == Head(todo[c]) IN
  /\ prog[c] = "ready"
  /\ todo[c] # <<>> /\ r \notin Requests
  /\ \/ \E code \in {"SIGSEGV", "SIGABRT"} : Exit(c, code) /\ CloseConn(c)
     \/ /\ \E q \in Requests :
             /\ q.fname = r.fname
             /\ r.key \in {q.key, Missing} /\ r.value \in {q.value, Missing}
             /\ todo' = [todo EXCEPT ![c] = <<q>> \o Tail(@)]
        /\ UNCHANGED <<rpcVars, prog, typed, res, exit, file>>

Send(c) ==
  /\ prog[c] = "ready"
  /\ todo[c] # <<>> /\ Head(todo[c]) \in Requests
  /\ SendCall(c, Head(todo[c]), 0)
  /\ GoTo(c, "waiting")
  /\ UNCHANGED <<typed, todo, res, exit, file>>

AnsweredWriting(c, written) ==
  LET r == Head(todo[c])
      m == NextReply(c) IN
  /\ prog[c] = "waiting"
  /\ RecvReply(c)
  /\ Expected(m, r.fname) /\ Returns(m)
  /\ GoTo(c, "ready")
  /\ todo' = [todo EXCEPT ![c] = Tail(@)]
  /\ typed' = IF Tail(todo[c]) = <<>> THEN [typed EXCEPT ![c] = <<>>] ELSE typed
  /\ res' = [res EXCEPT ![c] = presult(m.fields, @)]
  /\ file' = IF r.fname = "kvget" /\ written[res'[c].error]
               THEN [file EXCEPT ![c] = res'[c].value]
               ELSE file
  /\ UNCHANGED exit

\* A slip the properties are there to catch: a -get looks at no error.
AnsweredAnyway(c) == AnsweredWriting(c, [e \in ErrorCode |-> TRUE])

\* The call returns; a -get that found its key writes the value to the file.
Answered(c) == AnsweredWriting(c, [e \in ErrorCode |-> e = "kSuccess"])

\* The call throws: by the answer, or because the connection is broken.
Throws(c) ==
  /\ prog[c] = "waiting"
  /\ EndOfStream(c) \/ (replies[c] # <<>> /\ ~Returns(NextReply(c)))
  /\ Exit(c, "exit1")
  /\ CloseConn(c)

\* kvclient has performed its command: transport->close() and exit(0).
Finish(c) ==
  /\ prog[c] = "ready"
  /\ c \in OneShot
  /\ todo[c] = <<>>
  /\ Exit(c, "exit0")
  /\ CloseConn(c)

Program(c) ==
  \/ Connect(c) \/ ConnectFails(c)
  \/ ReadLine(c) \/ ReadNothing(c) \/ ReadBeyond(c)
  \/ Send(c) \/ Answered(c) \/ Throws(c)
  \/ Finish(c)

Next ==
  \E c \in Clients :
    \/ Program(c)
    \/ ServerThread(c) /\ UNCHANGED progVars
    \/ Break(c) /\ UNCHANGED progVars

Spec == Init /\ [][Next]_vars

\* A client that waits for an answer sees it or the broken connection, and
\* the server's threads are scheduled.
Fairness ==
  \A c \in Clients :
    /\ WF_vars(Answered(c) \/ Throws(c))
    /\ WF_vars(ServerThread(c) /\ UNCHANGED progVars)

FairSpec == Spec /\ Fairness
-----------------------------------------------------------------------------
(***************************************************************************)
(* Properties.                                                             *)
(***************************************************************************)
\* Every message that is on its way back or about to be written answers the
\* call the client waits for, so that recv_ never has to skip one although
\* the sequence id ties nothing, and none is left unread between two calls.
AnswersOf(c) == replies[c] \o (IF srv[c] = "writing" THEN <<out[c]>> ELSE <<>>)

InSync ==
  \A c \in Clients :
    /\ prog[c] = "ready" => calls[c] = <<>> /\ AnswersOf(c) = <<>>
    /\ prog[c] = "waiting" =>
         /\ Len(calls[c]) + Len(AnswersOf(c)) <= 1
         /\ AnswersOf(c) # <<>> => Expected(Head(AnswersOf(c)), Head(todo[c]).fname)

\* At most once.  A call that returns was executed exactly once since it was
\* sent, and the Result the program passed holds what the handler answered,
\* whatever an earlier call left in it; one that throws was executed once or
\* not at all, and may still be executed after its program has ended.
Waiting(c) == prog[c] = "waiting"

CallPhase ==
  [c \in Clients |->
     IF ~Waiting(c) THEN "idle" ELSE IF served[c][0] = NoReply THEN "invoked" ELSE "done"]

CallReq == [c \in Clients |-> IF Waiting(c) THEN Head(todo[c]) ELSE NoRequest]

CallReply == [c \in Clients |-> IF Waiting(c) THEN served[c][0] ELSE NoReply]

LateCalls ==
  [c \in Clients |->
     IF prog[c] = "exited" THEN {Args(calls[c][n]) : n \in DOMAIN calls[c]} ELSE {}]

Threw == {c \in Clients : exit[c] = "exit1" /\ conn[c] = "closed"}

Calls1 == INSTANCE KVCalls WITH
  Conns <- Clients,
  Ops <- {"kvset", "kvget", "kvdelete"},
  SetValues <- Strings,
  phase <- CallPhase,
  req <- CallReq,
  reply <- CallReply,
  threw <- Threw,
  late <- LateCalls

AtMostOnce == Calls1!CallsSpec

\* The file of a -get is written with the value of a key that was found, and
\* never with "", which is what every other answer carries.
NoEmptyFile == \A c \in Clients : file[c] # Empty

\* What a user asks for: options with their arguments behind them, none of
\* them twice, and no argument that looks like an option.
Phrases ==
  {<<"-set", k, v>> : k \in Keys \ Options, v \in Strings \ Options}
    \cup {<<"-get", k, f>> : k \in Keys \ Options, f \in Strings \ Options}
    \cup {<<"-del", k>> : k \in Keys \ Options}

UserCommands ==
  {ps \in [1..3 -> Phrases \cup {<<>>}] :
     \A i, j \in 1..3 : i # j /\ ps[i] # <<>> /\ ps[j] # <<>> => ps[i][1] # ps[j][1]}

LineOf(ps) == ps[1] \o ps[2] \o ps[3]

Means(p, r) ==
  CASE p[1] = "-set" -> r = [fname |-> "kvset", key |-> p[2], value |-> p[3]]
    [] p[1] = "-get" -> r = [fname |-> "kvget", key |-> p[2], value |-> Empty]
    [] p[1] = "-del" -> r = [fname |-> "kvdelete", key |-> p[2], value |-> Empty]

\* The calls are those asked for, one for each, -set before -get before -del.
Performs(made, ps) ==
  LET asked == {ps[i] : i \in 1..3} \ {<<>>} IN
  /\ \A p \in asked : \E n \in DOMAIN made : Means(p, made[n])
  /\ \A n \in DOMAIN made : \E p \in asked : Means(p, made[n])
  /\ \A m, n \in DOMAIN made :
       m < n => \/ made[m].fname = "kvset" /\ made[n].fname # "kvset"
                \/ made[m].fname = "kvget" /\ made[n].fname = "kvdelete"

\* "Find and perform" each option of the line: kvclient does, whatever the
\* order of the options.
FindAndPerform(c, ps) ==
  typed'[c] # typed[c] /\ typed'[c] = LineOf(ps) => Performs(todo'[c], ps)

\* kvclient and, for lines of one option, kvclient_1 and kvclient_2 make the
\* calls the user asked for, with their arguments, and no other.
CallsAsAsked ==
  [][\A c \in Clients : typed'[c] # typed[c] =>
       \A ps \in UserCommands :
         c \in OneShot \/ (\E i \in 1..3 : \A j \in 1..3 \ {i} : ps[j] = <<>>)
           => FindAndPerform(c, ps)]_vars

\* What the comments of all three programs say of any line.
EveryOptionPerformed ==
  [][\A c \in Clients : typed'[c] # typed[c] =>
       \A ps \in UserCommands : FindAndPerform(c, ps)]_vars

\* A call comes to an end, by its answer or by an exception, unless it needs
\* the mutex after a kvset has thrown.
CallsEnd == \A c \in Clients : prog[c] = "waiting" ~> prog[c] # "waiting" \/ Blocked(c)

\* The server's thread ends once its client is gone, unless it is blocked then.
ThreadsEnd ==
  \A c \in Clients : conn[c] \in {"broken", "closed"} ~> srv[c] = "ended" \/ Blocked(c)
=============================================================================
