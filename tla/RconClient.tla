-------------------------------- MODULE RconClient --------------------------------
(***************************************************************************)
(* A console command over RCON (executeRCON of rcon.go): a connection for    *)
(* each command, authentication, the command, and then the packets of its    *)
(* answer, of which the protocol does not say which is the last: the answer  *)
(* is over when nothing comes for a while, or when the limit of time is up.   *)
(***************************************************************************)
EXTENDS Naturals, Sequences

CONSTANTS OutputLimit, \* how much output is returned
          Sizes,       \* sizes of the packets of an answer
          MaxPackets   \* bound: packets of the server

ASSUME RconAssumption == OutputLimit \in Nat /\ Sizes \subseteq Nat /\ MaxPackets \in Nat

VARIABLES call,      \* where executeRCON is
          handshake, \* how many packets were read in answer to the authentication
          password,  \* the password of the binding is the server's
          game,      \* the server: what it has done with the connection
          executed,  \* how often the server has executed the command
          stream,    \* the packets on the way to the agent
          packets,   \* how many packets the server has sent in answer
          answered,  \* how much they hold
          received,  \* the call has read one of them
          taken,     \* how much it has read
          output,    \* what it has kept, by its place in the answer
          truncated  \* it says that there was more

sentVars == <<packets, answered>>
keptVars == <<received, taken, output, truncated>>
rconVars == <<call, handshake, password, game, executed, stream, sentVars, keptVars>>

RconInit ==
    /\ call = "none" /\ handshake = 0 /\ password \in BOOLEAN /\ game = "none" /\ executed = 0
    /\ stream = <<>> /\ packets = 0 /\ answered = 0
    /\ received = FALSE /\ taken = 0 /\ output = <<>> /\ truncated = FALSE

\* `at` is not in the code: the place in the answer.
Packet(kind, size) == [kind |-> kind, at |-> answered, size |-> size]
Reaches(c) == call' = c /\ UNCHANGED <<handshake, password, game, executed, stream, sentVars, keptVars>>

-----------------------------------------------------------------------------
(* The server, as the code expects it and as it may be otherwise *)

Game ==
    /\ packets < MaxPackets
    /\ \/ /\ game = "asked"
          /\ \/ stream' = Append(stream, Packet("value1", 0)) /\ UNCHANGED game /\ Len(stream) < 2
             \/ /\ stream' = Append(stream, Packet(IF password THEN "auth" ELSE "denied", 0))
                /\ game' = IF password THEN "open" ELSE "denied"
          /\ UNCHANGED <<executed, sentVars>>
       \/ /\ game = "command" /\ executed' = executed + 1 /\ game' = "answering"
          /\ UNCHANGED <<stream, sentVars>>
       \/ /\ game = "answering"
          /\ \/ \E size \in Sizes : /\ stream' = Append(stream, Packet("value2", size))
                                    /\ packets' = packets + 1 /\ answered' = answered + size
             \/ stream' = Append(stream, Packet("other", 0)) /\ UNCHANGED sentVars /\ Len(stream) < MaxPackets
          /\ UNCHANGED <<executed, game>>
    /\ UNCHANGED <<call, handshake, password, keptVars>>

-----------------------------------------------------------------------------
(* The agent *)

Dial ==
    \/ call = "none" /\ Reaches("error")
    \/ call = "none" /\ Reaches("dialed")

SendAuth ==
    \/ call = "dialed" /\ Reaches("error")
    \/ /\ call = "dialed" /\ call' = "auth" /\ game' = "asked"
       /\ UNCHANGED <<handshake, password, executed, stream, sentVars, keptVars>>

ReadAuth ==
    /\ call = "auth" /\ stream # <<>> /\ stream' = Tail(stream) /\ handshake' = handshake + 1
    /\ call' = CASE Head(stream).kind = "denied" -> "error"
                 [] Head(stream).kind = "auth" -> "ready"
                 [] OTHER -> IF handshake' = 2 THEN "error" ELSE "auth"
    /\ UNCHANGED <<password, game, executed, sentVars, keptVars>>

SendCommand ==
    \/ call = "ready" /\ Reaches("error")
    \/ /\ call = "ready" /\ call' = "reading" /\ game' = "command"
       /\ UNCHANGED <<handshake, password, executed, stream, sentVars, keptVars>>

Room == OutputLimit - Len(output)

\* Mutant: what is more than the limit is dropped without a word.
CutsSilently(size) == FALSE
Cuts(size) == Room <= 0 \/ size > Room

PlacesFrom(at, size) == [i \in 1 .. size |-> at + i]

ReadPacket ==
    /\ call = "reading" /\ stream # <<>> /\ stream' = Tail(stream)
    /\ LET packet == Head(stream)
       IN  IF packet.kind # "value2" THEN UNCHANGED keptVars
           ELSE /\ received' = TRUE /\ taken' = taken + packet.size
                /\ output' = output \o PlacesFrom(packet.at, IF packet.size > Room THEN Room ELSE packet.size)
                /\ truncated' = (truncated \/ Cuts(packet.size))
    /\ UNCHANGED <<call, handshake, password, game, executed, sentVars>>

\* Mutant: the end of the connection is the end of the answer, whatever has come.
AnyEnd == TRUE
Answered == received

(* A packet of the answer gives the next one 200 ms, unless the output is full, within the time   *)
(* for all; or the connection ends.  What has come of a packet in part is lost.                   *)
ReadEnds ==
    /\ call = "reading" /\ call' = IF Answered THEN "done" ELSE "error"
    /\ UNCHANGED <<handshake, password, game, executed, stream, sentVars, keptVars>>

(* Any end of the connection before the command is sent, and a packet that is none. *)
ReadFails == call \in {"auth", "reading"} /\ Reaches("error")

RconNext ==
    Game \/ Dial \/ SendAuth \/ ReadAuth \/ SendCommand \/ ReadPacket \/ ReadEnds \/ ReadFails

RconSpec == RconInit /\ [][RconNext]_rconVars

-----------------------------------------------------------------------------
(* Properties *)

\* The command is executed once at most, and not without the password; a call that succeeds has
\* had it executed (one that fails may have, too: the journal of commands takes it for done).
CommandIsExecutedOnce ==
    /\ executed <= 1 /\ (executed = 1 => password)
    /\ call = "done" => executed = 1

\* What is returned is the beginning of what the server has answered, as much of it as was read
\* and fits, and it says so when some of what was read is left out. (It also does when the rest
\* is an empty packet.)  It does not when the reading ends before the answer does.
OutputIsTrue ==
    /\ taken <= answered
    /\ Len(output) = IF taken <= OutputLimit THEN taken ELSE OutputLimit
    /\ \A i \in DOMAIN output : output[i] = i
    /\ taken > OutputLimit => truncated
    /\ truncated => Len(output) = OutputLimit

RconIsSound == CommandIsExecutedOnce /\ OutputIsTrue
=============================================================================
