----------------------------- MODULE LwipSockets -----------------------------
(* lwIP's socket table, as far as the HTTP and the DNS server use it. A number  *)
(* that was closed is given out again. Every call waits for the TCP/IP task, so *)
(* another task may run before and after it.                                    *)
EXTENDS Integers, FiniteSets

CONSTANT Fds  \* the socket numbers

NoFd == -1

ASSUME SocketAssumption == Fds \subseteq Nat

VARIABLE sock  \* what each socket is

\* A TCP socket before and after bind, the one that listens, an accepted
\* connection; a UDP socket before and after bind.
Kinds == {"tcp", "bound", "listening", "client", "udp", "dns"}

SockTypeOK == sock \in [Fds -> Kinds \cup {"free"}]

SockInit == sock = [fd \in Fds |-> "free"]

Free(fd) == sock[fd] = "free"

\* The number that socket or accept returns is the lowest that is free.
NextFree(fd) == Free(fd) /\ \A other \in Fds : Free(other) => fd <= other

Is(fd, kind) == fd # NoFd /\ sock[fd] = kind

\* socket, bind, listen and accept: the number is, or becomes, of that kind.
Becomes(fd, kind) == sock' = [sock EXCEPT ![fd] = kind]

close(fd) == sock' = IF fd = NoFd THEN sock ELSE [sock EXCEPT ![fd] = "free"]

=============================================================================
