-------------------------------- MODULE Chat --------------------------------
(***************************************************************************)
(* npc_ai_chat: the system call, ai_chat and the HTTP client below it, with *)
(* the pages and the TCP control block they hold, and the blocks that calls *)
(* leave behind, call after call.  The kernel does not yield inside the     *)
(* call (sched_sleep polls the network), so nothing else runs meanwhile: a  *)
(* call that returns is one step, and one that comes to poll for ever keeps *)
(* the kernel.  Every allocation and every socket call may fail.  Each      *)
(* stage maps a state of the call to the set of states it may lead to; the  *)
(* stages after one that polls leave the call as it is.                     *)
(*                                                                         *)
(* Texts are not modelled: a URL built by ai_chat always parses, and a      *)
(* server may answer anything.                                              *)
(***************************************************************************)
EXTENDS Integers, FiniteSets

CONSTANT TCP_PCB_SIZE    \* number of control blocks

ASSUME ChatAssumption == TCP_PCB_SIZE \in Nat

VARIABLE chat     \* what the calls hold, and what those before have left

\* held: pages; sock: the call's own block ("polls": the call sleeps on it for ever);
\* kept, closing: blocks that calls have given up and that are not free, because tcp_close
\* refused them or because their FIN is on its way.
NoChat == [held |-> {}, sock |-> "none", kept |-> 0, closing |-> 0, ret |-> -1]

Buffers == {"url", "body", "auth"}
HttpBuffers == {"sendbuf", "recvbuf"}

\* memory_alloc of each page of want: any of them may fail.
memory_alloc(c, want) == {[c EXCEPT !.held = @ \cup got] : got \in SUBSET want}
memory_free(c, pages) == IF c.sock = "polls" THEN c ELSE [c EXCEPT !.held = @ \ pages]

----------------------------------------------------------------------------
(* The socket (tcp.c, as Tcp models it) *)

\* tcp_pcb_alloc finds a free block, or there is none.
tcp_open(c) == IF c.kept + c.closing < TCP_PCB_SIZE THEN [c EXCEPT !.sock = "CLOSED"] ELSE c

\* The network runs while tcp_connect sleeps, and at no other time unless a call sleeps:
\* of the blocks whose FIN was sent some become free, some end in a state nothing leaves.
Polled(c) == UNION {{[c EXCEPT !.closing = @ - n, !.kept = @ + k] : k \in 0 .. n} : n \in 0 .. c.closing}

\* A caller that sleeps for something that never comes: the time limit of sched_sleep only
\* makes it look at its block and sleep again.
Silence(c) == {[c EXCEPT !.sock = "polls"]}

\* Without a route or a port the block stays as it is.  Otherwise tcp_connect sleeps, until
\* the connection is there or has failed and the block is released, or for ever if the SYN
\* was lost and there was no memory to queue it for retransmission.
tcp_connect(c) ==
    {c} \cup Silence(c) \cup {[d EXCEPT !.sock = s] : d \in Polled(c), s \in {"none", "ESTABLISHED"}}

\* tcp_close frees nothing here: an open connection gets its FIN, and a block in CLOSED,
\* by the deadline or never connected, is an "unknown state" and stays taken.
tcp_close(c) ==
    CASE c.sock \in {"none", "polls"} -> c
      [] c.sock = "CLOSED" -> [c EXCEPT !.sock = "none", !.kept = @ + 1]
      [] c.sock = "ESTABLISHED" -> [c EXCEPT !.sock = "none", !.closing = @ + 1]

----------------------------------------------------------------------------
(* http_execute *)

\* The cleanup label: whatever was allocated is freed.
http_cleanup_one(c) == memory_free(c, {"sendbuf"})      \* mutant: recvbuf is kept
http_cleanup(c) == memory_free(c, HttpBuffers)

\* http_parse_response, ret 0, with a page for the body or without; or it fails.
http_parse_response(c) == {c} \cup {[d EXCEPT !.ret = 0] : d \in memory_alloc(c, {"resp"})}

\* tcp_send fails, with the block released or closed by the deadline or as it was; or
\* tcp_receive is repeated until the page is full, the peer has finished or the deadline
\* has closed the block, with something to parse or nothing.  Neither has a time limit: a
\* window that stays closed or a server that stays silent keeps them polling.  (What the
\* network does to other blocks meanwhile is in Polled.)
http_exchange(c) ==
    LET Closed(s) == tcp_close([c EXCEPT !.sock = s])
    IN  Silence(c) \cup {Closed("none")}
        \cup UNION {http_parse_response(Closed(s)) : s \in {"CLOSED", "ESTABLISHED"}}

\* tcp_connect has failed.
Refused_leaves(c) == c          \* mutant: the socket is not closed
Refused(c) == tcp_close(c)

\* Both buffers and a connection, otherwise nothing more is done.
http_execute(c) ==
    LET Opened == {IF HttpBuffers \subseteq d.held THEN tcp_open(d) ELSE d : d \in memory_alloc(c, HttpBuffers)}
        Tried == UNION {IF d.sock = "none" THEN {d} ELSE tcp_connect(d) : d \in Opened}
        Done == UNION {IF d.sock = "ESTABLISHED" THEN http_exchange(d) ELSE {Refused(d)} : d \in Tried}
    IN  {http_cleanup(d) : d \in Done}

http_response_free(c) == memory_free(c, {"resp"})

----------------------------------------------------------------------------
(* ai_chat *)

\* The page for the content; freed again when extract_content finds none.
Extracted(c) == memory_alloc(c, {"content"})

\* After the request: an error, a status other than 200, no body, or a content.
ai_chat_response(c) ==
    IF c.ret < 0 THEN {c}
    ELSE {http_response_free(d) : d \in IF "resp" \in c.held THEN Extracted(c) ELSE {c}}

\* Three pages, the request, and the cleanup label.
ai_chat(c) ==
    {memory_free(d, Buffers) : d \in
        UNION {IF Buffers \subseteq a.held THEN UNION {ai_chat_response(h) : h \in http_execute(a)} ELSE {a}
               : a \in memory_alloc(c, Buffers)}}

ai_chat_response_free(c) == memory_free(c, {"content"})

\* ai_chat_response_free unless ai_chat failed, which leaves no content.
Returned(c) == [(IF c.ret < 0 THEN c ELSE ai_chat_response_free(c)) EXCEPT !.ret = -1]

\* A call that returns, with an answer or without, and one that does not.
sys_npc_ai_chat ==
    /\ chat.sock = "none"
    /\ \E c \in ai_chat(chat) : c.sock # "polls" /\ chat' = Returned(c)
sys_npc_ai_chat_waits ==
    /\ chat.sock = "none"
    /\ \E c \in ai_chat(chat) : c.sock = "polls" /\ chat' = c

----------------------------------------------------------------------------
(* All the calls of all processes, one after the other *)

ChatInit == chat = NoChat
ChatNext == sys_npc_ai_chat \/ sys_npc_ai_chat_waits
ChatSpec == ChatInit /\ [][ChatNext]_chat

----------------------------------------------------------------------------
(* Correctness *)

\* ChatAccounted: when npc_ai_chat has returned, on whichever of its paths, the kernel has
\* back every page, and the call has given its control block up: the block is free or among
\* those that tcp_close could not free, and these are never more than there are.  A call
\* that does not return holds all its buffers and a connection.
ChatAccounted ==
    /\ \/ chat.sock = "none" /\ chat.held = {}
       \/ chat.sock = "polls" /\ chat.held = Buffers \cup HttpBuffers
    /\ chat.kept \in Nat /\ chat.closing \in Nat
    /\ chat.kept + chat.closing + (IF chat.sock = "none" THEN 0 ELSE 1) <= TCP_PCB_SIZE
=============================================================================
