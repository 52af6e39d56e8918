------------------------------ MODULE Messages ------------------------------
(***************************************************************************)
(* The requests and responses of a call, and the dialogs made from them:   *)
(* stack/call.rs, response.rs, dialog.rs and auth.rs, with the keys and    *)
(* headers of transaction/mod.rs.                                          *)
(*                                                                         *)
(* Of a message is kept what decides where it goes and what it is taken    *)
(* for: method, Request-URI, top Via, tags, CSeq, Contact, Record-Route,   *)
(* Route and credentials.  A tag is the end that chose it, a branch is a   *)
(* number.  The Call-ID is one for the call and left out.                  *)
(***************************************************************************)
EXTENDS Naturals, Sequences, SequencesExt

Transport == {"udp", "tcp", "tls"}

\* A URI that names no transport means UDP.
ContactUri(host, transport) ==
    [host |-> host, transport |-> IF transport = "udp" THEN "none" ELSE transport]

TransportOf(uri) == IF uri.transport = "none" THEN "udp" ELSE uri.transport

\* The Via of a request reads its transport from the sender's own Contact.
Via(contact, branch) ==
    [transport |-> TransportOf(contact), host |-> contact.host, branch |-> branch]

Nowhere == [host |-> "none", transport |-> "none"]

Plain(method, uri, contact, branch, seq) ==
    [method |-> method, uri |-> uri, via |-> Via(contact, branch),
     from |-> contact.host, to |-> "none", cseq |-> seq, contact |-> contact,
     recorded |-> <<>>, routes |-> <<>>, credentials |-> "none"]

BuildInvite(target, contact, branch, seq) ==
    Plain("INVITE", target, contact, branch, seq)

\* CANCEL goes the INVITE's way, hop by hop.
BuildCancel(invite) ==
    [Plain("CANCEL", invite.uri, invite.contact, invite.via.branch, invite.cseq)
        EXCEPT !.contact = Nowhere, !.via = invite.via]

-----------------------------------------------------------------------------
(* A challenge answered. *)

\* The header that carries the credentials, or "none" if a response of this
\* code has no challenge of its kind among those it carries.
Answering(code, challenges) ==
    CASE code = 401 /\ "WWW-Authenticate" \in challenges -> "Authorization"
      [] code = 407 /\ "Proxy-Authenticate" \in challenges -> "Proxy-Authorization"
      [] OTHER -> "none"

\* A new transaction, and the next number.
Retried(request, branch) ==
    [request EXCEPT !.via.branch = branch, !.cseq = @ + 1]

\* The request again with credentials: none or one.
BuildRetry(request, code, challenges, branch) ==
    {[Retried(request, branch) EXCEPT !.credentials = h] :
        h \in {Answering(code, challenges)} \ {"none"}}

-----------------------------------------------------------------------------
(* Transactions. *)

Normalized(method) == IF method = "ACK" THEN "INVITE" ELSE method

Key(message) == [branch |-> message.via.branch, host |-> message.via.host,
                 method |-> Normalized(message.method)]

InviteTarget(key) == [key EXCEPT !.method = "INVITE"]

\* The ACK of a refusal belongs to the INVITE's transaction.
BuildNon2xxAck(invite, response) ==
    [invite EXCEPT !.method = "ACK", !.to = response.to, !.contact = Nowhere,
                   !.recorded = <<>>, !.credentials = "none"]

-----------------------------------------------------------------------------
(* Responses and dialogs. *)

Echoed(request) == request.recorded

\* A response has the request's Via, From, CSeq and Record-Route, and a To tag.
BuildResponse(request, tag, contact) ==
    [method |-> request.method, via |-> request.via, from |-> request.from,
     to |-> IF request.to = "none" THEN tag ELSE request.to,
     cseq |-> request.cseq, contact |-> contact, recorded |-> Echoed(request)]

\* Fault: the caller takes the proxies in the order in which it reads them.
Oriented_AsRead(recorded) == recorded

\* The caller goes back the way the INVITE came.
Oriented(recorded) == Reverse(recorded)

\* The caller's dialog: none if the response lacks a tag or a Contact.
Uac(invite, response, contact) ==
    IF response.to = "none" \/ response.contact = Nowhere THEN {}
    ELSE {[local |-> invite.from, remote |-> response.to, contact |-> contact,
           target |-> response.contact, routes |-> Oriented(response.recorded),
           seq |-> invite.cseq]}

\* The callee's dialog, with the tag of its answer.
Uas(invite, tag, contact) ==
    IF invite.contact = Nowhere THEN {}
    ELSE {[local |-> tag, remote |-> invite.from, contact |-> contact,
           target |-> invite.contact, routes |-> invite.recorded, seq |-> 0]}

Id(dialog) == [local |-> dialog.local, remote |-> dialog.remote]

\* The dialog an inbound request is of: its To tag is ours.
FromRequest(request) == [local |-> request.to, remote |-> request.from]

Compose(dialog, method, seq, branch) ==
    [Plain(method, dialog.target, dialog.contact, branch, seq) EXCEPT
        !.from = dialog.local, !.to = dialog.remote, !.routes = dialog.routes]

NewRequest(dialog, method, branch) ==
    Compose(dialog, method, dialog.seq + 1, branch)

\* The ACK of a 2xx has its INVITE's number, and a branch of its own.
Ack2xx(dialog, seq, branch) == Compose(dialog, "ACK", seq, branch)

=============================================================================
