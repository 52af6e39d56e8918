----------------------------- MODULE Signalling -----------------------------
(***************************************************************************)
(* The messages of an outbound call: what OutboundCall sends and hears, as *)
(* Messages builds it, between this end and a callee that runs the same    *)
(* code, with proxies between them that record themselves in the INVITE.   *)
(***************************************************************************)
EXTENDS OutboundCall, Messages, SequencesExt

CONSTANT Proxy  \* the proxies there may be on the way

Paths == {path \in SeqOf(Proxy, 2) : IsInjective(path)}

\* The two ends' addresses, as they publish them.
Here(t)  == ContactUri("caller", t)
There(t) == ContactUri("callee", t)

\* Attempt a's INVITE: the second answers the challenge to the first, on the
\* branch of its own.
First(t) == BuildInvite(There(t), Here(t), 1, 1)
Invites(a, t) ==
    IF a = 1 THEN {First(t)}
    ELSE UNION {BuildRetry(First(t), code, {"WWW-Authenticate", "Proxy-Authenticate"}, 2) :
                   code \in {401, 407}}

\* Each proxy puts itself before those that have.
Arrived(invite, path) == [invite EXCEPT !.recorded = Reverse(path)]

Answer(invite, path, t) == BuildResponse(Arrived(invite, path), "callee", There(t))

\* The way of a request: along its routes, to its Request-URI.
Way(request) == Append(request.routes, request.uri.host)

\* It comes to `contact` along `path`, naming its own transport, and is found
\* in the dialog d there.
Meets(request, path, contact, d, t) ==
    /\ Way(request) = Append(path, contact.host)
    /\ TransportOf(request.uri) = t /\ request.via.transport = t
    /\ FromRequest(request) = Id(d)

\* What the dial has sent reaches what it was meant for, whatever proxies are
\* on the way: a CANCEL and the ACK of a refusal the transaction of their
\* INVITE and of no other; the ACK of a 2xx none, but the callee's dialog, with
\* its INVITE's number.  After it each end's BYE comes to the other along the
\* recorded way (dialog.rs: an ACK or re-INVITE "addressed straight to the
\* Contact instead of through the stored route set" broke calls behind a proxy;
\* response.rs: a response without them "strands the peer's BYE").
SignalsMeet ==
    \A t \in Transport, path \in Paths, a \in Attempt :
    \A invite \in Invites(a, t) :
        LET Mine(key) == \A b \in Attempt : \A other \in Invites(b, t) :
                            Key(other) = key <=> a = b
            answer == Answer(invite, path, t)
            callee == CHOOSE d \in Uas(Arrived(invite, path), "callee", There(t)) : TRUE
            bye == NewRequest(callee, "BYE", 5)
        IN  /\ cancels[a] > 0 => Mine(InviteTarget(Key(BuildCancel(invite))))
            /\ wire[a] \cap Failure # {} => Mine(Key(BuildNon2xxAck(invite, answer)))
            /\ ack = a =>
                 \E caller \in Uac(invite, answer, Here(t)) :
                    LET confirm == Ack2xx(caller, a, 3)
                        hangup  == NewRequest(caller, "BYE", 4)
                    IN  /\ Meets(confirm, path, There(t), callee, t)
                        /\ confirm.cseq = invite.cseq
                        /\ \A b \in Attempt : \A other \in Invites(b, t) :
                              Key(other) # Key(confirm)
                        /\ Meets(hangup, path, There(t), callee, t)
                        /\ hangup.cseq > invite.cseq
                        /\ Meets(bye, Reverse(path), Here(t), caller, t)

=============================================================================
