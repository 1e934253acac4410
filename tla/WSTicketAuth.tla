---------------------------- MODULE WSTicketAuth ----------------------------
(***************************************************************************)
(* app/websocket/auth_handshake.py and app/api/routes/auth.py: the keys    *)
(* ws_ticket:{ticket}, from the exchange of a bearer token to the upgrade. *)
(***************************************************************************)
EXTENDS Domain, Redis

CONSTANTS Tickets,      \* what secrets.token_urlsafe returns, no value twice
          TicketTtl

ASSUME TicketAssumption == None \notin Tickets /\ TicketTtl \in Nat \ {0}

VARIABLES ticket,       \* [Tickets -> the user_id stored under the key, or None]
          ticketTtl,
          issued        \* the values drawn so far

ticketVars == <<ticket, ticketTtl, issued>>

TicketTypeOK ==
    /\ ticket \in [Tickets -> Users \cup {None}]
    /\ ticketTtl \in [Tickets -> 0 .. TicketTtl]
    /\ issued \in SUBSET Tickets

TicketInit ==
    /\ ticket = [t \in Tickets |-> None]
    /\ ticketTtl = [t \in Tickets |-> 0]
    /\ issued = {}

\* A bearer token: whether jwt.decode accepts it, and its sub claim (a UUID, none
\* at all, or something that is not a UUID).  decode_user_id returns a UUID as the
\* token spells it; the issuer is taken to spell it as str(UUID) does, the form in
\* which create_notification looks users up.
Credentials == [verified : BOOLEAN, sub : Users \cup {None, "not a UUID"}]

decode_user_id_AnySubject(c) == IF c.verified THEN c.sub ELSE None

\* None stands for the three 401 answers.
decode_user_id(c) == IF c.verified /\ c.sub \in Users THEN c.sub ELSE None

issue_ws_ticket(c) ==
    /\ decode_user_id(c) # None
    /\ \E t \in Tickets \ issued :
         /\ ticket' = [ticket EXCEPT ![t] = decode_user_id(c)]
         /\ ticketTtl' = SetEx(ticketTtl, t, TicketTtl)
         /\ issued' = issued \cup {t}

redeem_ticket_Get(t) == UNCHANGED ticketVars

\* GETDEL: the key is gone with the answer.
redeem_ticket(t) ==
    /\ ticket' = [ticket EXCEPT ![t] = None]
    /\ ticketTtl' = Del(ticketTtl, t)
    /\ UNCHANGED issued

TicketTick ==
    /\ ticketTtl' = Decay(ticketTtl)
    /\ ticket' = [t \in Tickets |-> IF ticketTtl'[t] = 0 THEN None ELSE ticket[t]]
    /\ UNCHANGED issued
=============================================================================
