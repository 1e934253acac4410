------------------------------- MODULE PubSub -------------------------------
(***************************************************************************)
(* Redis Pub/Sub as app/pubsub/publisher.py and app/pubsub/subscriber.py   *)
(* use it: one channel per instance, at-most-once delivery.  A message     *)
(* reaches the subscription that exists when it is published or nobody;    *)
(* what is queued in a subscription dies with it.                          *)
(***************************************************************************)
EXTENDS Domain, Sequences

VARIABLES subscribed,   \* the instances whose subscription is open
          chan          \* [Instances -> Seq(Message)], queued for _listen

pubsubVars == <<subscribed, chan>>

\* The fields of the published JSON that the code reads again.
Message == [user_id : Users, notification : Notifications]

PubSubTypeOK ==
    /\ subscribed \in SUBSET Instances
    /\ chan \in [Instances -> Seq(Message)]

PubSubInit ==
    /\ subscribed = {}
    /\ chan = [i \in Instances |-> << >>]

-----------------------------------------------------------------------------
publish_to_instance_WrongChannel(i, m) == UNCHANGED pubsubVars

publish_to_instance_Latest(i, m) ==
    /\ chan' = IF i \in subscribed THEN [chan EXCEPT ![i] = <<m>>] ELSE chan
    /\ UNCHANGED subscribed

publish_to_instance(i, m) ==
    /\ chan' = IF i \in subscribed THEN [chan EXCEPT ![i] = Append(@, m)] ELSE chan
    /\ UNCHANGED subscribed

\* Subscriber.start
subscribe(i) ==
    /\ subscribed' = subscribed \cup {i}
    /\ chan' = [chan EXCEPT ![i] = << >>]

\* Subscriber.stop, a dead process, or _listen ended by a ConnectionError.
unsubscribe(i) ==
    /\ subscribed' = subscribed \ {i}
    /\ chan' = [chan EXCEPT ![i] = << >>]

next_message_Peek(i) ==
    /\ i \in subscribed
    /\ chan[i] # << >>
    /\ UNCHANGED pubsubVars

\* _listen takes the next message.
next_message(i) ==
    /\ i \in subscribed
    /\ chan[i] # << >>
    /\ chan' = [chan EXCEPT ![i] = Tail(@)]
    /\ UNCHANGED subscribed

\* What the subscribing side does, one call at a time.
PubSubNext ==
    \E i \in Instances : subscribe(i) \/ unsubscribe(i) \/ next_message(i)
=============================================================================
