----------------------------- MODULE MCConsumer -----------------------------
(***************************************************************************)
(* The consumers that are model checked.                                   *)
(***************************************************************************)
EXTENDS EjfatConsumer

Classes == {"EjfatConsumer", "serverConsumer"}

\* Two sources that fill the queue, without a control plane.
Queueing(class) ==
    [class |-> class, direct |-> TRUE, jointStats |-> FALSE, ids |-> <<1, 2>>,
     ticks |-> {1}, sizes |-> {1}, maxEvents |-> <<4, 4>>, maxPrints |-> 0,
     canFail |-> FALSE, bad |-> {}]

\* One source with ticks in any order, and everything that may go wrong.
Failing(class) ==
    [class |-> class, direct |-> FALSE, jointStats |-> FALSE, ids |-> <<1>>,
     ticks |-> {1, 2, 9}, sizes |-> {3}, maxEvents |-> <<3>>, maxPrints |-> 0,
     canFail |-> TRUE, bad |-> {"uri", "grpc", "socket"}]

\* One source that is printed often, and may restart or end in the middle of
\* an event.
Printing1(class) ==
    [class |-> class, direct |-> TRUE, jointStats |-> FALSE, ids |-> <<1>>,
     ticks |-> {2, 9}, sizes |-> {1}, maxEvents |-> <<3>>, maxPrints |-> 3,
     canFail |-> TRUE, bad |-> {}]

\* Two sources that are printed together.
Printing2(class) ==
    [class |-> class, direct |-> TRUE, jointStats |-> TRUE, ids |-> <<1, 2>>,
     ticks |-> {1}, sizes |-> {1}, maxEvents |-> <<2, 1>>, maxPrints |-> 2,
     canFail |-> FALSE, bad |-> {}]

\* One source that goes round the vector and on, with two numbers, while events
\* are taken, held and dumped.
Wrapping ==
    [class |-> "serverConsumer", direct |-> TRUE, jointStats |-> FALSE, ids |-> <<1>>,
     ticks |-> {1, 2}, sizes |-> {1}, maxEvents |-> <<6>>, maxPrints |-> 0,
     canFail |-> FALSE, bad |-> {}]

AllSetups ==
    {Queueing(c) : c \in Classes} \cup {Failing(c) : c \in Classes}
    \cup {Printing1(c) : c \in Classes} \cup {Printing2(c) : c \in Classes}
    \cup {Wrapping}
=============================================================================
