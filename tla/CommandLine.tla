---------------------------- MODULE CommandLine ----------------------------
(***************************************************************************)
(* parseArgs of the programs: getopt hands over one option after the other *)
(* and each is checked and stored as it comes; checks over several options *)
(* are made partly on the way and partly at the end.  A program is a table *)
(* of its options and those checks.  A text is its length, a list the      *)
(* number of its entries; argument junk does not parse as a number.        *)
(***************************************************************************)
EXTENDS Integers, Sequences, SequencesExt, FiniteSets, Functions, TLC

CONSTANTS
    Names,       \* programs to check
    MaxOptions   \* bound: options given besides the ones a program needs

ASSUME OptionsAssumption == MaxOptions \in Nat

IntMax == 2147483647

\* Arguments worth trying: the limits and one step beyond.
Edges(lo, hi) == {lo - 1, lo} \cup (IF hi = IntMax THEN {} ELSE {hi, hi + 1})

\* An option takes the values lo to hi and those of also.
Option(o, kind, lo, hi, also, try) ==
    [opt |-> o, kind |-> kind, lo |-> lo, hi |-> hi, also |-> also, try |-> try]
Within(e, v) == (e.lo <= v /\ v <= e.hi) \/ v \in e.also

Flag(o)           == Option(o, "flag", 1, 1, {}, {1})
Number(o, lo, hi) == Option(o, "number", lo, hi, {}, Edges(lo, hi))
\* Stored in a uint16_t.
Number16(o, hi)   == Option(o, "uint16", 0, hi, {}, Edges(0, hi))
Port(o, hi)       == Number(o, 1024, hi)
Text(o, lo, hi)   == Option(o, "text", lo, hi, {}, {n \in Edges(lo, hi) : n >= 0})
\* A text for which a flag remembers that it was given.
Marked(o)         == Option(o, "marked", 0, 255, {}, {0, 1, 255, 256})
Address(o)        == Text(o, 7, 15)
Real(o, lo)       == Option(o, "real", lo, IntMax, {}, {-1, 0, 1})
AnyReal(o)        == Real(o, -IntMax)
Ints(o)           == Option(o, "list", 1, IntMax, {}, {0, 1, 2})
\* strtol into an int array: a last entry that does not parse reads as 0.
LaxInts(o)        == Option(o, "laxInts", 1, 10, {}, {0, 1, 2})
\* Addresses that do not parse are left out of the list.
Hosts(o)          == Option(o, "hosts", 1, IntMax, {}, {0, 1, 2})
Mtu(o)            == Option(o, "number", 1200, 9000, {0}, {0, 1} \cup Edges(1200, 9000))
Small(o)          == Option(o, "number", 1, IntMax, {}, {-1, 0, 1, 2, 3})

Help == {Flag("v"), Flag("h")}

\* Checks of a program: which option is refused once another was given, which
\* exclude each other, which of a set must be there, and whether a rate
\* removes the delays and a sampling time must divide the reporting time.
Checks == [refuses |-> {}, exclusive |-> {}, needs |-> {}, rates |-> {},
           delays |-> {}, sampled |-> FALSE]

DirectOrUri == {<<"direct", "uri">>, <<"direct", "file">>}

-----------------------------------------------------------------------------
PacketBlasterLetters ==
    Help \cup {Number("t", 0, IntMax), Number("b", 500, IntMax),
               Number("s", 100000, IntMax), Number("e", 0, IntMax),
               Number("d", 1, IntMax)}
PacketBlasterNumbers ==
    {Mtu("mtu"), Number("ver", 0, 31), Number("id", 0, 65535),
     Number("pro", 0, IntMax), Text("direct", 0, 255), Number("dpre", 1, IntMax),
     Number("tpre", 1, IntMax), Ints("cores")}
PacketBlasterRates ==
    {AnyReal("bufrate"), Small("byterate"), Number("sock", 1, 16),
     Flag("nc"), Text("uri", 0, 255), Text("file", 0, 255)}
PacketBlaster ==
    [options |-> PacketBlasterLetters \cup PacketBlasterNumbers \cup PacketBlasterRates,
     checks |-> [Checks EXCEPT
        !.refuses = {<<"bufrate", "byterate">>, <<"byterate", "bufrate">>},
        !.rates = {"bufrate", "byterate"}, !.delays = {"d", "dpre"},
        !.exclusive = DirectOrUri]]

ClasBlasterLetters ==
    Help \cup {Number("t", 0, IntMax), Text("f", 1, IntMax), Number("r", 0, IntMax),
               Number("s", 100000, IntMax), Number("e", 0, IntMax),
               Number("d", 1, IntMax)}
ClasBlasterWords ==
    {Mtu("mtu"), Number("ver", 0, 31), Number("id", 0, 65535),
     Number("pro", 0, IntMax), Number("sock", 1, 16), Number("dpre", 1, IntMax),
     Number("tpre", 1, IntMax), Ints("cores")}
ClasBlasterTexts ==
    {Small("bufrate"), Flag("nc"), Text("uri", 0, 255),
     Text("file", 0, 255), Text("direct", 0, 255)}
ClasBlaster ==
    [options |-> ClasBlasterLetters \cup ClasBlasterWords \cup ClasBlasterTexts,
     checks |-> [Checks EXCEPT !.rates = {"bufrate"}, !.delays = {"d", "dpre"},
                               !.exclusive = DirectOrUri, !.needs = {{"f"}}]]

ClasBlasterNTPLetters == ClasBlasterLetters
ClasBlasterNTPWords == ClasBlasterWords
ClasBlasterNTPTexts == ClasBlasterTexts
ClasBlasterNTP ==
    [options |-> ClasBlasterNTPLetters \cup ClasBlasterNTPWords
                     \cup ClasBlasterNTPTexts,
     checks |-> ClasBlaster.checks]

PacketBlasterOldLetters ==
    PacketBlasterLetters \cup {Port("p", 65534), Address("i")}
PacketBlasterOldNumbers ==
    {Mtu("mtu"), Text("host", 0, 255), Number("ver", 0, 31), Number("id", 0, 65535),
     Number("pro", 0, IntMax), Flag("sync"), Number("dpre", 1, IntMax),
     Number("tpre", 1, IntMax), Flag("ipv6"), Flag("bufdelay")}
PacketBlasterOldRates ==
    {AnyReal("bufrate"), Small("byterate"), Number("sock", 1, 16),
     Flag("direct"), Flag("nc"), Port("cp_port", 65534), Text("cp_addr", 0, 255),
     LaxInts("cores")}
PacketBlasterOld ==
    [options |-> PacketBlasterOldLetters \cup PacketBlasterOldNumbers
                     \cup PacketBlasterOldRates,
     checks |-> [PacketBlaster.checks EXCEPT !.exclusive = {},
                                             !.delays = @ \cup {"bufdelay"}]]

PacketBlasterSmallOptions ==
    Help \cup {Number("t", 0, IntMax), Port("p", 65534), Number("s", 100000, IntMax),
               Number("e", 0, IntMax), Address("i"), Number("mtu", 100, IntMax),
               Text("host", 0, 255), Number("ver", 0, 31), Number("id", 0, 65535),
               Number("pro", 0, IntMax), Flag("ipv6")}
PacketBlasterSmallCores == {LaxInts("cores")}
PacketBlasterSmall ==
    [options |-> PacketBlasterSmallOptions \cup PacketBlasterSmallCores,
     checks |-> Checks]

UdpSendOrder ==
    [options |-> (Help \cup {Number("t", 0, IntMax), Port("p", 65534),
                  Number("d", 1, IntMax), Number("e", 0, IntMax),
                  Number("c", 1, IntMax), Address("i"), Number("mtu", 100, IntMax),
                  Text("host", 0, 255), Number("ver", 0, 31),
                  Number("id", 0, 65535), Number("pro", 0, IntMax)}),
     checks |-> Checks]

\* A buffer size below the minimum is stored as the port; any other is dropped.
UdpRcvOrder ==
    [options |-> Help \cup {Port("p", 65534), Address("a"),
                            Option("b", "toPort", -IntMax, IntMax, {},
                                   {9999, 10000})},
     checks |-> Checks]

ReceiverLetters(portMax) ==
    Help \cup {Port("p", portMax), Number("b", 10000, IntMax),
               Number("r", 220000, IntMax), Address("a")}

PacketAnalyzerLetters == ReceiverLetters(65534)
PacketAnalyzer ==
    [options |-> PacketAnalyzerLetters \cup {Flag("ip6"), LaxInts("cores")},
     checks |-> Checks]

PacketBlasteeLetters == ReceiverLetters(65534) \cup {Text("f", 1, 100)}
PacketBlastee ==
    [options |-> PacketBlasteeLetters
                     \cup {Number("tpre", 1, IntMax), Flag("ip6"), Flag("nobuild"),
                           LaxInts("cores")},
     checks |-> Checks]

EtMTLetters ==
    ReceiverLetters(65534) \cup {Real("s", 0), Real("w", 0), Address("baddr"),
                                 Text("f", 1, 100)}
EtMTWords ==
    {Number("tpre", 1, IntMax), Flag("ip6"), Ints("cores"), Text("uri", 0, 254),
     Text("file", 0, 254), Text("token", 0, 510), AnyReal("minf"), AnyReal("maxf"),
     Text("sfile", 1, 100)}
\* Milliseconds of sampling below 1 become 1.  Times of a few milliseconds, so
\* that 1000 * rtime does not leave 32 bits.
EtMTPid ==
    {Option("stime", "atLeast1", -IntMax, IntMax, {}, {0, 1, 2, 3}), AnyReal("kp"),
     AnyReal("ki"), AnyReal("kd"), Number("count", 1, IntMax),
     Small("rtime"), Real("qmean", 0), Real("qdev", 0)}
PacketBlasteeEtMT ==
    [options |-> EtMTLetters \cup EtMTWords \cup EtMTPid,
     checks |-> [Checks EXCEPT !.needs = {{"f"}, {"a"}}, !.sampled = TRUE]]

EtMTPRTLetters == EtMTLetters
EtMTPRTWords == EtMTWords
EtMTPRTPid == EtMTPid
PacketBlasteeEtMTPRT ==
    [options |-> EtMTPRTLetters \cup EtMTPRTWords \cup EtMTPRTPid,
     checks |-> PacketBlasteeEtMT.checks]

FastDirectLetters == ReceiverLetters(65535)
FastDirectWords ==
    {Number("tpre", 1, IntMax), Flag("ip6"), Number("pinRead", 0, IntMax),
     Number("pinBuf", 0, IntMax), Ints("ids"), Number("pinCnt", 1, IntMax),
     Flag("norestart"), Flag("jointstats")}
PacketBlasteeFastDirect ==
    [options |-> FastDirectLetters \cup FastDirectWords, checks |-> Checks]

FullNewMPLetters == ReceiverLetters(65534) \cup FastDirectWords
FullNewMPWords ==
    {Address("addr"), Text("uri", 0, 254), Text("file", 0, 254),
     Text("token", 0, 510), AnyReal("minf"), AnyReal("maxf"), Flag("dump"),
     Flag("lump")}
PacketBlasteeFullNewMP ==
    [options |-> FullNewMPLetters \cup FullNewMPWords,
     checks |-> [Checks EXCEPT !.needs = {{"addr"}},
                               !.exclusive = {<<"dump", "lump">>}]]

FastMPLetters == ReceiverLetters(65535) \cup FastDirectWords
FastMPWords == FullNewMPWords \cup {Real("qmean", 0), Real("qdev", 0),
    Option("qcnt", "number", 1, 0, {n \in 1 .. 1000 : 1000000 % n = 0},
           {0, 1, 3, 1000, 2000}), Flag("direct")}
PacketBlasteeFastMP ==
    [options |-> FastMPLetters \cup FastMPWords,
     checks |-> [Checks EXCEPT !.needs = {{"addr", "direct"}},
                               !.exclusive = {<<"dump", "lump">>}]]

-----------------------------------------------------------------------------
SimpleSenderOptions ==
    Help \cup {Number("b", 500, IntMax), Number("e", 0, IntMax),
               Number("d", 1, IntMax), Mtu("mtu"), Number16("id", 65536),
               Number("dpre", 1, IntMax), Flag("ipv6"), Ints("cores"), Flag("nc")}
SimpleSenderTexts ==
    {Text("uri", 0, 255), Text("file", 0, 255), Text("direct", 0, 255)}
SimpleSender ==
    [options |-> SimpleSenderOptions \cup SimpleSenderTexts,
     checks |-> [Checks EXCEPT !.exclusive = DirectOrUri]]

\* The tests for a missing -server never hold (strlen() < 0).
SimpleServerSenderOptions ==
    Help \cup {Number("b", 500, IntMax), Number("d", 1, IntMax), Mtu("mtu"),
               Number16("id", 65536), Number("dpre", 1, IntMax), Flag("ipv6"),
               Ints("cores"), Flag("nc")}
SimpleServerSender ==
    [options |-> SimpleServerSenderOptions
                     \cup {Text("server", 0, 255), Port("port", 65535),
                           Text("direct", 0, 255)},
     checks |-> Checks]

SimpleConsumerOptions ==
    Help \cup {Port("p", 65534), Address("a"), Number("core", 0, IntMax),
               Number("coreCnt", 1, IntMax), Ints("ids")}
SimpleConsumer ==
    [options |-> SimpleConsumerOptions
                     \cup {Text("uri", 0, 255), Text("file", 0, 255),
                           Flag("jointstats"), Flag("direct")},
     checks |-> [Checks EXCEPT !.exclusive = DirectOrUri]]

SimpleServerConsumerOptions ==
    Help \cup {Port("p", 65535), Address("a"), Number("core", 0, IntMax),
               Number("coreCnt", 1, IntMax), Ints("ids")}
SimpleServerConsumer ==
    [options |-> SimpleServerConsumerOptions
                     \cup {Text("server", 0, 255), Port("port", 65535),
                           AnyReal("minf"), AnyReal("maxf"), Flag("jointstats"),
                           Flag("direct")},
     checks |-> Checks]

SimpleServer ==
    [options |-> Help \cup {Number("core", 0, IntMax), Number("coreCnt", 1, IntMax),
                            Flag("ipv6"), Flag("nc"), Text("uri", 0, 255),
                            Text("file", 0, 255), Port("dport", 65535),
                            Port("cport", 65535)},
     checks |-> [Checks EXCEPT !.needs = {{"uri", "file"}}]]

CpOptions == Help \cup {Port("port", 65534), Text("host", 0, 59),
                        Text("token", 0, 255)}
NeedsHost == [Checks EXCEPT !.needs = {{"host"}}]

LbReserve ==
    [options |-> CpOptions \cup {Text("name", 0, 255), Text("file", 0, 255),
                    Text("until", 0, 255), Flag("ipv6"), Hosts("senders")},
     checks |-> NeedsHost]
LbFree == [options |-> CpOptions \cup {Text("lbid", 0, 255)}, checks |-> NeedsHost]
LbGetUri ==
    [options |-> CpOptions \cup {Text("lbid", 0, 255), Text("file", 0, 255),
                                 Flag("ipv6")},
     checks |-> NeedsHost]
LbMonitor ==
    [options |-> CpOptions \cup {Number("sec", 1, 60)}, checks |-> NeedsHost]
LbAddSenders ==
    [options |-> CpOptions \cup {Marked("lbid"), Marked("file"), Hosts("senders")},
     checks |-> [NeedsHost EXCEPT
        !.refuses = {<<"lbid", "file">>, <<"file", "lbid">>},
        !.needs = @ \cup {{"lbid", "file"}}]]
LbRemoveSenders == LbAddSenders

Program(name) ==
    CASE name = "packetBlaster"           -> PacketBlaster
      [] name = "clasBlaster"             -> ClasBlaster
      [] name = "clasBlasterNTP"          -> ClasBlasterNTP
      [] name = "packetBlasterOld"        -> PacketBlasterOld
      [] name = "packetBlasterSmall"      -> PacketBlasterSmall
      [] name = "udp_send_order"          -> UdpSendOrder
      [] name = "udp_rcv_order"           -> UdpRcvOrder
      [] name = "packetAnalyzer"          -> PacketAnalyzer
      [] name = "packetBlastee"           -> PacketBlastee
      [] name = "packetBlasteeEtMT"       -> PacketBlasteeEtMT
      [] name = "packetBlasteeEtMTPRT"    -> PacketBlasteeEtMTPRT
      [] name = "packetBlasteeFastDirect" -> PacketBlasteeFastDirect
      [] name = "packetBlasteeFullNewMP"  -> PacketBlasteeFullNewMP
      [] name = "packetBlasteeFastMP"     -> PacketBlasteeFastMP
      [] name = "simpleSender"            -> SimpleSender
      [] name = "simpleServerSender"      -> SimpleServerSender
      [] name = "simpleConsumer"          -> SimpleConsumer
      [] name = "simpleServerConsumer"    -> SimpleServerConsumer
      [] name = "simpleServer"            -> SimpleServer
      [] name = "lbreserve"               -> LbReserve
      [] name = "lbfree"                  -> LbFree
      [] name = "lbgeturi"                -> LbGetUri
      [] name = "lbmonitor"               -> LbMonitor
      [] name = "lbaddsenders"            -> LbAddSenders
      [] name = "lbremovesenders"         -> LbRemoveSenders

-----------------------------------------------------------------------------
VARIABLES
    name,    \* the program started
    given,   \* the options handed over so far
    st       \* settings stored so far, and "parsing", "run" or "exit"

vars == <<name, given, st>>

OptionsOf(n) == Program(n).options
ChecksOf(n)  == Program(n).checks
Entry(n, o)  == CHOOSE e \in OptionsOf(n) : e.opt = o

\* The arguments tried for an option.
Arguments(e) ==
    [opt : {e.opt}, val : e.try,
     junk : IF e.kind \in {"flag", "text", "marked"} THEN {FALSE} ELSE BOOLEAN]

Fresh == [set |-> << >>, status |-> "parsing"]

\* Was option o given, with a text that is not empty or a rate above 0?
Present(n, set, o) ==
    o \in DOMAIN set /\ (Entry(n, o).kind = "marked" \/ set[o] > 0)

\* Mutant of Refused: only the option named first looks for the other.
RefusedOneWay(n, set, a) ==
    \E r \in ChecksOf(n).refuses :
        r[1] = a.opt /\ r[1] \in {"bufrate", "lbid"} /\ Present(n, set, r[2])

Refused(n, set, a) ==
    \E r \in ChecksOf(n).refuses : r[1] = a.opt /\ Present(n, set, r[2])

\* strtol() reads junk as 0.
Parsed(e, a) == IF a.junk /\ e.kind \in {"number", "uint16", "atLeast1", "toPort"}
                THEN 0 ELSE a.val

Rejected(e, a) == \/ ~Within(e, Parsed(e, a))
                  \/ a.junk /\ e.kind \in {"real", "list"}

\* What is stored, and under which name.
Stored(e, a) ==
    LET v == Parsed(e, a)
    IN  CASE e.kind = "uint16"            -> e.opt :> v % 65536
          [] e.kind = "atLeast1"          -> e.opt :> (IF v < 1 THEN 1 ELSE v)
          [] e.kind = "hosts" /\ a.junk   -> e.opt :> v - 1
          [] e.kind = "toPort"            -> IF v < 10000 THEN "p" :> 10000 ELSE << >>
          [] OTHER                        -> e.opt :> v

\* One turn of the getopt loop.
Take(n, s, a) ==
    LET e == Entry(n, a.opt)
    IN  IF s.status # "parsing" THEN s
        ELSE IF Refused(n, s.set, a) \/ Rejected(e, a)
             THEN [s EXCEPT !.status = "exit"]
             ELSE [s EXCEPT !.set = Stored(e, a) @@ @]

\* Mutant of RateGiven: only the byte rate removes the delays.
ByteRateGiven(n, set) == "byterate" \in DOMAIN set

RateGiven(n, set) == \E r \in ChecksOf(n).rates \cap DOMAIN set : set[r] # 0

Setting(set, o, default) == IF o \in DOMAIN set THEN set[o] ELSE default

\* The checks after the loop.
Fails(n, set) ==
    LET c      == ChecksOf(n)
        report == Setting(set, "rtime", 1000)
        sample == Setting(set, "stime", 1)
    IN  \/ "h" \in DOMAIN set
        \/ \E x \in c.exclusive : Present(n, set, x[1]) /\ Present(n, set, x[2])
        \/ \E need \in c.needs : \A o \in need : ~Present(n, set, o)
        \/ c.sampled /\ (report < sample \/ report % sample # 0)

Finished(n, s) ==
    IF s.status # "parsing" THEN s
    ELSE IF Fails(n, s.set) THEN [s EXCEPT !.status = "exit"]
         ELSE [set |-> IF RateGiven(n, s.set)
                       THEN Restrict(s.set, DOMAIN s.set \ ChecksOf(n).delays)
                       ELSE s.set,
               status |-> "run"]

\* What a sequence of options leads to.
Loop(n, s) == FoldLeft(LAMBDA x, a : Take(n, x, a), Fresh, s)

\* A command line with what the program needs, for each need one option.
Needed(n) ==
    LET arg(o) == [opt |-> o, junk |-> FALSE,
                   val |-> CHOOSE v \in Entry(n, o).try : v > 0 /\ Within(Entry(n, o), v)]
    IN  SetToSeq({arg(CHOOSE o \in need : TRUE) : need \in ChecksOf(n).needs})

Init == /\ name \in Names
        /\ given \in {<<>>, Needed(name)}
        /\ st = Loop(name, given)

GiveOption(a) ==
    /\ st.status = "parsing"
    /\ Len(given) < MaxOptions + (IF IsPrefix(Needed(name), given)
                                   THEN Len(Needed(name)) ELSE 0)
    /\ given' = Append(given, a)
    /\ st' = Take(name, st, a)
    /\ UNCHANGED name

EndOfOptions ==
    /\ st.status = "parsing"
    /\ st' = Finished(name, st)
    /\ UNCHANGED <<name, given>>

Next == \/ \E e \in OptionsOf(name) : \E a \in Arguments(e) : GiveOption(a)
        \/ EndOfOptions

Spec == Init /\ [][Next]_vars

-----------------------------------------------------------------------------
NamesOf(s) == {s[i].opt : i \in DOMAIN s}

\* No option twice.  A rate of 0 or less is outside what -bufrate documents
\* (packetBlaster.cc:93) and is stored all the same, and udp_rcv_order stores a
\* small buffer size as the port (udp_rcv_order.cc:95): there the order counts.
Plain == /\ Cardinality(NamesOf(given)) = Len(given)
         /\ \A i \in DOMAIN given : given[i].opt = "bufrate" => given[i].val > 0
         /\ ~(name = "udp_rcv_order" /\ {"p", "b"} \subseteq NamesOf(given))

\* The order of the options does not matter: each program's tests of one option
\* against another, some made when the option comes (packetBlaster.cc:325 and
\* 344, lbaddsenders.cpp:122 and 138) and some after the loop, accept and store
\* the same if the options come in the opposite order.
OrderIrrelevant ==
    st.status # "parsing" /\ Plain =>
        LET other == Loop(name, Reverse(given))
        IN  Finished(name, other).status = st.status
            /\ (st.status = "run" => Finished(name, other).set = st.set)

\* A program that starts to run has settings its main can work with: one way of
\* reaching the receiver ("but not both", packetBlaster.cc:416), no delay beside
\* a rate (packetBlaster.cc:408), samples that fit into the time between
\* reports (packetBlasteeEtMT.cc:905) and a sleep of whole microseconds
\* (packetBlasteeFastMP.cc:510).
SettingsFitMain ==
    st.status = "run" =>
        LET has(o) == o \in DOMAIN st.set /\ st.set[o] # 0
        IN  /\ has("direct") /\ name # "packetBlasteeFastMP"
                   => ~has("uri") /\ ~has("file")
            /\ ~(has("bufrate") /\ st.set["bufrate"] > 0 /\ has("byterate"))
            /\ has("bufrate") \/ has("byterate") => ~has("d") /\ ~has("bufdelay")
            /\ has("stime") => Setting(st.set, "rtime", 1000) % st.set["stime"] = 0
            /\ has("qcnt") => 1000000 % st.set["qcnt"] = 0
            /\ ~(has("dump") /\ has("lump"))
=============================================================================
