------------------------------ MODULE PrintTests ------------------------------
(* UnitTest_trcPrint: texts with values, sent as user events on a channel     *)
(* (trcPrint.h, external).                                                    *)
EXTENDS EntryTable

PrintGlobals == EntryGlobals

\* The event of a text has its channel, its values, of which printf-like calls send a 0
\* when there are none, and the text as data.
UserEvent(channel, values) == <<1 + Len(values), channel, values>>

\* The event of a text that is an entry itself.
FixedEvent(channel, values) == <<Len(values), channel, values, "format">>

PrintOutcome(step, s) ==
  LET a == step.args
      channel        == IF a[1] = 0 THEN "default" ELSE "channel"
      sends(event)   == Succeeds(xTraceEventCreate(s, event))
      sendsText(event, text) == Succeeds(xTraceEventCreateData(s, event, text))
  IN CASE step.call = "PrintInitialize" -> Succeeds(s)
       [] step.call = "balance" -> Returns(Balanced(s), s)
       [] step.call = "StringRegister" -> Create("string", LAMBDA slot : slot, s)
       [] step.call \in {"Print", "PrintF", "VPrintF"} -> sendsText(UserEvent(channel, a[2]), a[3])
       [] step.call = "ConsoleChannelPrintF" -> sendsText(UserEvent("console", a[1]), a[2])
       [] step.call \in {"PrintFX", "PrintCompactFX"} -> sends(FixedEvent("channel", a[1]))
       [] step.call = "PrintCompactF" ->
            IF Len(a[1]) > 4 THEN Refuses(s) ELSE sends(FixedEvent("channel", a[1]))
       [] OTHER -> EntryOutcome(step, s)
-----------------------------------------------------------------------------
group_setup_Print    == <<>>
group_teardown_Print == <<>>

\* The critical sections are looked at before anything is called.
setup_Print ==
  <<See("balance", TRUE)>> \o InitializesTables \o <<Ok("PrintInitialize", <<>>)>>

teardown_Print == <<>>

test_xTracePrintInitialize == NullTest("PrintInitialize") \o <<Ok("PrintInitialize", <<>>)>>

RegistersChannel == <<Ok("StringRegister", <<>>)>>

\* A text on the channel that was registered (1) or on the default one (0).
Prints(call, on, values, text) ==
  <<CreatesData(call, <<on, values, text>>,
                UserEvent(IF on = 0 THEN "default" ELSE "channel", values), text)>>

test_xTracePrint ==
  RegistersChannel \o Prints("Print", 1, <<>>, "") \o Prints("Print", 0, <<>>, "test")
    \o Prints("Print", 1, <<>>, "test")

\* Values are sent as they are: negative ones, and channels as strings (0 and 8).
test_xTracePrintF ==
  LET prints(on, values) == Prints("PrintF", on, values, "test")
      signed(n) == prints(1, <<-n>>) \o prints(1, <<n>>)
  IN RegistersChannel \o Prints("PrintF", 1, <<>>, "")
       \o Repeat(3, LAMBDA i : prints(0, <<>>)) \o prints(0, <<12345678>>) \o prints(1, <<>>)
       \o Repeat(7, LAMBDA i : signed(i)) \o prints(1, <<0>>) \o prints(1, <<8>>)
       \o prints(1, <<-1, 8>>) \o prints(1, <<-1, 8>>) \o prints(1, <<1, 8>>) \o prints(1, <<1, 8>>)

test_xTraceConsoleChannelPrintF ==
  LET prints(values, text) ==
        <<CreatesData("ConsoleChannelPrintF", <<values, text>>, UserEvent("console", values), text)>>
  IN prints(<<>>, "") \o prints(<<>>, "test") \o prints(<<1>>, "test")

test_xTraceVPrintF ==
  RegistersChannel \o Prints("VPrintF", 0, <<>>, "test") \o Prints("VPrintF", 1, <<>>, "test")
    \o Prints("VPrintF", 1, <<1>>, "test") \o Prints("VPrintF", 1, <<2>>, "test")

\* Texts with no value up to four of them.
UpToFour(call) ==
  [n \in 1 .. 5 |-> LET values == [i \in 1 .. n - 1 |-> i] IN
                    Creates(call, <<values>>, FixedEvent("channel", values))]

test_xTracePrintFX ==
  RegistersChannel \o <<Ok("StringRegister", <<>>)>> \o UpToFour("PrintFX")

test_xTracePrintCompactF ==
  UpToFour("PrintCompactF") \o <<Fails("PrintCompactF", <<<<1, 2, 3, 4, 5>>>>)>>

test_xTracePrintCompactFX == UpToFour("PrintCompactFX")

runPrintTests ==
  LET unit_test(name, body) == Test(name, setup_Print, body, teardown_Print) IN
  <<unit_test("Initialize", test_xTracePrintInitialize), unit_test("Print", test_xTracePrint),
    unit_test("PrintF", test_xTracePrintF),
    unit_test("ConsoleChannelPrintF", test_xTraceConsoleChannelPrintF),
    unit_test("VPrintF", test_xTraceVPrintF), unit_test("PrintFX", test_xTracePrintFX),
    unit_test("PrintCompactF", test_xTracePrintCompactF),
    unit_test("PrintCompactFX", test_xTracePrintCompactFX)>>
=============================================================================
