---------------------------- MODULE MCJetStream ----------------------------
EXTENDS JetStream, TLC
CONSTANTS m1, m2, w1, w2
Messages == {m1, m2}
Workers == {w1, w2}
Opts(i, e, n) == [msg_id |-> i, expected_last_seq |-> e, expect_no_message |-> n]
SomeOptions ==
  (m1 :> {Opts(FALSE, 0, FALSE), Opts(TRUE, 0, FALSE), Opts(TRUE, 1, FALSE),
          Opts(FALSE, 1, FALSE), Opts(FALSE, 0, TRUE)})
  @@ (m2 :> {Opts(FALSE, 0, FALSE)})
=============================================================================
