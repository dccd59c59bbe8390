------------------------------- MODULE MCExposure -------------------------------
(***************************************************************************)
(* Instances of Exposure: a few requests, chosen so that gains, losses,    *)
(* neutral and malformed transactions, shared pairs and currencies, equal  *)
(* ids, missing rates and expiring authorizations all occur.               *)
(***************************************************************************)
EXTENDS Exposure

NoCurrency == ""

\* Authorized for 1 at rate 11, three days before the clock starts, in BRL for USD.
Plain == [id |-> 1, authorizedAt |-> -3, authorizationTimestamp |-> None, expiresAt |-> None,
          authorizedAmount |-> 1, captureAmount |-> 0, presentment |-> "BRL", settlement |-> "USD",
          authorizationRate |-> 11, paymentClosed |-> FALSE, transactionClosed |-> FALSE]

Large == [Plain EXCEPT !.id = 2, !.authorizedAmount = 3, !.captureAmount = 2]
Peso == [Plain EXCEPT !.id = 3, !.presentment = "MXN", !.authorizationRate = 12]
NoRate == [Plain EXCEPT !.id = 2, !.authorizationRate = 0, !.settlement = "EUR"]
Expiring == [Plain EXCEPT !.id = 2, !.expiresAt = 1, !.authorizationRate = 6]
Expired == [Plain EXCEPT !.authorizationTimestamp = -9, !.authorizedAt = None]
Closed == [Plain EXCEPT !.paymentClosed = TRUE, !.expiresAt = 3]
Ended == [Plain EXCEPT !.transactionClosed = TRUE, !.expiresAt = 2]

Malformed == {[Plain EXCEPT !.id = 0], [Plain EXCEPT !.authorizedAt = None],
              [Plain EXCEPT !.authorizedAmount = 0], [Plain EXCEPT !.captureAmount = -1],
              [Plain EXCEPT !.captureAmount = 2], [Plain EXCEPT !.presentment = ""],
              [Plain EXCEPT !.settlement = "ARS"]}

Body(ts, percent) == [transactions |-> ts, useTestData |-> FALSE, threshold |-> percent]

MCRequests ==
    {Body(<<>>, None), [Body(<<>>, None) EXCEPT !.useTestData = TRUE],
     Body(<<Plain, Plain, Plain, Plain>>, None), Body(<<Plain>>, -1),
     Body(<<Plain, Large>>, 8), Body(<<Plain, Peso>>, 0), Body(<<Plain, Plain>>, 50),
     Body(<<Peso, NoRate>>, 9), Body(<<Plain, Expiring>>, 60), Body(<<Large, Expiring>>, 8), Body(<<Expired, Closed>>, 50),
     Body(<<Ended>>, 0)}
    \cup {Body(<<Plain, t>>, None) : t \in Malformed}

MCTestData == <<Plain, Large, Peso>>
=============================================================================
