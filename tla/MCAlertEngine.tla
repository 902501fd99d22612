--------------------------- MODULE MCAlertEngine ---------------------------
(***************************************************************************)
(* AlertEngine for TLC: ten snapshots, chosen so that each field takes     *)
(* the values its comparisons tell apart, fed in every order.              *)
(***************************************************************************)
EXTENDS AlertEngine

Domain(util, freq, temp) == [util |-> util, freq |-> freq, max |-> 30, temp |-> temp]
Idle == Domain(5, 30, 50)

Quiet == [bw |-> 0, bwAvailable |-> TRUE, pkg |-> 0, cpu |-> Idle, gpu |-> Idle,
          thermal |-> "Nominal", swap |-> 0, swapTotal |-> 10, ts |-> 0,
          cpuW |-> 0, net |-> TRUE, rx |-> 0, tx |-> 0]

\* 11 of 13 is 84.6 %, which rounds to 85; 17 of 20 is 85 % of a raised ceiling; a
\* bandwidth that is not available is no measurement, nor is a network rate.
CeilingSnapshots ==
  {[Quiet EXCEPT !.bw = 11, !.pkg = 5, !.ts = 1,
                 !.cpuW = 400, !.rx = 1000, !.tx = 3],
   [Quiet EXCEPT !.bw = 20, !.pkg = 11, !.ts = 2,
                 !.cpuW = 1, !.rx = 2, !.tx = 9],
   [Quiet EXCEPT !.bw = 17, !.pkg = 20, !.ts = 3,
                 !.net = FALSE, !.cpuW = 20, !.rx = 8, !.tx = 5],
   [Quiet EXCEPT !.bw = 40, !.bwAvailable = FALSE, !.pkg = 17, !.ts = 4,
                 !.swap = 4, !.swapTotal = 0]}

\* Busy or not, slow or not, hot by die or by thermal state, ceiling unknown.
ThrottleSnapshots ==
  {[Quiet EXCEPT !.cpu = Domain(80, 26, 50), !.gpu = Domain(95, 26, 90), !.thermal = "Serious"],
   [Quiet EXCEPT !.cpu = Domain(80, 26, 90), !.gpu = Domain(95, 27, 95), !.ts = 1],
   [Quiet EXCEPT !.cpu = Domain(79, 20, 95), !.gpu = Domain(80, 20, 89), !.thermal = "Unknown",
                 !.swap = 2, !.bw = 1, !.rx = 6, !.tx = 6],
   [Quiet EXCEPT !.cpu = Domain(80, 27, 95), !.gpu = [Domain(95, 20, 95) EXCEPT !.max = 0],
                 !.swap = 1, !.ts = 2]}

\* Swap at and below the rise that alerts; a machine without swap is above.
SwapSnapshots ==
  {[Quiet EXCEPT !.swap = 3, !.ts = 1], [Quiet EXCEPT !.swap = 4, !.pkg = 13, !.ts = 4]}

MixedSnapshots == CeilingSnapshots \cup ThrottleSnapshots \cup SwapSnapshots
=============================================================================
