------------------------------ MODULE MCTools -------------------------------
(* Tools with the command lines of wattsup that reach each of its phases,  *)
(* and three CPUs whose numbers are not in the order of their packages.    *)
EXTENDS Tools

WuTestCommands ==
  {[WuNoOptions EXCEPT !.count = 2],     \* power.pm uses -c 1
   WuNoOptions,
   [WuNoOptions EXCEPT !.set = {"interval", "mode"}, !.val = TRUE, !.count = 1, !.final = TRUE],
   [WuNoOptions EXCEPT !.set = {"user"}, !.val = TRUE, !.show = {"cal"}, !.count = 1],
   [WuNoOptions EXCEPT !.set = {"interval"}],
   [WuNoOptions EXCEPT !.set = {"user"}],
   [WuNoOptions EXCEPT !.set = {"mode"}, !.val = TRUE, !.setonly = TRUE, !.show = {"header"},
                       !.nodata = TRUE],
   [WuNoOptions EXCEPT !.all = TRUE, !.nodata = TRUE]}

TsTestTopo == (0 :> <<0, 1>>) @@ (1 :> <<1, 0>>) @@ (2 :> <<0, 0>>)
=============================================================================
