---------------------------- MODULE MCComparison ----------------------------
(* Small instances of Comparison: command lines that exercise each loop.     *)
EXTENDS Comparison

Line ==
  [experiments |-> {"sparse", "dense", "broadcast"}, implementations |-> <<"poll", "epoll">>,
   runs |-> 1,
   sparse_tiers |-> <<2>>, sparse_active |-> <<1, 2, 3>>, sparse_rate |-> 1,
   dense_tiers |-> <<2>>, dense_rates |-> <<1>>,
   broadcast_tiers |-> <<1, 2>>, broadcast_rates |-> <<1>>]

MCArguments ==
  {Line,
   [Line EXCEPT !.experiments = {"dense"}, !.runs = 2, !.dense_rates = <<2, 1>>],
   [Line EXCEPT !.experiments = {"broadcast"}, !.runs = 2, !.implementations = <<"epoll">>,
                !.broadcast_rates = <<3, 1, 2>>],
   [Line EXCEPT !.experiments = {"sparse"}, !.runs = 2, !.implementations = <<"poll">>,
                !.sparse_tiers = <<1, 2>>],
   [Line EXCEPT !.experiments = {"dense"}, !.runs = 3, !.implementations = <<"poll">>,
                !.dense_rates = <<2, 1>>],
   [Line EXCEPT !.experiments = {"dense"}, !.runs = 2, !.implementations = <<"poll">>,
                !.dense_rates = <<1, 2, 1>>],
   [Line EXCEPT !.experiments = {"sparse", "dense"}, !.implementations = <<"poll", "poll">>,
                !.sparse_active = <<1, 1>>, !.dense_tiers = <<2, 2>>]}

=============================================================================
