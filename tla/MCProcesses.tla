------------------------------ MODULE MCProcesses -----------------------------
(* Two pipelines of up to three conduits in a row, and two traces at one cache, *)
(* which may be there from an earlier one.                                     *)
EXTENDS Processes

Chars == {"x", "n"}
TwoChars == <<"x", "n">>
Commands ==
  {[size |-> 3, input |-> "opens", output |-> "opens", background |-> FALSE],
   [size |-> 2, input |-> "opens", output |-> "fails", background |-> TRUE],
   [size |-> 2, input |-> "fails", output |-> "opens", background |-> FALSE]}

(* Five system calls, one of them with two macros and one with none. *)
NumberDefines ==
  <<[name |-> "write", number |-> 1], [name |-> "execve", number |-> 59],
    [name |-> "exit", number |-> 60], [name |-> "exit_group", number |-> 231],
    [name |-> "utimensat", number |-> 280]>>
ErrorDefines == <<[name |-> "EBADF", number |-> 9]>>
KernelMacros ==
  <<[name |-> "utimensat", types |-> <<"int", "const char __user *">>],
    [name |-> "sys_other", types |-> <<"int">>],
    [name |-> "execve", types |-> <<"const char __user *", "void *">>],
    [name |-> "write", types |-> <<"unsigned int", "const char __user *">>],
    [name |-> "utimensat", types |-> <<"unsigned int", "const char __user *">>],
    [name |-> "exit_group", types |-> <<"int">>]>>
CallNames == <<"execve", "exit", "exit_group", "utimensat", "write">>

(* Programs: one that gets a signal and an error, one that passes no string     *)
(* where there should be one, and one that only exits, without exit_group.      *)
CallOf(n, a, r) == [num |-> n, args |-> a, ret |-> r]
Ask(s, r, c, sg) == [simple |-> s, rebuild |-> r, calls |-> c, signals |-> sg]
Long == Ask(FALSE, FALSE, <<CallOf(59, <<100, 101>>, 0), CallOf(1, <<5, 102>>, -9), CallOf(231, <<3>>, 0)>>, 1)
Unread == Ask(FALSE, TRUE, <<CallOf(280, <<0, 0>>, 0), CallOf(231, <<1>>, 0)>>, 0)
Short == Ask(TRUE, TRUE, <<CallOf(60, <<2>>, 0)>>, 0)
Requests == {NothingAsked, Long, Unread, Short}

PipelinesInit == PipelineInit /\ TraceIdle
TracesInit ==
  /\ TraceInit /\ PipelineIdle
  /\ asked["t1"] # Short /\ asked["t2"] \in {NothingAsked, Short}
  /\ cache # NoFile => asked["t1"] = Long /\ asked["t2"] = Short
MCSpec == (PipelinesInit \/ TracesInit) /\ [][Next]_vars /\ PipelineFair /\ TraceFair
===============================================================================
