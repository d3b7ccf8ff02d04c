------------------------------ MODULE MCLoader ------------------------------
(***************************************************************************)
(* A small machine for Loader: pages of two bytes, and images with one and *)
(* two segments whose file part and memory part end inside a page and at   *)
(* the end of one.                                                         *)
(***************************************************************************)
EXTENDS Loader, TLC

Segment(page, from, file, memory) == <<page * PAGE, from, file, memory>>

MCImage == {
  <<Segment(0, 0, 3, 3)>>,
  <<Segment(0, 0, 1, 3)>>,
  <<Segment(0, 0, 2, 4)>>,
  <<Segment(0, 0, 2, 2), Segment(1, 2, 0, 1)>>,
  <<Segment(0, 0, 1, 2), Segment(1, 2, 1, 1)>> }

MCKernelImage == <<Segment(0, 0, 2, 3)>>

MCDefault == [kernel_stack_size |-> 2, kernel_stack_auto_grow |-> 0, load_apps |-> FALSE]

Line(key, r10, r16) == [key |-> key, r10 |-> r10, r16 |-> r16]

MCConfigFile == {
  <<>>,
  <<Line("load_apps", 1, 0), Line("kernel_stack_auto_grow", 1, 0)>>,
  <<Line("load_apps", 1, 0), Line("log_level", 0, 0), Line("kernel_stack_size", 0, 3)>> }

File(size) == [is_directory |-> FALSE, size |-> size]
Directory == [is_directory |-> TRUE, size |-> 0]

MCAppDir == {<<Directory, File(1), File(2)>>, <<File(2), File(1), File(1)>>, <<File(40)>>, <<>>}

Symmetry == Permutations(Proc)
=============================================================================
