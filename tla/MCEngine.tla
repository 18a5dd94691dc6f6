------------------------------ MODULE MCEngine ------------------------------
(* The configurations of the run: none, sound ones of different sizes, and *)
(* one with each number at the edge of what the engine can do with it.     *)
(* With 4 units to the MB, 16 to the DWORD and 256 to the size, 4 MB are   *)
(* cut to nothing in a DWORD and 64 MB in a size.                          *)
EXTENDS Engine

Sound == [usable_ram |-> 3, log_size |-> 1, profile |-> 2, thread_num |-> 2, max_slabs |-> 2]

MCFiles ==
  {<< >>, Sound,
   [Sound EXCEPT !.log_size = 3, !.usable_ram = 4],
   [Sound EXCEPT !.log_size = 0], [Sound EXCEPT !.log_size = 4],
   [Sound EXCEPT !.thread_num = 0], [Sound EXCEPT !.thread_num = 1],
   [Sound EXCEPT !.max_slabs = 0], [Sound EXCEPT !.max_slabs = 1],
   [Sound EXCEPT !.usable_ram = 0], [Sound EXCEPT !.usable_ram = 64],
   [Sound EXCEPT !.max_slabs = 64], [Sound EXCEPT !.profile = 3]}
=============================================================================
