--------------------------- MODULE MCModbusServer ---------------------------
(***************************************************************************)
(* ModbusServer with requests, images and PUTs that meet each other.       *)
(***************************************************************************)
EXTENDS ModbusServer

Ask(unit, first, values, reads) ==
  [unit |-> unit, fits |-> TRUE, first |-> first, values |-> values,
   table |-> "holding", reads |-> reads]

\* ENABLE and RUN, a duty, APPLY.
Drive == <<3, 900, 1>>

MCRequests ==
  {Ask(2, 0, Drive, <<0, 1>>),               \* FC23 of an image
   [Ask(1, 0, << >>, <<14>>) EXCEPT !.table = "input"],
   Ask(1, OutputMap(3), <<8, 8>>, << >>),    \* two slots that SAVE
   Ask(2, 3, <<1, 1>>, << >>),               \* and their use
   Ask(1, OutputMap(0), <<47>>, << >>),      \* a table as a target
   Ask(0, DUTY, <<900>>, << >>),             \* a broadcast
   Ask(3, 0, << >>, <<0>>),                  \* no such unit
   [Ask(1, 0, << >>, <<0>>) EXCEPT !.fits = FALSE]}
MCImages == {<<3, 900, 1, 0, 0>>}
MCPuts == {Ask(1, MODE, <<0>>, << >>)}
=============================================================================
