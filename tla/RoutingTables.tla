---------------------------- MODULE RoutingTables ----------------------------
(***************************************************************************)
(* The numbering of routing tables and of tunnel addresses: what           *)
(* db_init_ip_table_registration, db_init_ip_iface_addr_assign and         *)
(* _stage_rt_tables compute from the rows of Iface, the lines of           *)
(* /etc/iproute2/rt_tables and the addresses in the kernel.                *)
(*                                                                         *)
(* A line is [num, name]; comments and lines that are no such pair are     *)
(* passed over by the code.  An address is its host number within the      *)
(* pool; the prefix length makes no difference to what is decided here.    *)
(***************************************************************************)
EXTENDS Naturals, Sequences, SequencesExt

CONSTANT None   \* SQL NULL, an absent key

\* parse_rt_tables: a line counts if neither its name nor its number came
\* before.
Parsed(file) ==
  LET kept[n \in 0 .. Len(file)] ==
        IF n = 0 THEN {}
        ELSE IF \E other \in kept[n - 1] :
                  other.name = file[n].name \/ other.num = file[n].num
        THEN kept[n - 1]
        ELSE kept[n - 1] \cup {file[n]}
  IN kept[Len(file)]

Numbers(file) == {line.num : line \in Parsed(file)}

\* name_to_num of the parsed file.
NumberOf(file, name) ==
  IF \E line \in Parsed(file) : line.name = name
  THEN (CHOOSE line \in Parsed(file) : line.name = name).num
  ELSE None

\* Slip: the numbers in use are not looked at.
FirstOfPool(pool, used) == CHOOSE n \in pool : \A m \in pool : n <= m

\* first_free_id, _first_free_hosts: None where the code raises.
FirstFree(pool, used) ==
  IF pool \subseteq used
  THEN None
  ELSE CHOOSE n \in pool \ used : \A m \in pool \ used : n <= m

DbNumbers(rows) == {rows[i].num : i \in DOMAIN rows} \ {None}
DbAddresses(rows) == {rows[i].addr : i \in DOMAIN rows} \ {None}

\* plan_rt_id_assignments raises on this.
DuplicateTable(rows) ==
  \E i, j \in DOMAIN rows : i # j /\ rows[i].table = rows[j].table

\* plan_rt_id_assignments, row after row: a number that is set stays; a
\* table that the file lists has the file's; else the first free one, which
\* the rows before have not got either.
PlannedNumbers(rows, file, pool) ==
  LET num[n \in DOMAIN rows] ==
        IF rows[n].num # None THEN rows[n].num
        ELSE IF NumberOf(file, rows[n].table) # None THEN NumberOf(file, rows[n].table)
        ELSE FirstFree(pool, Numbers(file) \cup DbNumbers(rows) \cup {num[m] : m \in 1 .. n - 1})
  IN num

\* update_rt_ids
Numbered(rows, file, pool) ==
  LET num == PlannedNumbers(rows, file, pool) IN
    [n \in DOMAIN rows |-> [rows[n] EXCEPT !.num = num[n]]]

\* The addresses in use: the kernel's for the registered interfaces, and
\* the rows' own.
UsedHosts(rows, kernel) ==
  DbAddresses(rows) \cup ({kernel[rows[i].iface] : i \in DOMAIN rows} \ {None})

\* Slip: each row gets the first free one, and so the same.
PlannedAlike(rows, kernel, pool) ==
  [n \in DOMAIN rows |->
     IF kernel[rows[n].iface] # None THEN kernel[rows[n].iface]
     ELSE IF rows[n].addr # None THEN rows[n].addr
     ELSE FirstFree(pool, UsedHosts(rows, kernel))]

\* plan_address_updates, row after row: the kernel's address wins, then the
\* row's own, else the first free one.
PlannedAddresses(rows, kernel, pool) ==
  LET addr[n \in DOMAIN rows] ==
        IF kernel[rows[n].iface] # None THEN kernel[rows[n].iface]
        ELSE IF rows[n].addr # None THEN rows[n].addr
        ELSE FirstFree(pool, UsedHosts(rows, kernel) \cup {addr[m] : m \in 1 .. n - 1})
  IN addr

\* update_iface_addresses
Addressed(rows, kernel, pool) ==
  LET addr == PlannedAddresses(rows, kernel, pool) IN
    [n \in DOMAIN rows |-> [rows[n] EXCEPT !.addr = addr[n]]]

\* Slip: a fresh file from the registry's numbers.
TablesFromRows(file, rows, pool) ==
  [n \in DOMAIN rows |-> [num |-> rows[n].num, name |-> rows[n].table]]

\* A table that the lines do not list gets one, with the registry's number
\* if that is free.
WithTable(lines, row, pool) ==
  IF NumberOf(lines, row.table) # None
  THEN lines
  ELSE Append(lines,
         [name |-> row.table,
          num |-> IF row.num # None /\ row.num \notin Numbers(lines)
                  THEN row.num
                  ELSE FirstFree(pool, Numbers(lines))])

\* _stage_rt_tables: the file's lines, then those of the rows' tables.  The
\* code sorts the lines it adds; their order among themselves matters to
\* nobody.
MergedTables(file, rows, pool) ==
  LET lines[n \in 0 .. Len(rows)] ==
        IF n = 0 THEN file ELSE WithTable(lines[n - 1], rows[n], pool)
  IN lines[Len(rows)]
=============================================================================
