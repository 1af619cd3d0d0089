----------------------------- MODULE DuckTables -----------------------------
(***************************************************************************)
(* DuckDBClient::select_from_s3_parquet_file: the first request for a file *)
(* copies it into a table of the in-memory database, later ones select     *)
(* from the table.  Whether the table exists is asked before it is         *)
(* created; two requests may both find that it does not.  The name of the  *)
(* table is made of two hashes, taken to be distinct for distinct files.   *)
(***************************************************************************)
EXTENDS Router

CONSTANTS Files,         \* the bucket and key of parquet files
          NoFile,        \* a missing bucket or key
          MaxVersions,   \* bound: versions of a file
          S3Fails        \* whether reading a file may fail

ASSUME FilesAssumption ==
    NoFile \notin Files /\ MaxVersions \in Nat /\ S3Fails \in BOOLEAN

VARIABLES parquet,   \* file -> its version in S3, 0 if there is none
          written,   \* file -> versions written
          table,     \* file -> the version its table was made from, 0 if none
          file,      \* request -> the file it asks for
          rows,      \* request -> the version its rows are from
          excused    \* history: requests that found no file, could not read it
                     \*   or had a clause DuckDB refused

duckVars == <<parquet, written, table, file, rows, excused>>

DuckInit ==
    /\ parquet = [k \in Files |-> 0]
    /\ written = [k \in Files |-> 0]
    /\ table = [k \in Files |-> 0]
    /\ file = [r \in Requests |-> NoFile]
    /\ rows = [r \in Requests |-> 0]
    /\ excused = {}

\* The file is replaced, or deleted.
Publish(k) ==
    /\ \/ /\ written[k] < MaxVersions
          /\ written' = [written EXCEPT ![k] = @ + 1]
          /\ parquet' = [parquet EXCEPT ![k] = written'[k]]
       \/ /\ parquet[k] # 0
          /\ parquet' = [parquet EXCEPT ![k] = 0]
          /\ UNCHANGED written
    /\ UNCHANGED <<routerVars, table, file, rows, excused>>

TableOf(k) == IF k \in Files THEN table[k] ELSE 0
FileOf(k) == IF k \in Files THEN parquet[k] ELSE 0

\* table_exists; a request may lack its clause only, and name a file.
DuckExists(r) ==
    /\ CallOf(r, "duckdb")
    /\ \E k \in Files \cup {NoFile} :
          /\ file' = [file EXCEPT ![r] = k]
          /\ Goes(r, IF TableOf(k) # 0 THEN "duckSelect" ELSE "create")
    /\ UNCHANGED <<asked, parquet, written, table, rows, excused>>

\* Fault: the table is replaced if it is there already.
FaultyCreates(k) == FileOf(k) # 0

\* CREATE TABLE fails if the table is there or the file is not.
Creates(k) == FileOf(k) # 0 /\ TableOf(k) = 0

\* Fault: a CREATE that fails ends the request.
FaultyDuckCreate(r) ==
    LET k == file[r]
    IN  /\ step[r] = "create"
        /\ IF Creates(k)
           THEN /\ table' = [table EXCEPT ![k] = parquet[k]]
                /\ Goes(r, "duckSelect")
           ELSE Answers(r, 500) /\ UNCHANGED table
        /\ excused' = IF FileOf(k) # 0 THEN excused ELSE excused \cup {r}
        /\ UNCHANGED <<asked, parquet, written, file, rows>>

\* CREATE TABLE; an error, and a table still missing, are only logged.
DuckCreate(r) ==
    LET k == file[r]
    IN  /\ step[r] = "create"
        /\ \/ /\ Creates(k)
              /\ table' = [table EXCEPT ![k] = parquet[k]]
              /\ UNCHANGED excused
           \/ /\ ~ Creates(k) \/ S3Fails
              /\ excused' = IF TableOf(k) # 0 THEN excused ELSE excused \cup {r}
              /\ UNCHANGED table
        /\ Goes(r, "duckSelect")
        /\ UNCHANGED <<asked, parquet, written, file, rows>>

\* The rows; the error result of a SELECT throws when it is read.
DuckSelect(r) ==
    LET k == file[r]
    IN  /\ step[r] = "duckSelect"
        /\ \/ /\ TableOf(k) # 0 /\ asked[r].complete
              /\ rows' = [rows EXCEPT ![r] = table[k]]
              /\ Answers(r, 200)
              /\ UNCHANGED excused
           \/ /\ TableOf(k) = 0
              /\ Answers(r, 500)
              /\ UNCHANGED <<rows, excused>>
           \/ excused' = excused \cup {r} /\ Answers(r, 500) /\ UNCHANGED rows
        /\ UNCHANGED <<asked, parquet, written, table, file>>

DuckStep(r) == DuckExists(r) \/ DuckCreate(r) \/ DuckSelect(r)

-----------------------------------------------------------------------------
DuckTypeOK ==
    /\ parquet \in [Files -> 0 .. MaxVersions]
    /\ written \in [Files -> 0 .. MaxVersions]
    /\ table \in [Files -> 0 .. MaxVersions]
    /\ file \in [Requests -> Files \cup {NoFile}]
    /\ rows \in [Requests -> 0 .. MaxVersions]
    /\ excused \subseteq Requests

\* Rows are from the table of the file asked for, and a SELECT finds it unless
\* it could not be made.
DuckSteps ==
    \A r \in Requests :
        /\ rows[r] # 0 => /\ step[r] = "answered"
                          /\ file[r] \in Files /\ rows[r] = table[file[r]]
        /\ step[r] = "duckSelect" => TableOf(file[r]) # 0 \/ r \in excused
        /\ step[r] \in {"new", "call"} => file[r] = NoFile
        /\ ~ asked[r].complete => rows[r] = 0

-----------------------------------------------------------------------------
(* Properties.                                                             *)

\* Requests that race to create a table do not fail for it: a request fails
\* because there is no file, it cannot be read, or its clause is wrong.
DuckFailsForCause ==
    \A r \in Requests :
        asked[r].call = "duckdb" /\ answer[r] = 500 => r \in excused

\* A table is a snapshot: whatever becomes of the file, all requests for it
\* see the rows of one version.
OneSnapshot ==
    \A r, s \in Requests :
        file[r] = file[s] /\ rows[r] # 0 /\ rows[s] # 0 => rows[r] = rows[s]
=============================================================================
