---------------------------- MODULE ProgramFiles ----------------------------
(***************************************************************************)
(* The list of programs of the main page (program_list_model): the files of *)
(* two directories, the disk ("hd") and the stick ("usb"), read by          *)
(* asynchronous requests of libuv and merged into one list.  A file whose   *)
(* contents are the same in both places is one record, else there are two   *)
(* records of the same name.  Beside it the pages of auto_ctl_window that   *)
(* use the list: the editor with its save, and the page that hands a        *)
(* program to the automatic mode.                                           *)
(*                                                                         *)
(* The contents of a file are a member of `Contents'; its checksum is       *)
(* itself.  A damaged file is Broken.                                       *)
(***************************************************************************)
EXTENDS Integers, SequencesExt

CONSTANTS
    Names,              \* names of files
    Contents,           \* programs, told apart by their checksum
    Broken, NoFile,     \* a file that is no program; no file
    NoName,             \* empty string
    MaxDiskChanges,     \* bound: changes of the files, copies included
    EventsWhileReading, \* may a change be reported while a file is being read?
    SecondCopy          \* may a copy be ordered while one is under way?

ASSUME FilesAssumption ==
    /\ {Broken, NoFile} \cap Contents = {} /\ Broken # NoFile
    /\ NoName \notin Names
    /\ MaxDiskChanges \in Nat
    /\ EventsWhileReading \in BOOLEAN /\ SecondCopy \in BOOLEAN

Disks == {"hd", "usb"}

VARIABLES
    files,      \* disk |-> name |-> what is on it
    unseen,     \* disk |-> names with a change the model was not told of yet
    reader,     \* disk |-> context_t: its request, dirty_files, process_file
    copying,    \* disk |-> name that is being copied to it
    records,    \* records_index_map_, as the table shows it
    clash,      \* a request was started on a uv_fs_t that is in use
    page,       \* page of auto_ctl_window on the screen
    editor,     \* editor_page: fname_, name in the header, program, need_save
    loaded,     \* program last handed to the automatic mode
    changes     \* number of changes of the files

listVars == <<files, unseen, reader, copying, records, clash, changes>>
pageVars == <<page, editor, loaded>>
filesVars == <<files, unseen, reader, copying, records, clash, page, editor, loaded, changes>>

OtherDisk(d) == IF d = "hd" THEN "usb" ELSE "hd"

Record(n, c, d) ==
    [filename |-> n, crc |-> c, source |-> {d}, removed |-> FALSE, syncing |-> FALSE]

FilesTypeOK ==
    /\ files \in [Disks -> [Names -> Contents \cup {Broken, NoFile}]]
    /\ unseen \in [Disks -> SUBSET Names]
    /\ \A d \in Disks :
        /\ reader[d].stage \in {"scan", "idle", "stat", "read"}
        /\ reader[d].dirty \in Seq(Names)
        /\ (reader[d].stage \in {"stat", "read"}) <=> (reader[d].name \in Names)
    /\ copying \in [Disks -> Names \cup {NoName}]
    /\ records \in Seq([filename : Names, crc : Contents, source : SUBSET Disks,
                        removed : BOOLEAN, syncing : BOOLEAN])
    /\ page \in {"main", "editor", "auto"}
    /\ clash \in BOOLEAN

-----------------------------------------------------------------------------
(* The merge of what was read into the list.                               *)

Same(rs, n) == {i \in DOMAIN rs : rs[i].filename = n}
First(rs, n) == CHOOSE i \in Same(rs, n) : \A j \in Same(rs, n) : i <= j

AppendFile(rs, d, n, c) ==
    IF Same(rs, n) = {} THEN <<Record(n, c, d)>> \o rs
    ELSE
      LET i == First(rs, n)
          synced == [rs EXCEPT ![i].syncing = FALSE]
          own == IF d \in rs[i].source THEN {i} ELSE Same(rs, n) \ {i}
          kept == IF own = {} THEN synced
                  ELSE RemoveAt(synced, CHOOSE k \in own : TRUE)
          equal == {k \in Same(kept, n) : kept[k].crc = c}
      IN IF rs[i].source = Disks
         THEN IF rs[i].crc = c THEN synced
              ELSE <<Record(n, c, d)>> \o [synced EXCEPT ![i].source = @ \ {d}]
         ELSE IF equal # {}
              THEN [kept EXCEPT ![CHOOSE k \in equal : TRUE].source = @ \cup {d}]
              ELSE <<Record(n, c, d)>> \o kept

(* Mutant of the next: the record goes though the other disk has the file.  *)
RemoveFile_WholeRecord(rs, d, n) ==
    IF Same(rs, n) = {} THEN rs ELSE RemoveAt(rs, First(rs, n))

RemoveFile(rs, d, n) ==
    IF Same(rs, n) = {} THEN rs
    ELSE LET i == First(rs, n)
             left == rs[i].source \ {d}
         IN IF left = {} THEN RemoveAt(rs, i) ELSE [rs EXCEPT ![i].source = left]

-----------------------------------------------------------------------------
(* The requests.  One uv_fs_t per disk serves the scan, stat and read; the  *)
(* guard against a second request is process_file, which is empty during   *)
(* the scan and again as soon as the file is being read.                   *)

Guarded(r) == r.stage = "stat"

ProcessDirtyFiles(r) ==
    IF r.dirty = <<>> \/ Guarded(r) THEN r
    ELSE [r EXCEPT !.stage = "stat", !.name = Last(r.dirty), !.dirty = Front(r.dirty)]

Resting(r) == [r EXCEPT !.stage = "idle", !.name = NoName, !.seen = NoFile]
MoreDirty(r, names) == [r EXCEPT !.dirty = @ \o names]

(* The directory is read, then closed; subdirectories are left out.        *)
ReadDirEntry(d) ==
    /\ reader[d].stage = "scan"
    /\ \E order \in SetToSeqs({n \in Names : files[d][n] # NoFile}) :
        reader' = [reader EXCEPT ![d] =
                       ProcessDirtyFiles(Resting(MoreDirty(@, order)))]
    /\ UNCHANGED <<files, unseen, copying, records, clash, changes, pageVars>>

FsEvent(d) ==
    \E n \in unseen[d] :
        /\ EventsWhileReading \/ reader[d].stage \in {"idle", "stat"}
        /\ unseen' = [unseen EXCEPT ![d] = @ \ {n}]
        /\ reader' = [reader EXCEPT ![d] = ProcessDirtyFiles(MoreDirty(@, <<n>>))]
        /\ clash' = (clash \/ reader[d].stage \in {"scan", "read"})
        /\ UNCHANGED <<files, copying, records, changes, pageVars>>

StatDone(d) ==
    /\ reader[d].stage = "stat"
    /\ LET n == reader[d].name
       IN IF files[d][n] = NoFile
          THEN /\ records' = RemoveFile(records, d, n)
               /\ reader' = [reader EXCEPT ![d] = ProcessDirtyFiles(Resting(@))]
          ELSE /\ reader' = [reader EXCEPT ![d].stage = "read", ![d].seen = files[d][n]]
               /\ UNCHANGED records
    /\ UNCHANGED <<files, unseen, copying, clash, changes, pageVars>>

(* What the read brings.  A file that changed since stat may have another   *)
(* length; one that is gone leaves in the buffer what a recycled record had. *)
Readable(d) ==
    LET n == reader[d].name IN
    IF files[d][n] = reader[d].seen THEN {files[d][n]}
    ELSE IF files[d][n] = NoFile THEN Contents \cup {Broken}
    ELSE {files[d][n], Broken}

ReadDone(d) ==
    /\ reader[d].stage = "read"
    /\ \E c \in Readable(d) :
        records' = IF c = Broken THEN records ELSE AppendFile(records, d, reader[d].name, c)
    /\ reader' = [reader EXCEPT ![d] = ProcessDirtyFiles(Resting(@))]
    /\ UNCHANGED <<files, unseen, copying, clash, changes, pageVars>>

-----------------------------------------------------------------------------
(* The operator at the main page.                                          *)

Selectable(i) == page = "main" /\ ~records[i].removed

(* The queue of copies holds a file only until copy_next_file takes it, in  *)
(* the same call: a second copy is started on the request of the first.    *)
CopyTo(d) ==
    \E i \in DOMAIN records :
        /\ Selectable(i)
        /\ d \notin records[i].source /\ ~records[i].syncing
        /\ SecondCopy \/ copying[d] = NoName
        /\ records' = [records EXCEPT ![i].syncing = TRUE]
        /\ clash' = (clash \/ copying[d] # NoName)
        /\ copying' = [copying EXCEPT ![d] = records[i].filename]
        /\ changes < MaxDiskChanges /\ changes' = changes + 1
        /\ UNCHANGED <<files, unseen, reader, pageVars>>

CopyDone(d) ==
    /\ copying[d] # NoName
    /\ copying' = [copying EXCEPT ![d] = NoName]
    /\ LET n == copying[d]
           c == files[OtherDisk(d)][n]
       IN IF c = NoFile THEN UNCHANGED <<files, unseen>>
          ELSE /\ files' = [files EXCEPT ![d][n] = c]
               /\ unseen' = [unseen EXCEPT ![d] = @ \cup {n}]
    /\ UNCHANGED <<reader, records, clash, changes, pageVars>>

(* "Remove" marks the record and does no more.                             *)
RemoveRecord ==
    \E i \in DOMAIN records :
        /\ Selectable(i)
        /\ records' = [records EXCEPT ![i].removed = TRUE]
        /\ UNCHANGED <<files, unseen, reader, copying, clash, changes, pageVars>>

(* A click on the header of the table: any order the dates may give.       *)
Sort ==
    /\ page = "main"
    /\ \E order \in SetToSeqs(DOMAIN records) :
        records' = [i \in DOMAIN records |-> records[order[i]]]
    /\ UNCHANGED <<files, unseen, reader, copying, clash, changes, pageVars>>

-----------------------------------------------------------------------------
(* The pages.                                                              *)

(* Each page overwrites what it shows when it is entered (init): what it had *)
(* when it was left is of no account.                                      *)
NoEditor == [fname |-> NoName, name |-> NoName, program |-> Broken, dirty |-> FALSE]
NotLoaded == [name |-> NoName, program |-> Broken]

Edited(r) == [fname |-> r.filename, name |-> r.filename, program |-> r.crc, dirty |-> FALSE]
Loads(r) == [name |-> r.filename, program |-> r.crc]
FoundByName(n) == {i \in Same(records, n) : i = First(records, n)}

GotoEditorPage ==
    /\ page = "main"
    /\ \/ editor' = NoEditor
       \/ \E i \in DOMAIN records : Selectable(i) /\ editor' = Edited(records[i])
    /\ page' = "editor"
    /\ UNCHANGED <<loaded, listVars>>

GotoCtlPage ==
    /\ \E i \in DOMAIN records : Selectable(i) /\ loaded' = Loads(records[i])
    /\ page' = "auto"
    /\ UNCHANGED <<editor, listVars>>

(* From the automatic page back to the editor or to the list.              *)
GoToEditor ==
    /\ page = "auto"
    /\ \E i \in FoundByName(loaded.name) :
        page' = "editor" /\ editor' = Edited(records[i])
    /\ loaded' = NotLoaded
    /\ UNCHANGED listVars

GoToMain ==
    /\ page = "auto" /\ page' = "main"
    /\ loaded' = NotLoaded
    /\ UNCHANGED <<editor, listVars>>

(* A change of the program or of its name; the keyboard is in ProgramEditor. *)
Edit ==
    /\ page = "editor"
    /\ \E c \in Contents, n \in Names :
        editor' = [editor EXCEPT !.program = c, !.name = n, !.dirty = TRUE]
    /\ UNCHANGED <<page, loaded, listVars>>

(* A new name must be free, and is kept even when the save then fails on a  *)
(* loop that leads forward; a failed write leaves a damaged file.          *)
MakeSave ==
    /\ page = "editor" /\ editor.dirty /\ changes < MaxDiskChanges
    /\ editor.name = editor.fname \/ files["hd"][editor.name] = NoFile
    /\ \/ editor' = [editor EXCEPT !.fname = editor.name]
          /\ UNCHANGED listVars
       \/ \E c \in {editor.program, Broken} :
            /\ files' = [files EXCEPT !["hd"][editor.name] = c]
            /\ editor' = [editor EXCEPT !.fname = editor.name, !.dirty = (c = Broken)]
            /\ unseen' = [unseen EXCEPT !["hd"] = @ \cup {editor.name}]
            /\ changes' = changes + 1
            /\ UNCHANGED <<reader, copying, records, clash>>
    /\ UNCHANGED <<page, loaded>>

(* The automatic page gets the record the list has under the name.         *)
MakePlay ==
    /\ page = "editor" /\ ~editor.dirty
    /\ \E i \in FoundByName(editor.fname) : loaded' = Loads(records[i])
    /\ page' = "auto" /\ editor' = NoEditor
    /\ UNCHANGED listVars

MakeExit ==
    /\ page = "editor" /\ ~editor.dirty
    /\ page' = "main" /\ editor' = NoEditor
    /\ UNCHANGED <<loaded, listVars>>

-----------------------------------------------------------------------------
(* Files changed by others, above all on the stick.                        *)

ChangeOnDisk ==
    \E d \in Disks, n \in Names, c \in Contents \cup {Broken, NoFile} :
        /\ changes < MaxDiskChanges /\ c # files[d][n]
        /\ files' = [files EXCEPT ![d][n] = c]
        /\ unseen' = [unseen EXCEPT ![d] = @ \cup {n}]
        /\ changes' = changes + 1
        /\ UNCHANGED <<reader, copying, records, clash, pageVars>>

FilesInit ==
    /\ files \in [Disks -> [Names -> Contents \cup {NoFile}]]
    /\ unseen = [d \in Disks |-> {}]
    /\ reader = [d \in Disks |-> [stage |-> "scan", dirty |-> <<>>, name |-> NoName, seen |-> NoFile]]
    /\ copying = [d \in Disks |-> NoName]
    /\ records = <<>> /\ clash = FALSE /\ changes = 0
    /\ page = "main"
    /\ editor = NoEditor /\ loaded = NotLoaded

FilesNext ==
    /\ ~clash
    /\ \/ \E d \in Disks : ReadDirEntry(d) \/ FsEvent(d) \/ StatDone(d) \/ ReadDone(d)
       \/ \E d \in Disks : CopyTo(d) \/ CopyDone(d)
       \/ RemoveRecord \/ Sort
       \/ GotoEditorPage \/ GotoCtlPage \/ GoToEditor \/ GoToMain
       \/ Edit \/ MakeSave \/ MakePlay \/ MakeExit
       \/ ChangeOnDisk

FilesSpec == FilesInit /\ [][FilesNext]_filesVars

-----------------------------------------------------------------------------
(* Properties.                                                             *)

Quiet(d) == unseen[d] = {} /\ reader[d].stage = "idle" /\ reader[d].dirty = <<>>

(* When a disk has come to rest, the list has every program on it, with its *)
(* contents and with the mark of the disk: no order of reads, changes,     *)
(* copies and merges of the two disks loses one (append_file, remove_file).*)
ListedWhenQuiet ==
    \A d \in Disks : Quiet(d) =>
        \A n \in {m \in Names : files[d][m] \in Contents} :
            \E i \in Same(records, n) : d \in records[i].source /\ records[i].crc = files[d][n]

(* Two records of one name have different contents and no disk in common   *)
(* ("two files of the same name may be listed if their checksums differ",  *)
(* program-list-model.cpp:176).                                            *)
VersionsDiffer ==
    \A i, j \in DOMAIN records :
        i # j /\ records[i].filename = records[j].filename =>
            records[i].crc # records[j].crc /\ records[i].source \cap records[j].source = {}

ProgramsListed == ListedWhenQuiet /\ VersionsDiffer

(* "Play" hands the program of the editor to the automatic mode            *)
(* (editor-page.cpp:320); the code takes whatever record the list has under *)
(* the name at that moment.                                                *)
PlaysWhatWasEdited ==
    [][page = "editor" /\ page' = "auto" => loaded'.program = editor.program]_filesVars
=============================================================================
