----------------------------- MODULE IniManager -----------------------------
(***************************************************************************)
(* The configuration file of the sync daemon: iniManager and iniSection    *)
(* (sync/src/inimanager.cpp, sync/src/inisection.cpp), the file they read  *)
(* and write, and the daemon that starts from it (sync/src/main.cpp).      *)
(*                                                                         *)
(* Lines, names, keys and values are phrases, sequences of tokens: the     *)
(* marks the code looks for, and words, runs of other characters.  None of *)
(* them holds a line break.                                                *)
(***************************************************************************)
EXTENDS Integers, SequencesExt

CONSTANTS
  None, Waits,
  Paths,                (* paths of files                                  *)
  Words,                (* runs of characters that are no marks            *)
  Texts,                (* what a user may leave in a file                 *)
  Names, Keys, Values,  (* arguments of calls                              *)
  Lower,                (* tolower: from the words it changes              *)
  NumberOf,             (* from the words std::stol reads to their numbers *)
  MaxEntries            (* bound: entries the calls to Set lead to         *)

Marks == {"[", "]", "=", "#", ";"}
Tokens == Words \cup Marks
Phrases == Seq(Tokens)

\* What main hands to Sync::Run.
OptionRecords == [address : Phrases, nDomain : 0 .. 255, mode : Int, nHwC : Int]

ASSUME IniAssumption ==
  /\ Words \cap Marks = {}
  /\ Lower \in [DOMAIN Lower -> Words] /\ DOMAIN Lower \subseteq Words
  /\ \A word \in DOMAIN Lower : Lower[word] \notin DOMAIN Lower
  /\ \A word \in DOMAIN NumberOf : NumberOf[word] \in Int
  /\ Names \cup Keys \cup Values \subseteq Phrases
  /\ Texts \subseteq Seq(Phrases)
  /\ {"ptp", "interface", "domain"} \cap DOMAIN Lower = {} /\ "0.0.0.0" \in Words
  /\ None \notin Phrases \cup Seq(Phrases) /\ Waits \notin OptionRecords
  /\ MaxEntries \in Nat

VARIABLES
  m_filepath,     (* the path last read or written, None while empty       *)
  m_mSections,    (* from folded names to [name, data]; data goes from     *)
                  (* folded keys to [key, value]                           *)
  files,          (* from paths to their lines; None: there is no file     *)
  running,        (* what the daemon runs with; Waits: without a Sync      *)
  expected,       (* history: the value of each entry as the calls and the *)
                  (* text read give it                                     *)
  meant           (* history: the sections last saved to, or read from,    *)
                  (* each path while nothing else has touched its file     *)

memory == <<m_filepath, m_mSections, expected>>
vars == <<memory, files, running, meant>>

Nothing == <<>>    (* the function without arguments                       *)

Init ==
  /\ m_filepath = None /\ m_mSections = Nothing
  /\ files \in [Paths -> Texts \cup {None}]
  /\ running = None
  /\ expected = [entry \in {} |-> None]
  /\ meant = [path \in Paths |-> None]
-----------------------------------------------------------------------------
(* Sections and entries.                                                   *)

\* ci_less: names and keys that differ in case only are the same.
Fold(name) ==
  [i \in DOMAIN name |-> IF name[i] \in DOMAIN Lower THEN Lower[name[i]] ELSE name[i]]

\* Faulty: an ordinary std::map.
Put_Exact(data, key, value) ==
  [k \in DOMAIN data \cup {key} |->
     IF k = key THEN [key |-> key, value |-> value] ELSE data[k]]

\* iniSection::Set; an entry keeps its first spelling and takes the new value.
Put(data, key, value) ==
  [k \in DOMAIN data \cup {Fold(key)} |->
     IF k # Fold(key) THEN data[k]
     ELSE [key |-> IF k \in DOMAIN data THEN data[k].key ELSE key, value |-> value]]

\* Faulty: a section whose header comes again starts afresh.
CreateSection_Afresh(sections, name) ==
  [n \in DOMAIN sections \cup {Fold(name)} |->
     IF n = Fold(name) THEN [name |-> name, data |-> Nothing] ELSE sections[n]]

CreateSection(sections, name) ==
  [n \in DOMAIN sections \cup {Fold(name)} |->
     IF n \in DOMAIN sections THEN sections[n] ELSE [name |-> name, data |-> Nothing]]

Without(map, key) == [k \in DOMAIN map \ {key} |-> map[k]]

\* Faulty: found in the first spelling only.
Lookup_Exact(sections, name, key, default) ==
  IF /\ Fold(name) \in DOMAIN sections
     /\ \E k \in DOMAIN sections[Fold(name)].data :
          sections[Fold(name)].data[k].key = key
  THEN sections[Fold(name)].data[Fold(key)].value
  ELSE default

\* Get of a string; the overloads for doubles and GetBool convert what it
\* finds, as GetLong does.
Lookup(sections, name, key, default) ==
  IF Fold(name) \in DOMAIN sections /\ Fold(key) \in DOMAIN sections[Fold(name)].data
  THEN sections[Fold(name)].data[Fold(key)].value
  ELSE default

\* Get of a long: std::stol reads a number at the start, whatever follows.
GetLong(sections, name, key, default) ==
  LET value == Lookup(sections, name, key, <<>>)
  IN  IF value # <<>> /\ value[1] \in DOMAIN NumberOf
      THEN NumberOf[value[1]] ELSE default
-----------------------------------------------------------------------------
(* Lines.                                                                  *)

CommentMarks == {"#", ";"}

FirstAt(line, marks) ==
  CHOOSE i \in 1 .. Len(line) + 1 :
    /\ i <= Len(line) => line[i] \in marks
    /\ \A j \in 1 .. i - 1 : line[j] \notin marks

Before(line, marks) == SubSeq(line, 1, FirstAt(line, marks) - 1)

\* Faulty: split at the last '='.
StoreData_LastEqual(data, line) ==
  LET entry == Before(line, CommentMarks)
      equals == {i \in DOMAIN entry : entry[i] = "="}
      equal == CHOOSE i \in equals : \A j \in equals : j <= i
  IN  IF equals = {} THEN data
      ELSE Put(data, SubSeq(entry, 1, equal - 1), SubSeq(entry, equal + 1, Len(entry)))

\* StoreData: an entry is what is before a comment, split at the first '='.
StoreData(data, line) ==
  LET entry == Before(line, CommentMarks)
      equal == FirstAt(entry, {"="})
  IN  IF equal > Len(entry) THEN data
      ELSE Put(data, SubSeq(entry, 1, equal - 1), SubSeq(entry, equal + 1, Len(entry)))

\* MakeSection: the name ends at the first ']' or with the line.
SectionOf(line) == Before(Tail(line), {"]"})

\* One round of ReadStream's loop.  A header is then looked at as any line.
ReadLine(so_far, line) ==
  LET isHeader == line # <<>> /\ line[1] = "["
      at == IF isHeader THEN Fold(SectionOf(line)) ELSE so_far.at
      sections == IF isHeader THEN CreateSection(so_far.sections, SectionOf(line))
                  ELSE so_far.sections
  IN  [at |-> at,
       sections |->
         IF at = None \/ Len(line) < 2 \/ line[1] \in CommentMarks THEN sections
         ELSE [sections EXCEPT ![at].data = StoreData(@, line)]]

ReadStream(text) ==
  FoldLeft(ReadLine, [at |-> None, sections |-> Nothing], text).sections

\* iniSection::Write.  Entries stand in the order of the map, which matters
\* to a reader only for names and keys that are not plain.
SectionLines(section) ==
  LET data == section.data
      keys == SetToSeq(DOMAIN data)
  IN  << <<"[">> \o section.name \o <<"]">> >>
      \o [i \in DOMAIN keys |-> data[keys[i]].key \o <<"=">> \o data[keys[i]].value]
      \o << <<>> >>

Lines(sections) ==
  LET names == SetToSeq(DOMAIN sections)
  IN  FlattenSeq([i \in DOMAIN names |-> SectionLines(sections[names[i]])])
-----------------------------------------------------------------------------
(* What a reader of the text expects, line by line and without the maps.   *)

IsHeader(line) == line # <<>> /\ line[1] = "["

\* The folded name of the section line i stands in.
SectionAt(text, i) ==
  LET headers == {j \in 1 .. i : IsHeader(text[j])}
  IN  IF headers = {} THEN None
      ELSE Fold(SectionOf(text[CHOOSE j \in headers : \A h \in headers : h <= j]))

IsEntry(line) ==
  /\ Len(line) >= 2
  /\ \E i \in DOMAIN line :
       line[i] = "=" /\ \A j \in 1 .. i : line[j] \notin CommentMarks

EntryAt(text, i) == <<SectionAt(text, i), Fold(Before(text[i], {"="}))>>

ValueOf(line) ==
  Before(SubSeq(line, FirstAt(line, {"="}) + 1, Len(line)), CommentMarks)

\* The last line that gives an entry gives its value.
EntriesOf(text) ==
  LET given == {i \in DOMAIN text : IsEntry(text[i]) /\ SectionAt(text, i) # None}
  IN  [entry \in {EntryAt(text, i) : i \in given} |->
         LET lines == {i \in given : EntryAt(text, i) = entry}
         IN  ValueOf(text[CHOOSE i \in lines : \A j \in lines : j <= i])]
-----------------------------------------------------------------------------
(* The calls of a program that edits the configuration.                    *)

Entries(sections) ==
  UNION {{<<n, k>> : k \in DOMAIN sections[n].data} : n \in DOMAIN sections}

Set(name, key, value) ==
  /\ running = None
  /\ Cardinality(Entries(m_mSections) \cup {<<Fold(name), Fold(key)>>}) <= MaxEntries
  /\ m_mSections' = [CreateSection(m_mSections, name) EXCEPT
                       ![Fold(name)].data = Put(@, key, value)]
  /\ expected' = [entry \in DOMAIN expected \cup {<<Fold(name), Fold(key)>>} |->
                    IF entry = <<Fold(name), Fold(key)>> THEN value ELSE expected[entry]]
  /\ UNCHANGED <<m_filepath, files, running, meant>>

DeleteSection(name) ==
  /\ running = None
  /\ Fold(name) \in DOMAIN m_mSections
  /\ m_mSections' = Without(m_mSections, Fold(name))
  /\ expected' = [entry \in {e \in DOMAIN expected : e[1] # Fold(name)} |->
                    expected[entry]]
  /\ UNCHANGED <<m_filepath, files, running, meant>>

\* It answers true when there is the section, though there be no such key.
DeleteKey(name, key) ==
  /\ running = None
  /\ Fold(name) \in DOMAIN m_mSections
  /\ m_mSections' = [m_mSections EXCEPT ![Fold(name)].data = Without(@, Fold(key))]
  /\ expected' = Without(expected, <<Fold(name), Fold(key)>>)
  /\ UNCHANGED <<m_filepath, files, running, meant>>

\* Faulty: sections read before stay.
Load_OnTop(path, opens) ==
  /\ m_filepath' = path
  /\ m_mSections' =
       IF opens
       THEN FoldLeft(ReadLine, [at |-> None, sections |-> m_mSections], files[path]).sections
       ELSE m_mSections
  /\ expected' = IF opens THEN EntriesOf(files[path]) ELSE [entry \in {} |-> None]

\* What Read leaves in memory; the sections go before the file is opened.
Load(path, opens) ==
  /\ m_filepath' = path
  /\ m_mSections' = IF opens THEN ReadStream(files[path]) ELSE Nothing
  /\ expected' = IF opens THEN EntriesOf(files[path]) ELSE [entry \in {} |-> None]

NoteRead(path, opens) ==
  meant' = IF opens /\ meant[path] = None
           THEN [meant EXCEPT ![path] = ReadStream(files[path])] ELSE meant

\* An existing file may still fail to open.
Read(path) ==
  /\ running = None
  /\ \E opens \in {TRUE, FALSE} :
       /\ opens => files[path] # None
       /\ Load(path, opens) /\ NoteRead(path, opens)
  /\ UNCHANGED <<files, running>>

ReRead == m_filepath # None /\ Read(m_filepath)

\* The file is emptied, then filled as far as the disk has room (here: by
\* whole lines); the state of the stream is not asked.
WriteTo(path) ==
  LET lines == Lines(m_mSections)
  IN  \E room \in 0 .. Len(lines) :
        /\ files' = [files EXCEPT ![path] = SubSeq(lines, 1, room)]
        /\ meant' = [meant EXCEPT ![path] =
                       IF room = Len(lines) THEN m_mSections ELSE None]

\* Write with a path; a path that cannot be opened is taken over as well.
Write(path) ==
  /\ running = None
  /\ m_filepath' = path
  /\ WriteTo(path) \/ UNCHANGED <<files, meant>>
  /\ UNCHANGED <<m_mSections, expected, running>>

\* Write without a path; an empty one cannot be opened.
WriteAgain == m_filepath # None /\ Write(m_filepath)
-----------------------------------------------------------------------------
(* The daemon and the rest of the world.                                   *)

Options(sections) ==
  [address |-> Lookup(sections, <<"ptp">>, <<"address">>, <<"0.0.0.0">>),
   nDomain |-> GetLong(sections, <<"ptp">>, <<"domain">>, 0) % 256,
   mode    |-> GetLong(sections, <<"ptp">>, <<"mode">>, 0),
   nHwC    |-> GetLong(sections, <<"ptp">>, <<"hwc">>, -1)]

\* main, in a process of its own.  Where an interface is named no Sync runs:
\* that call is commented out.
Start(path) ==
  /\ running = None /\ m_filepath = None /\ m_mSections = Nothing
  /\ files[path] # None
  /\ Load(path, TRUE) /\ NoteRead(path, TRUE)
  /\ running' = IF Lookup(m_mSections', <<"ptp">>, <<"interface">>, <<>>) # <<>>
                THEN Waits ELSE Options(m_mSections')
  /\ UNCHANGED files

\* The process ends; a new one has nothing in memory.
Exit ==
  /\ m_filepath # None \/ m_mSections # Nothing
  /\ m_filepath' = None /\ m_mSections' = Nothing
  /\ expected' = [entry \in {} |-> None]
  /\ running' = None
  /\ UNCHANGED <<files, meant>>

\* A user edits, or removes, a file.
Edit(path) ==
  /\ \E text \in Texts \cup {None} : files' = [files EXCEPT ![path] = text]
  /\ meant' = [meant EXCEPT ![path] = None]
  /\ UNCHANGED <<memory, running>>

Next ==
  \/ \E name \in Names :
       \/ \E key \in Keys : DeleteKey(name, key) \/ \E value \in Values : Set(name, key, value)
       \/ DeleteSection(name)
  \/ \E path \in Paths : Read(path) \/ Write(path) \/ Start(path) \/ Edit(path)
  \/ ReRead \/ WriteAgain \/ Exit

Spec == Init /\ [][Next]_vars
-----------------------------------------------------------------------------
(* Every section and every entry is filed under its folded spelling, and a *)
(* daemon that runs has a domain of one octet.                             *)
TypeOK ==
  /\ m_filepath \in Paths \cup {None}
  /\ \A n \in DOMAIN m_mSections :
       /\ n = Fold(m_mSections[n].name)
       /\ \A k \in DOMAIN m_mSections[n].data : k = Fold(m_mSections[n].data[k].key)
  /\ running \notin {None, Waits} => running.nDomain \in 0 .. 255

(* In whatever spelling it is asked for, an entry has the value last given *)
(* to it: by Set, or by the last line of the file that names it in its     *)
(* section, wherever the section's parts stand; and after a Delete, or a   *)
(* Read of a file that lacks it, it has the caller's default               *)
(* (inimanager.cpp:73-149, 178-186, 274-279, 309-326).                     *)
LastValueWins ==
  \A name \in Names, key \in Keys :
    LET entry == <<Fold(name), Fold(key)>>
    IN  Lookup(m_mSections, name, key, None) =
          IF entry \in DOMAIN expected THEN expected[entry] ELSE None

\* What Write renders so that ReadStream finds it again.
IsPlain(sections) ==
  \A n \in DOMAIN sections :
    /\ \A i \in DOMAIN n : n[i] \notin {"]", "="}
    /\ \A k \in DOMAIN sections[n].data :
         LET value == sections[n].data[k].value
         IN  /\ \A i \in DOMAIN k : k[i] \notin CommentMarks \cup {"="}
             /\ k # <<>> => k[1] # "["
             /\ \A i \in DOMAIN value : value[i] \notin CommentMarks
             /\ k # <<>> \/ value # <<>>

(* What was saved without running out of room is read again as it was, by  *)
(* this process or a later one, until something else touches the file,     *)
(* unless a name, key or value holds a mark of the format: those are       *)
(* written as they are (inimanager.cpp:230-262, inisection.cpp:164-174).   *)
SavedIsRead ==
  \A path \in Paths :
    meant[path] # None /\ IsPlain(meant[path]) =>
      files[path] # None /\ ReadStream(files[path]) = meant[path]

(* A daemon runs with the domain that was saved, however its section and   *)
(* its key were spelled by the program that saved it, if it is an octet,   *)
(* and in no domain while an interface is configured (main.cpp:49-56).     *)
DaemonRunsAsSaved ==
  running # None /\ meant[m_filepath] # None /\ IsPlain(meant[m_filepath]) =>
    \A n \in DOMAIN meant[m_filepath] : n = <<"ptp">> =>
      LET data == meant[m_filepath][n].data
          Named(key) == {k \in DOMAIN data : k = <<key>> /\ data[k].value # <<>>}
      IN  /\ running = Waits <=> Named("interface") # {}
          /\ running # Waits =>
               \A k \in Named("domain") :
                 LET word == data[k].value[1]
                 IN  word \in DOMAIN NumberOf /\ NumberOf[word] \in 0 .. 255
                       => running.nDomain = NumberOf[word]
=============================================================================
