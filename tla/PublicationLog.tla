--------------------------- MODULE PublicationLog ---------------------------
(***************************************************************************)
(* What the publication gate promises the public, with no transaction,     *)
(* clock or row lock: texts are handed in one after the other, each is     *)
(* judged once, and what the public reads of a story is the newest text    *)
(* that was judged fit to be published.                                    *)
(***************************************************************************)
EXTENDS Naturals

CONSTANTS
    Story,
    Text,
    None    \* no text: a draft that cannot be published, a story without one

VARIABLES
    entries,   \* number -> story, text and verdict of what was handed in
    public     \* story -> the text the public reads

logVars == <<entries, public>>

Entries == [story : Story, text : Text \cup {None},
            verdict : {"open", "published", "closed"}]

LogInit ==
    /\ entries = [i \in {} |-> i]
    /\ public = [s \in Story |-> None]

\* Something is handed in, to be judged or judged unfit at once.
HandIn ==
    \E i \in DOMAIN entries' :
        /\ \A j \in DOMAIN entries : j < i /\ entries'[j] = entries[j]
        /\ DOMAIN entries' = DOMAIN entries \cup {i}
        /\ entries'[i] \in Entries /\ entries'[i].verdict # "published"
        /\ UNCHANGED public

\* No text of its story was published that is newer.
IsNewest(i) ==
    \A j \in DOMAIN entries :
        entries[j].story = entries[i].story /\ entries[j].verdict = "published" => j < i

Publish(i) ==
    /\ entries[i].verdict = "open" /\ entries[i].text # None
    /\ IsNewest(i)
    /\ entries' = [entries EXCEPT ![i].verdict = "published"]
    /\ public' = [public EXCEPT ![entries[i].story] = entries[i].text]

Close(i) ==
    /\ entries[i].verdict = "open"
    /\ entries' = [entries EXCEPT ![i].verdict = "closed"]
    /\ UNCHANGED public

LogNext ==
    \/ HandIn
    \/ \E i \in DOMAIN entries : Publish(i) \/ Close(i)

LogSpec == LogInit /\ [][LogNext]_logVars
=============================================================================
