--------------------------- MODULE FavoriteLibrary ---------------------------
(***************************************************************************)
(* Favorites, their collections and notes, of one user.  A command that    *)
(* writes several tables does so in one transaction; one that looks before *)
(* it writes reads outside of any, so other updates of the user come in    *)
(* between.                                                                *)
(***************************************************************************)
EXTENDS Naturals, Sequences, FiniteSets

CONSTANTS
    Update,                 \* updates of the user in progress
    Post, Collection        \* identities; a collection's is never used again

VARIABLES
    favorites, collections,
    items,                  \* favorite_collection_items: collection, post
    notes,                  \* the posts with a favorite_notes row
    deleted,                \* collections there have been
    filing,                 \* the steps of each update that looks first
    raced                   \* history: posts removed between a look and the
                            \* write that follows it

library == <<favorites, collections, items, notes, deleted>>
libraryVars == <<library, filing, raced>>

Rest == [step |-> "none", posts |-> <<>>, into |-> "none"]

LibraryInit ==
    /\ favorites = {}
    /\ collections = {}
    /\ items = {}
    /\ notes = {}
    /\ deleted = {}
    /\ filing = [u \in Update |-> Rest]
    /\ raced = {}

(***************************************************************************)
(* Single transactions                                                     *)
(***************************************************************************)
Insert(p) ==
    /\ favorites' = favorites \cup {p}
    /\ raced' = raced \ ({p} \ favorites)

\* add_favorite: nothing is written when the row is there.
AddFavorite(p) ==
    /\ Insert(p)
    /\ UNCHANGED <<collections, items, notes, deleted, filing>>

\* Mutant of ClearedItems: the items of the post stay.
ItemsKept(p) == items

\* What remove_favorite leaves of the other tables.
ClearedItems(p) == {i \in items : i[2] # p}
ClearedNotes(p) == notes \ {p}

\* A look that this removal overtakes.
Overtaken(p) ==
    \E u \in Update :
        /\ filing[u].step \in {"insert", "note"}
        /\ filing[u].posts[1] = p

RemoveFavorite(p) ==
    /\ items' = ClearedItems(p)
    /\ notes' = ClearedNotes(p)
    /\ favorites' = favorites \ {p}
    /\ raced' = IF p \in favorites /\ Overtaken(p) THEN raced \cup {p} ELSE raced
    /\ UNCHANGED <<collections, deleted, filing>>

CreateCollection(c) ==
    /\ c \notin collections \cup deleted
    /\ collections' = collections \cup {c}
    /\ UNCHANGED <<favorites, items, notes, deleted, filing, raced>>

\* Rows of a table that refers to the collection go with it (ON DELETE CASCADE).
Drop(cs) ==
    /\ collections' = collections \ cs
    /\ deleted' = deleted \cup cs
    /\ items' = {i \in items : i[1] \notin cs}
    /\ UNCHANGED <<favorites, notes, filing, raced>>

DeleteCollection(c) == c \in collections /\ Drop({c})

\* cleanup_empty_collections
CleanupEmpty == Drop({c \in collections : \A i \in items : i[1] # c})

RemoveItem(c, p) ==
    /\ items' = items \ {<<c, p>>}
    /\ UNCHANGED <<favorites, collections, notes, deleted, filing, raced>>

(***************************************************************************)
(* Look, then write                                                        *)
(***************************************************************************)
Files(u, step, posts, c) ==
    filing' = [filing EXCEPT ![u] = [step |-> step, posts |-> posts,
                                     into |-> c]]

\* A button puts a favorite into a collection, a bulk command several posts.
Collect(u, p, c) ==
    /\ filing[u] = Rest
    /\ Files(u, "look", <<p>>, c)
    /\ UNCHANGED <<library, raced>>

CollectAll(u, posts, c) ==
    /\ filing[u] = Rest
    /\ Files(u, "favorite", posts, c)
    /\ UNCHANGED <<library, raced>>

\* This post is done: the next of a bulk command, or the end.
Onward(u) ==
    LET f == filing[u]
    IN  IF Len(f.posts) > 1 THEN Files(u, "favorite", Tail(f.posts), f.into)
        ELSE filing' = [filing EXCEPT ![u] = Rest]

\* A bulk command makes the post a favorite first, if it is still known.
FavoriteFirst(u) ==
    LET f == filing[u]
    IN  /\ f.step = "favorite"
        /\ \/ Insert(f.posts[1]) /\ Files(u, "look", f.posts, f.into)
           \/ UNCHANGED <<favorites, raced>> /\ Onward(u)
        /\ UNCHANGED <<collections, items, notes, deleted>>

\* The first two statements of add_favorite_to_collection.
LookCollection(u) ==
    LET f == filing[u]
    IN  /\ f.step = "look"
        /\ IF f.into \in collections THEN Files(u, "look_post", f.posts, f.into)
           ELSE Onward(u)
        /\ UNCHANGED <<library, raced>>

LookFavorite(u) ==
    LET f == filing[u]
    IN  /\ f.step = "look_post"
        /\ IF f.posts[1] \in favorites THEN Files(u, "insert", f.posts, f.into)
           ELSE Onward(u)
        /\ UNCHANGED <<library, raced>>

\* PRAGMA foreign_keys = ON: no item of a collection that is gone.
ForeignKey(c) == c \in collections

InsertItem(u) ==
    LET f == filing[u]
    IN  /\ f.step = "insert"
        /\ items' = IF ForeignKey(f.into) THEN items \cup {<<f.into, f.posts[1]>>}
                    ELSE items
        /\ Onward(u)
        /\ UNCHANGED <<favorites, collections, notes, deleted, raced>>

\* set_favorite_note, its look and its write.
LookNote(u, p) ==
    /\ filing[u] = Rest
    /\ p \in favorites
    /\ Files(u, "note", <<p>>, "none")
    /\ UNCHANGED <<library, raced>>

WriteNote(u) ==
    LET p == filing[u].posts[1]
    IN  /\ filing[u].step = "note"
        /\ notes' \in {notes \cup {p}, notes \ {p}}
        /\ filing' = [filing EXCEPT ![u] = Rest]
        /\ UNCHANGED <<favorites, collections, items, deleted, raced>>

\* The process goes down: what is written stays.
LibraryCrash ==
    /\ filing' = [u \in Update |-> Rest]
    /\ UNCHANGED <<library, raced>>

Bulk == {s \in Post \X Post : s[1] # s[2]}

LibraryNext ==
    \/ \E p \in Post : AddFavorite(p) \/ RemoveFavorite(p)
    \/ \E c \in Collection : CreateCollection(c) \/ DeleteCollection(c)
    \/ CleanupEmpty
    \/ \E c \in Collection, p \in Post : RemoveItem(c, p)
    \/ \E u \in Update :
          \/ \E c \in Collection : \/ \E p \in Post : Collect(u, p, c)
                                   \/ \E posts \in Bulk : CollectAll(u, posts, c)
          \/ FavoriteFirst(u)
          \/ LookCollection(u) \/ LookFavorite(u) \/ InsertItem(u)
          \/ \E p \in Post : LookNote(u, p)
          \/ WriteNote(u)
    \/ LibraryCrash

LibrarySpec == LibraryInit /\ [][LibraryNext]_libraryVars

(***************************************************************************)
(* Properties.                                                             *)
(***************************************************************************)
\* What hangs on a favorite or a collection goes with it: no collection
\* counts a post that it does not show, no search finds the note of a post
\* that is no favorite; except for a post that was removed between the look
\* and the write of another update.
LibraryIntact ==
    /\ \A i \in items : i[1] \in collections
    /\ \A i \in items : i[2] \in favorites \cup raced
    /\ notes \subseteq favorites \cup raced

=============================================================================
