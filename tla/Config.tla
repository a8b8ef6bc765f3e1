------------------------------- MODULE Config -------------------------------
(***************************************************************************)
(* config.New: the configuration of the server is read from a file and     *)
(* from directories of services, each with directories of templates.  What *)
(* is in a directory of all is in the pool; what is in the directory of    *)
(* the enabled ones, usually as links, is found there by a hash of its     *)
(* contents.  ReadConfig of the command then looks at the result.          *)
(*                                                                         *)
(* A file has a name, an id (the name without extension in lower case, ""  *)
(* if that is illegal), a kind, and contents; its hash stands for its      *)
(* contents.  The kinds are those that the code tells apart: "skipped"     *)
(* (a directory, or of another extension), "unreadable", "illegal" (syntax *)
(* or validation fails) and "ok".  A directory that os.ReadDir does not     *)
(* list stands here as one whose only file is unreadable: reading ends in  *)
(* the same place with the same result.                                    *)
(***************************************************************************)
EXTENDS Integers, SequencesExt, FiniteSets

CONSTANT Disks   \* [server, api, all, enabled]; the last two as sequences of files

\* A directory is listed as a sequence; so are those of a service.
ASSUME DisksAssumption ==
  LET IsListed(dir) == dir \in Seq(Range(dir)) IN
  \A d \in Disks :
    /\ IsListed(d.all) /\ IsListed(d.enabled)
    /\ \A n \in DOMAIN d.all :
         d.all[n].kind = "ok" =>
           IsListed(d.all[n].contents.all) /\ IsListed(d.all[n].contents.enabled)

VARIABLES
  disk, pc,
  place,     \* where the loops over directories are: <<service, template>>
  conf,      \* the configuration: api, Services by hash, ServicesEnabled
  service,   \* the service that is being read: its Templates by hash, ...
  alien      \* enabled files that are not in the pool

confvars == <<disk, place, conf, service, alien>>

NoService == [Templates |-> <<>>, TemplatesEnabled |-> <<>>]
NoConfig == [api |-> FALSE, Services |-> <<>>, ServicesEnabled |-> <<>>]

ConfigInit ==
  /\ disk \in Disks /\ pc = "server"
  /\ place = <<1, 1>> /\ conf = NoConfig /\ service = NoService /\ alien = {}

Set(f, x, y) == [z \in DOMAIN f \cup {x} |-> IF z = x THEN y ELSE f[z]]

\* A file with the same contents is in the pool.
Duplicate_Never(pool, contents) == FALSE

Duplicate(pool, contents) == contents \in DOMAIN pool

Fail == pc' = "failed" /\ UNCHANGED confvars
Goto(label) == pc' = label

readServerConfig ==
  /\ pc = "server"
  /\ \/ /\ disk.server = "ok" /\ Goto("services")
        /\ conf' = [NoConfig EXCEPT !.api = disk.api]
        /\ UNCHANGED <<disk, place, service, alien>>
     \/ disk.server # "ok" /\ Fail

-----------------------------------------------------------------------------
(* The pool of services.                                                   *)

File == disk.all[place[1]]
NextFile == place' = <<place[1] + 1, 1>>
NextTemplateFile == place' = [place EXCEPT ![2] = @ + 1]

\* Up to the templates of a service.
readAllServices ==
  /\ pc = "services" /\ place[1] <= Len(disk.all)
  /\ \/ /\ File.kind = "skipped" /\ NextFile
        /\ UNCHANGED <<disk, pc, conf, service, alien>>
     \/ /\ File.kind = "ok" /\ File.id # "" /\ Goto("templates")
        /\ service' = [id |-> File.id, FilePath |-> File.name, Path |-> File.contents.path,
                       Enabled |-> FALSE, Templates |-> <<>>, TemplatesEnabled |-> <<>>]
        /\ alien' = {}
        /\ UNCHANGED <<disk, place, conf>>
     \/ /\ File.kind \in {"unreadable", "illegal"} \/ (File.kind = "ok" /\ File.id = "")
        /\ Fail

\* readTemplate: metadata and template parse, and the id is legal.
IsTemplate(t) == t.kind = "ok" /\ t.id # ""

\* The templates of the pool; two with the same contents are refused.
readAllTemplates ==
  LET dir == File.contents.all
      t == dir[place[2]]
  IN
  /\ pc = "templates"
  /\ \/ /\ place[2] > Len(dir) /\ Goto("enabled templates")
        /\ place' = [place EXCEPT ![2] = 1]
        /\ UNCHANGED <<disk, conf, service, alien>>
     \/ /\ place[2] <= Len(dir) /\ t.kind = "skipped" /\ NextTemplateFile
        /\ UNCHANGED <<disk, pc, conf, service, alien>>
     \/ /\ place[2] <= Len(dir) /\ IsTemplate(t) /\ ~Duplicate(service.Templates, t.contents)
        /\ service' = [service EXCEPT !.Templates =
                         Set(@, t.contents, [ID |-> t.id, Enabled |-> FALSE])]
        /\ NextTemplateFile
        /\ UNCHANGED <<disk, pc, conf, alien>>
     \/ /\ place[2] <= Len(dir) /\ t.kind # "skipped"
        /\ ~IsTemplate(t) \/ Duplicate(service.Templates, t.contents)
        /\ Fail

\* A template may be enabled twice, under two names.
readEnabledTemplates ==
  LET dir == File.contents.enabled
      t == dir[place[2]]
  IN
  /\ pc = "enabled templates" /\ place[2] <= Len(dir)
  /\ \/ /\ t.kind = "skipped" /\ NextTemplateFile
        /\ UNCHANGED <<pc, service, alien>>
     \/ /\ t.kind \notin {"skipped", "unreadable"} /\ t.contents \in DOMAIN service.Templates
        /\ service' = [service EXCEPT !.Templates[t.contents].Enabled = TRUE,
                                      !.TemplatesEnabled = Append(@, t.contents)]
        /\ NextTemplateFile
        /\ UNCHANGED <<pc, alien>>
     \/ /\ t.kind \notin {"skipped", "unreadable"} /\ t.contents \notin DOMAIN service.Templates
        /\ alien' = alien \cup {t.name}
        /\ NextTemplateFile
        /\ UNCHANGED <<pc, service>>
     \/ t.kind = "unreadable" /\ pc' = "failed" /\ UNCHANGED <<place, service, alien>>
  /\ UNCHANGED <<disk, conf>>

\* Back in readAllServices: the service is complete.
AddService ==
  /\ pc = "enabled templates" /\ place[2] > Len(File.contents.enabled)
  /\ \/ /\ alien = {} /\ ~Duplicate(conf.Services, File.contents)
        /\ conf' = [conf EXCEPT !.Services = Set(@, File.contents, service)]
        /\ NextFile /\ Goto("services")
        /\ UNCHANGED <<disk, service, alien>>
     \/ /\ alien # {} \/ Duplicate(conf.Services, File.contents)
        /\ Fail

-----------------------------------------------------------------------------
(* The enabled services.                                                   *)

EndOfServices ==
  /\ pc = "services" /\ place[1] > Len(disk.all)
  /\ Goto("enabled services") /\ place' = <<1, 1>> /\ alien' = {}
  /\ UNCHANGED <<disk, conf, service>>

readEnabledServices ==
  LET file == disk.enabled[place[1]] IN
  /\ pc = "enabled services" /\ place[1] <= Len(disk.enabled)
  /\ \/ /\ file.kind = "skipped" /\ NextFile
        /\ UNCHANGED <<pc, conf, alien>>
     \/ /\ file.kind \notin {"skipped", "unreadable"} /\ file.contents \in DOMAIN conf.Services
        /\ conf' = [conf EXCEPT !.Services[file.contents].Enabled = TRUE,
                                !.ServicesEnabled = Append(@, file.contents)]
        /\ NextFile
        /\ UNCHANGED <<pc, alien>>
     \/ /\ file.kind \notin {"skipped", "unreadable"} /\ file.contents \notin DOMAIN conf.Services
        /\ alien' = alien \cup {file.name}
        /\ NextFile
        /\ UNCHANGED <<pc, conf>>
     \/ file.kind = "unreadable" /\ pc' = "failed" /\ UNCHANGED <<place, conf, alien>>
  /\ UNCHANGED <<disk, service>>

EndOfEnabledServices ==
  /\ pc = "enabled services" /\ place[1] > Len(disk.enabled)
  /\ pc' = IF alien = {} THEN "read" ELSE "failed"
  /\ UNCHANGED confvars

\* Services and their templates have to be enabled, for the server to start.
ReadConfig ==
  /\ pc = "read"
  /\ pc' = IF /\ conf.ServicesEnabled # <<>>
              /\ \A n \in DOMAIN conf.ServicesEnabled :
                   conf.Services[conf.ServicesEnabled[n]].TemplatesEnabled # <<>>
           THEN "configured" ELSE "failed"
  /\ UNCHANGED confvars

ReadStep ==
  \/ readServerConfig
  \/ readAllServices \/ readAllTemplates \/ readEnabledTemplates \/ AddService
  \/ EndOfServices \/ readEnabledServices \/ EndOfEnabledServices
  \/ ReadConfig

-----------------------------------------------------------------------------
Contents(dir) == {dir[n].contents : n \in {m \in DOMAIN dir : dir[m].kind # "skipped"}}

\* Of two files of a pool with the same contents, one is too many.
IsPool(dir) ==
  /\ \A n \in DOMAIN dir : dir[n].kind \in {"skipped", "ok"} /\ (dir[n].kind = "ok" => dir[n].id # "")
  /\ \A n, m \in DOMAIN dir :
       n # m /\ dir[n].kind = "ok" /\ dir[m].kind = "ok" => dir[n].contents # dir[m].contents

\* A pool, and a choice of it.
IsSelected(all, enabled) ==
  /\ IsPool(all)
  /\ \A n \in DOMAIN enabled : enabled[n].kind # "unreadable"
  /\ Contents(enabled) \subseteq Contents(all)

Flagged(pool) == {h \in DOMAIN pool : pool[h].Enabled}

\* A configuration is accepted exactly if each directory of a pool has legal
\* files that differ from each other, those that are enabled are of the pool,
\* and something is enabled for the server to do.  It then has what is in the
\* directories, with the flags and the lists of what is enabled in agreement.
ConfigIsOfTheDisk ==
  LET legal == /\ disk.server = "ok" /\ IsSelected(disk.all, disk.enabled)
               /\ \A c \in Contents(disk.all) : IsSelected(c.all, c.enabled)
      serves == /\ Contents(disk.enabled) # {}
                /\ \A c \in Contents(disk.enabled) : Contents(c.enabled) # {}
  IN /\ pc = "failed" => ~(legal /\ serves)
     /\ pc = "configured" =>
          /\ legal /\ serves
          /\ DOMAIN conf.Services = Contents(disk.all)
          /\ Flagged(conf.Services) = Contents(disk.enabled)
          /\ Range(conf.ServicesEnabled) = Contents(disk.enabled)
          /\ \A c \in DOMAIN conf.Services :
               LET s == conf.Services[c] IN
               /\ DOMAIN s.Templates = Contents(c.all)
               /\ Flagged(s.Templates) = Contents(c.enabled)
               /\ Range(s.TemplatesEnabled) = Contents(c.enabled)
=============================================================================
